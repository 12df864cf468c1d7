------------------------ MODULE AsyncResolutionProofs ------------------------
(***************************************************************************)
(* Theorems about AsyncResolution, for every number of requests, every     *)
(* graph and every order in which the loop runs the calls.                 *)
(***************************************************************************)
EXTENDS AsyncResolution, FiniteSetTheorems, SequenceTheorems, TLAPS

-----------------------------------------------------------------------------
(* Least counterexamples: what replaces induction *)

LEMMA LeastNumber ==
  ASSUME NEW S \in SUBSET Nat, S # {}
  PROVE  \E m \in S : \A n \in S : m <= n
<1>1. \E m \in S : \A n \in S : ~(<<n, m>> \in OpToRel(<, Nat))
  BY NatLessThanWellFounded, WFMin
<1>2. PICK m \in S : \A n \in S : ~(<<n, m>> \in OpToRel(<, Nat))
  BY <1>1
<1>3. ASSUME NEW n \in S PROVE m <= n
  <2>1. ~(<<n, m>> \in {ss \in Nat \X Nat : ss[1] < ss[2]})
    BY <1>2 DEF OpToRel
  <2>2. <<n, m>> \in Nat \X Nat
    OBVIOUS
  <2>3. ~(n < m)
    BY <2>1, <2>2
  <2> QED BY <2>3
<1> QED BY <1>3

-----------------------------------------------------------------------------
(* The graph *)

LEMMA Dependencies ==
  ASSUME NEW k \in Keys
  PROVE  Deps[k] \in Seq(Keys) /\ DepSet(k) \subseteq Keys
BY AsyncAssumption DEF AsyncAssumption, DepSet, ToSet

LEMMA NeededIs ==
  /\ DOMAIN Needed = Keys
  /\ \A k \in Keys :
       Needed[k] = {j \in Keys : \A S \in ClosedSets : DepSet(k) \subseteq S => j \in S}
BY DEF Needed

\* What a key needs: its dependencies, and theirs.
LEMMA NeededHolds ==
  ASSUME NEW k \in Keys
  PROVE  /\ Needed[k] \subseteq Keys
         /\ DepSet(k) \subseteq Needed[k]
         /\ \A j \in Needed[k] : DepSet(j) \subseteq Needed[k]
<1>1. Needed[k] \subseteq Keys
  BY NeededIs
<1>2. DepSet(k) \subseteq Needed[k]
  BY NeededIs, Dependencies
<1>3. ASSUME NEW j \in Needed[k] PROVE DepSet(j) \subseteq Needed[k]
  <2>1. j \in Keys
    BY <1>1
  <2>2. ASSUME NEW d \in DepSet(j) PROVE d \in Needed[k]
    <3>1. ASSUME NEW S \in ClosedSets, DepSet(k) \subseteq S PROVE d \in S
      <4>1. j \in S
        BY <3>1, NeededIs
      <4> QED BY <4>1 DEF ClosedSets, Closed
    <3> QED BY <2>1, <3>1, NeededIs, Dependencies
  <2> QED BY <2>2
<1> QED BY <1>1, <1>2, <1>3

\* Nothing else.
LEMMA NeededLeast ==
  ASSUME NEW k \in Keys, NEW S \in SUBSET Keys, Closed(S), DepSet(k) \subseteq S
  PROVE  Needed[k] \subseteq S
BY NeededIs DEF ClosedSets

LEMMA NeededOfNeeded ==
  ASSUME NEW k \in Keys, NEW j \in Needed[k]
  PROVE  Needed[j] \subseteq Needed[k]
<1>1. j \in Keys /\ DepSet(j) \subseteq Needed[k] /\ Closed(Needed[k])
  BY NeededHolds DEF Closed
<1> QED BY <1>1, NeededHolds, NeededLeast

LEMMA NeededOfNone ==
  ASSUME NEW k \in Keys, Deps[k] = <<>>
  PROVE  Needed[k] = {}
<1>1. DepSet(k) = {}
  BY DEF DepSet, ToSet
<1>2. Closed({})
  BY DEF Closed
<1> QED BY <1>1, <1>2, NeededLeast

\* A cycle goes on: one of the dependencies is on it too.
LEMMA CycleGoesOn ==
  ASSUME NEW k \in Keys, OnCycle(k)
  PROVE  \E d \in DepSet(k) : OnCycle(d) /\ d \in Needed[k]
<1> DEFINE Below == DepSet(k) \cup UNION {Needed[d] : d \in DepSet(k)}
<1>1. Below \in SUBSET Keys
  BY Dependencies, NeededHolds
<1>2. Closed(Below)
  <2>1. ASSUME NEW j \in Below PROVE DepSet(j) \subseteq Below
    <3>1. CASE j \in DepSet(k)
      BY <3>1, Dependencies, NeededHolds
    <3>2. CASE \E d \in DepSet(k) : j \in Needed[d]
      BY <3>2, Dependencies, NeededHolds
    <3> QED BY <3>1, <3>2
  <2> QED BY <2>1 DEF Closed
<1>3. Needed[k] \subseteq Below
  BY <1>1, <1>2, NeededLeast
<1>4. k \in Below
  BY <1>3 DEF OnCycle
<1>5. DepSet(k) \subseteq Needed[k]
  BY NeededHolds
<1>6. CASE k \in DepSet(k)
  BY <1>5, <1>6 DEF OnCycle
<1>7. ASSUME NEW d \in DepSet(k), k \in Needed[d] PROVE OnCycle(d)
  BY <1>7, Dependencies, NeededHolds DEF OnCycle
<1> QED BY <1>4, <1>5, <1>6, <1>7

-----------------------------------------------------------------------------
(* The rounds *)

Count == Cardinality(Keys)

LEMMA CountIsNat == Count \in Nat /\ IsFiniteSet(Keys)
BY AsyncAssumption, FS_CardinalityType DEF AsyncAssumption, Count

\* The keys that depend on some of S.
Above(S) == UNION {{k \in Keys : j \in DepSet(k)} : j \in S}

\* The rounds can be computed.
LEMMA RoundsExist ==
  ASSUME NEW n \in Nat
  PROVE  \E f \in [0..n -> SUBSET Keys] :
           f[0] = Keys /\ \A i \in 1..n : f[i] = Above(f[i - 1])
<1> DEFINE OK(m) == \E f \in [0..m -> SUBSET Keys] :
                      f[0] = Keys /\ \A i \in 1..m : f[i] = Above(f[i - 1])
<1> DEFINE Bad == {m \in Nat : ~OK(m)}
<1>1. CASE Bad = {}
  BY <1>1
<1>2. CASE Bad # {}
  <2>1. PICK m \in Bad : \A i \in Bad : m <= i
    <3> HIDE DEF Bad
    <3>1. Bad \in SUBSET Nat
      BY DEF Bad
    <3> QED BY <1>2, <3>1, LeastNumber
  <2>2. m # 0
    <3>1. OK(0)
      <4> DEFINE f0 == [i \in 0..0 |-> Keys]
      <4>1. f0 \in [0..0 -> SUBSET Keys] /\ f0[0] = Keys
        OBVIOUS
      <4>2. \A i \in 1..0 : f0[i] = Above(f0[i - 1])
        OBVIOUS
      <4> HIDE DEF f0
      <4> QED BY <4>1, <4>2
    <3> QED BY <3>1
  <2>3. m - 1 \in Nat /\ m - 1 \notin Bad
    BY <2>1, <2>2
  <2>4. PICK f \in [0..(m - 1) -> SUBSET Keys] :
          f[0] = Keys /\ \A i \in 1..(m - 1) : f[i] = Above(f[i - 1])
    BY <2>3
  <2> DEFINE g == [i \in 0..m |-> IF i = m THEN Above(f[m - 1]) ELSE f[i]]
  <2>5. g \in [0..m -> SUBSET Keys]
    BY <2>3 DEF Above
  <2>6. g[0] = Keys
    BY <2>2, <2>3, <2>4
  <2>7. ASSUME NEW i \in 1..m PROVE g[i] = Above(g[i - 1])
    <3>1. i - 1 \in 0..m /\ i - 1 # m /\ i \in 0..m
      BY <2>3
    <3>2. g[i - 1] = f[i - 1]
      BY <3>1
    <3>3. CASE i = m
      BY <3>1, <3>2, <3>3
    <3>4. CASE i # m
      <4>1. i \in 1..(m - 1)
        BY <2>3, <3>4
      <4> QED BY <3>1, <3>2, <3>4, <4>1, <2>4
    <3> QED BY <3>3, <3>4
  <2>8. OK(m)
    <3> HIDE DEF g
    <3> QED BY <2>5, <2>6, <2>7
  <2> QED BY <2>8
<1> QED BY <1>1, <1>2

LEMMA WaitingIs ==
  /\ DOMAIN Waiting = 0..Count
  /\ \A n \in 0..Count :
       Waiting[n] = IF n = 0 THEN Keys ELSE Above(Waiting[n - 1])
<1>1. PICK f \in [0..Count -> SUBSET Keys] :
        f[0] = Keys /\ \A i \in 1..Count : f[i] = Above(f[i - 1])
  BY CountIsNat, RoundsExist
<1>2. f = [n \in 0..Count |-> IF n = 0 THEN Keys ELSE Above(f[n - 1])]
  <2>1. \A n \in 0..Count : n # 0 => n \in 1..Count
    BY CountIsNat
  <2> QED BY <1>1, <2>1
<1>3. Waiting = [n \in 0..Count |-> IF n = 0 THEN Keys ELSE Above(Waiting[n - 1])]
  BY <1>2 DEF Waiting, Count, Above
<1> QED BY <1>3

LEMMA WaitingNext ==
  /\ Waiting[0] = Keys
  /\ \A n \in 1..Count :
       /\ Waiting[n] \subseteq Keys
       /\ \A k \in Keys : k \in Waiting[n] <=> DepSet(k) \cap Waiting[n - 1] # {}
<1>1. Waiting[0] = Keys
  BY CountIsNat, WaitingIs
<1>2. ASSUME NEW n \in 1..Count
      PROVE  /\ Waiting[n] \subseteq Keys
             /\ \A k \in Keys : k \in Waiting[n] <=> DepSet(k) \cap Waiting[n - 1] # {}
  <2>1. n \in 0..Count /\ n # 0
    BY CountIsNat
  <2>2. Waiting[n] = Above(Waiting[n - 1])
    BY <2>1, WaitingIs
  <2> QED BY <2>2 DEF Above
<1> QED BY <1>1, <1>2

\* Who waits after a round waited before it.
LEMMA WaitingFalls ==
  ASSUME NEW n \in 1..Count
  PROVE  Waiting[n] \subseteq Waiting[n - 1]
<1> DEFINE Bad == {m \in 1..Count : ~(Waiting[m] \subseteq Waiting[m - 1])}
<1>1. CASE Bad = {}
  BY <1>1
<1>2. CASE Bad # {}
  <2>1. PICK m \in Bad : \A i \in Bad : m <= i
    <3> HIDE DEF Bad
    <3>1. Bad \in SUBSET Nat
      BY CountIsNat DEF Bad
    <3> QED BY <1>2, <3>1, LeastNumber
  <2>2. m # 1
    BY WaitingNext, <2>1
  <2>3. m - 1 \in 1..Count /\ m - 1 \notin Bad
    BY <2>1, <2>2, CountIsNat
  <2>4. Waiting[m - 1] \subseteq Waiting[(m - 1) - 1]
    BY <2>3
  <2>5. Waiting[m] \subseteq Waiting[m - 1]
    <3>1. ASSUME NEW k \in Waiting[m] PROVE k \in Waiting[m - 1]
      <4>1. k \in Keys /\ DepSet(k) \cap Waiting[m - 1] # {}
        BY WaitingNext, <2>1
      <4>2. DepSet(k) \cap Waiting[(m - 1) - 1] # {}
        BY <4>1, <2>4
      <4> QED BY <4>1, <4>2, <2>3, WaitingNext
    <3> QED BY <3>1
  <2> QED BY <2>1, <2>5
<1> QED BY <1>1, <1>2

\* What holds of sets that shrink round by round.
LEMMA WaitingBetween ==
  ASSUME NEW m \in 0..Count, NEW n \in m..Count
  PROVE  Waiting[n] \subseteq Waiting[m]
<1> DEFINE Bad == {i \in m..Count : ~(Waiting[i] \subseteq Waiting[m])}
<1>1. CASE Bad = {}
  BY <1>1
<1>2. CASE Bad # {}
  <2>1. PICK b \in Bad : \A i \in Bad : b <= i
    <3> HIDE DEF Bad
    <3>1. Bad \in SUBSET Nat
      BY CountIsNat DEF Bad
    <3> QED BY <1>2, <3>1, LeastNumber
  <2>2. b # m
    BY <2>1
  <2>3. b - 1 \in m..Count /\ b - 1 \notin Bad /\ b \in 1..Count
    BY <2>1, <2>2, CountIsNat
  <2>4. Waiting[b] \subseteq Waiting[b - 1]
    BY <2>3, WaitingFalls
  <2> QED BY <2>1, <2>3, <2>4
<1> QED BY <1>1, <1>2

\* A key on a cycle is never released.
LEMMA CycleWaits ==
  ASSUME NEW k \in Keys, OnCycle(k), NEW n \in 0..Count
  PROVE  k \in Waiting[n]
<1> DEFINE Bad == {m \in 0..Count : \E j \in Keys : OnCycle(j) /\ j \notin Waiting[m]}
<1>1. CASE Bad = {}
  BY <1>1
<1>2. CASE Bad # {}
  <2>1. PICK m \in Bad : \A i \in Bad : m <= i
    <3> HIDE DEF Bad
    <3>1. Bad \in SUBSET Nat
      BY CountIsNat DEF Bad
    <3> QED BY <1>2, <3>1, LeastNumber
  <2>2. PICK j \in Keys : OnCycle(j) /\ j \notin Waiting[m]
    BY <2>1
  <2>3. m # 0
    BY <2>2, WaitingNext
  <2>4. m \in 1..Count /\ m - 1 \in 0..Count /\ m - 1 \notin Bad
    BY <2>1, <2>3, CountIsNat
  <2>5. PICK d \in DepSet(j) : OnCycle(d)
    BY <2>2, CycleGoesOn
  <2>6. d \in Waiting[m - 1]
    BY <2>4, <2>5, Dependencies
  <2> QED BY <2>2, <2>4, <2>6, WaitingNext
<1> QED BY <1>1, <1>2

-----------------------------------------------------------------------------
(* Keys that stay uncollected are on cycles, or need such keys *)

\* A set of keys each of which depends on another of the set.
LEMMA CycleInside ==
  ASSUME NEW S \in SUBSET Keys, S # {}, \A k \in S : DepSet(k) \cap S # {}
  PROVE  \E k \in S : OnCycle(k)
<1> DEFINE Sizes == {n \in Nat : \E k \in S : n = Cardinality(Needed[k])}
<1>1. \A k \in Keys : IsFiniteSet(Needed[k]) /\ Cardinality(Needed[k]) \in Nat
  BY CountIsNat, NeededHolds, FS_Subset, FS_CardinalityType
<1>2. PICK m \in Sizes : \A n \in Sizes : m <= n
  <2>1. Sizes \in SUBSET Nat /\ Sizes # {}
    BY <1>1
  <2> HIDE DEF Sizes
  <2> QED BY <2>1, LeastNumber
<1>3. PICK k \in S : m = Cardinality(Needed[k])
  BY <1>2
<1>4. PICK d \in DepSet(k) : d \in S
  BY <1>3
<1>5. d \in Keys /\ d \in Needed[k] /\ Needed[d] \subseteq Needed[k]
  BY <1>3, <1>4, NeededHolds, NeededOfNeeded
<1>6. Cardinality(Needed[d]) \in Sizes
  BY <1>1, <1>4
<1>7. Cardinality(Needed[d]) <= m /\ m <= Cardinality(Needed[d])
  <2>1. Cardinality(Needed[d]) <= Cardinality(Needed[k])
    BY <1>1, <1>3, <1>5, FS_Subset
  <2>2. m <= Cardinality(Needed[d])
    BY <1>2, <1>6
  <2> QED BY <2>1, <2>2, <1>3
<1>8. Cardinality(Needed[d]) = Cardinality(Needed[k])
  BY <1>1, <1>3, <1>5, <1>7
<1>9. Needed[d] = Needed[k]
  BY <1>1, <1>3, <1>5, <1>8, FS_Subset
<1> QED BY <1>4, <1>5, <1>9 DEF OnCycle

\* As many rounds as there are keys are enough.
LEMMA RoundsEnough ==
  Uncollected # {} => \E m \in 1..Count : Waiting[m] = Waiting[m - 1]
<1> SUFFICES ASSUME \A m \in 1..Count : Waiting[m] # Waiting[m - 1]
             PROVE  Uncollected = {}
  OBVIOUS
<1> DEFINE Bad == {n \in 0..Count : Cardinality(Waiting[n]) > Count - n}
<1>1. \A n \in 0..Count : /\ IsFiniteSet(Waiting[n])
                          /\ Cardinality(Waiting[n]) \in Nat
  <2>1. ASSUME NEW n \in 0..Count PROVE Waiting[n] \in SUBSET Keys
    <3>1. n = 0 \/ n \in 1..Count
      BY CountIsNat
    <3> QED BY <3>1, WaitingNext
  <2> QED BY <2>1, CountIsNat, FS_Subset, FS_CardinalityType
<1>2. Bad = {}
  <2> SUFFICES ASSUME Bad # {} PROVE FALSE
    OBVIOUS
  <2>1. PICK m \in Bad : \A i \in Bad : m <= i
    <3>1. Bad \in SUBSET Nat
      BY CountIsNat
    <3> HIDE DEF Bad
    <3> QED BY <3>1, LeastNumber
  <2>2. m # 0
    BY <2>1, WaitingNext, CountIsNat DEF Count
  <2>3. m \in 1..Count /\ m - 1 \in 0..Count /\ m - 1 \notin Bad
    BY <2>1, <2>2, CountIsNat
  <2>4. Cardinality(Waiting[m - 1]) <= Count - (m - 1)
    BY <2>3, <1>1, CountIsNat
  <2>5. Waiting[m] \subseteq Waiting[m - 1] /\ Waiting[m] # Waiting[m - 1]
    BY <2>3, WaitingFalls
  <2>6. Cardinality(Waiting[m]) < Cardinality(Waiting[m - 1])
    <3>1. /\ Cardinality(Waiting[m]) <= Cardinality(Waiting[m - 1])
          /\ Cardinality(Waiting[m - 1]) = Cardinality(Waiting[m]) => Waiting[m - 1] = Waiting[m]
      BY <2>3, <2>5, <1>1, FS_Subset
    <3>2. Cardinality(Waiting[m]) \in Nat /\ Cardinality(Waiting[m - 1]) \in Nat
      BY <2>3, <1>1
    <3> QED BY <3>1, <3>2, <2>5
  <2>7. Cardinality(Waiting[m]) > Count - m
    BY <2>1
  <2>8. Cardinality(Waiting[m]) \in Nat /\ Cardinality(Waiting[m - 1]) \in Nat
    BY <2>3, <1>1
  <2> HIDE DEF Bad
  <2> QED BY <2>3, <2>4, <2>6, <2>7, <2>8, CountIsNat
<1>3. Count \in 0..Count
  BY CountIsNat
<1>4. Cardinality(Waiting[Count]) = 0
  BY <1>1, <1>2, <1>3, CountIsNat
<1> QED BY <1>1, <1>3, <1>4, FS_EmptySet DEF Uncollected, Count

LEMMA UncollectedForCause ==
  ASSUME NEW k \in Keys, DepSet(k) \cap Uncollected # {}
  PROVE  \E j \in Needed[k] : OnCycle(j)
<1>1. PICK m \in 1..Count : Waiting[m] = Waiting[m - 1]
  BY RoundsEnough
<1>2. PICK d \in DepSet(k) : d \in Uncollected
  OBVIOUS
<1>3. d \in Keys /\ d \in Needed[k]
  BY <1>2, Dependencies, NeededHolds
<1>4. d \in Waiting[m]
  <2>1. m \in 0..Count /\ Count \in m..Count
    BY CountIsNat
  <2> QED BY <1>2, <2>1, WaitingBetween DEF Uncollected, Count
<1> DEFINE S == Waiting[m] \cap Needed[k]
<1>5. S \in SUBSET Keys /\ S # {}
  BY <1>3, <1>4, NeededHolds
<1>6. ASSUME NEW j \in S PROVE DepSet(j) \cap S # {}
  <2>1. j \in Keys /\ j \in Waiting[m] /\ DepSet(j) \subseteq Needed[k]
    BY <1>5, NeededHolds
  <2>2. DepSet(j) \cap Waiting[m] # {}
    BY <1>1, <2>1, WaitingNext
  <2> QED BY <2>1, <2>2
<1>7. \E j \in S : OnCycle(j)
  <2> HIDE DEF S
  <2> QED BY <1>5, <1>6, CycleInside
<1> QED BY <1>7

\* Without a level to come, everything has been released.
LEMMA AllReleased ==
  ASSUME NEW k \in Keys, NEW n \in 1..Count + 1, Level(k, n) = {},
         DepSet(k) \cap Uncollected = {}
  PROVE  Needed[k] \cap Waiting[n - 1] = {}
<1>1. Needed[k] \cap Uncollected = {}
  <2> DEFINE S == Needed[k] \ Uncollected
  <2>1. S \in SUBSET Keys /\ DepSet(k) \subseteq S
    BY NeededHolds
  <2>2. ASSUME NEW j \in S PROVE DepSet(j) \subseteq S
    <3>1. j \in Keys /\ DepSet(j) \subseteq Needed[k] /\ j \notin Waiting[Count]
      BY NeededHolds DEF Uncollected, Count
    <3>2. Count \in 1..Count
      <4>1. Count # 0
        BY <3>1, FS_EmptySet, CountIsNat DEF Count
      <4> QED BY <4>1, CountIsNat
    <3>3. DepSet(j) \cap Waiting[Count - 1] = {}
      BY <3>1, <3>2, WaitingNext
    <3>4. DepSet(j) \cap Waiting[Count] = {}
      BY <3>2, <3>3, WaitingFalls
    <3> QED BY <3>1, <3>4 DEF Uncollected, Count
  <2>3. Closed(S)
    BY <2>2 DEF Closed
  <2>4. Needed[k] \subseteq S
    <3> HIDE DEF S
    <3> QED BY <2>1, <2>3, NeededLeast
  <2> QED BY <2>4
<1>2. CASE n = Count + 1
  BY <1>1, <1>2, CountIsNat DEF Uncollected, Count
<1>3. CASE n # Count + 1
  <2>1. n \in 1..Count
    BY <1>3, CountIsNat
  <2>2. Needed[k] \cap Waiting[n - 1] \subseteq Waiting[n]
    BY <2>1, CountIsNat DEF Level, Count
  <2> DEFINE Bad == {m \in n..Count : ~(Needed[k] \cap Waiting[n - 1] \subseteq Waiting[m])}
  <2>3. CASE Bad = {}
    <3>1. Count \in n..Count
      BY <2>1, CountIsNat
    <3>2. Needed[k] \cap Waiting[n - 1] \subseteq Waiting[Count]
      BY <3>1, <2>3
    <3> QED BY <3>2, <1>1 DEF Uncollected, Count
  <2>4. CASE Bad # {}
    <3>1. PICK m \in Bad : \A i \in Bad : m <= i
      <4>1. Bad \in SUBSET Nat
        BY <2>1
      <4> HIDE DEF Bad
      <4> QED BY <2>4, <4>1, LeastNumber
    <3>2. m # n
      BY <2>2, <3>1
    <3>3. m \in 1..Count /\ m - 1 \in n..Count /\ m - 1 \notin Bad
      BY <2>1, <3>1, <3>2, CountIsNat
    <3>4. Needed[k] \cap Waiting[n - 1] \subseteq Waiting[m - 1]
      BY <3>3
    <3>5. ASSUME NEW j \in Needed[k], j \in Waiting[n - 1] PROVE j \in Waiting[m]
      <4>1. j \in Keys /\ DepSet(j) \subseteq Needed[k] /\ j \in Waiting[n]
        BY <2>2, <3>5, NeededHolds
      <4>2. DepSet(j) \cap Waiting[n - 1] # {}
        BY <2>1, <4>1, WaitingNext
      <4>3. DepSet(j) \cap Waiting[m - 1] # {}
        BY <3>4, <4>1, <4>2
      <4> QED BY <3>3, <4>1, <4>3, WaitingNext
    <3> QED BY <3>1, <3>5
  <2> QED BY <2>3, <2>4
<1> QED BY <1>2, <1>3

\* What a key of a level needs has been released before that level.
LEMMA NeededBefore ==
  ASSUME NEW k \in Keys, NEW n \in Nat \ {0}, NEW j \in Level(k, n)
  PROVE  /\ n <= Count
         /\ j \in Needed[k] /\ ~OnCycle(j)
         /\ \A d \in Needed[j] : d \in Needed[k] /\ d \notin Waiting[n - 1]
<1>1. n \in 1..Count /\ j \in Needed[k] /\ j \in Waiting[n - 1] /\ j \notin Waiting[n]
  BY CountIsNat DEF Level, Count
<1>2. j \in Keys
  BY <1>1, NeededHolds
<1>3. ~OnCycle(j)
  <2>1. n \in 0..Count
    BY <1>1
  <2> QED BY <1>1, <1>2, <2>1, CycleWaits
<1> DEFINE S == Needed[k] \ Waiting[n - 1]
<1>4. S \in SUBSET Keys
  BY NeededHolds
<1>5. DepSet(j) \subseteq S
  <2>1. DepSet(j) \cap Waiting[n - 1] = {}
    BY <1>1, <1>2, WaitingNext
  <2> QED BY <1>1, <2>1, NeededHolds
<1>6. ASSUME NEW d \in S PROVE DepSet(d) \subseteq S
  <2>1. d \in Keys /\ DepSet(d) \subseteq Needed[k]
    BY NeededHolds
  <2>2. n - 1 # 0
    BY <2>1, WaitingNext
  <2>3. n - 1 \in 1..Count
    BY <1>1, <2>2, CountIsNat
  <2>4. DepSet(d) \cap Waiting[(n - 1) - 1] = {}
    BY <2>1, <2>3, WaitingNext
  <2>5. DepSet(d) \cap Waiting[n - 1] = {}
    BY <2>3, <2>4, WaitingFalls
  <2> QED BY <2>1, <2>5
<1>7. Closed(S)
  BY <1>6 DEF Closed
<1>8. Needed[j] \subseteq S
  <2> HIDE DEF S
  <2> QED BY <1>2, <1>4, <1>5, <1>7, NeededLeast
<1> QED BY <1>1, <1>3, <1>8

-----------------------------------------------------------------------------
(* Positions of calls *)

Names == Requests \cup Keys
Position(id) ==
  /\ id \in Seq(Names) /\ Len(id) > 1
  /\ id[1] \in Requests /\ \A i \in 2..Len(id) : id[i] \in Keys

LEMMA PositionIs ==
  ASSUME NEW id, Position(id)
  PROVE  /\ Len(id) \in Nat /\ Len(id) >= 2
         /\ Req(id) = id[1] /\ Req(id) \in Requests
         /\ Key(id) = id[Len(id)] /\ Key(id) \in Keys /\ id[2] \in Keys
         /\ Context[Req(id)] \in Contexts
<1>1. Len(id) \in Nat /\ Len(id) >= 2
  BY LenProperties DEF Position
<1>2. Req(id) = id[1]
  BY DEF Position, Req
<1>3. Key(id) = id[Len(id)]
  BY DEF Key, Last
<1> QED BY <1>1, <1>2, <1>3, AsyncAssumption DEF Position, AsyncAssumption

LEMMA FrontIs ==
  ASSUME NEW id, Position(id)
  PROVE  /\ Len(Front(id)) = Len(id) - 1
         /\ \A i \in 1..Len(id) - 1 : Front(id)[i] = id[i]
         /\ Front(id) = SubSeq(id, 1, Len(id) - 1)
         /\ Front(id) \in Seq(Names)
<1>1. Len(id) \in Nat /\ Len(id) > 1
  BY PositionIs
<1>2. \A i \in 1..Len(id) - 1 : id[i] \in Names
  BY <1>1, ElementOfSeq DEF Position
<1>3. Front(id) = SubSeq(id, 1, Len(id) - 1)
  BY DEF Front
<1>4. /\ SubSeq(id, 1, Len(id) - 1) \in Seq(Names)
      /\ Len(SubSeq(id, 1, Len(id) - 1)) = Len(id) - 1
      /\ \A i \in 1..Len(id) - 1 : SubSeq(id, 1, Len(id) - 1)[i] = id[i]
  <2>1. 1 \in Int /\ Len(id) - 1 \in Int
    BY <1>1
  <2>2. /\ SubSeq(id, 1, Len(id) - 1) \in Seq(Names)
        /\ Len(SubSeq(id, 1, Len(id) - 1)) = IF 1 <= Len(id) - 1 THEN (Len(id) - 1) - 1 + 1 ELSE 0
        /\ \A i \in 1..(Len(id) - 1) - 1 + 1 : SubSeq(id, 1, Len(id) - 1)[i] = id[1 + i - 1]
    BY <1>2, <2>1, SubSeqProperties
  <2>3. (Len(id) - 1) - 1 + 1 = Len(id) - 1
    BY <1>1
  <2>4. ASSUME NEW i \in 1..Len(id) - 1 PROVE SubSeq(id, 1, Len(id) - 1)[i] = id[i]
    <3>1. 1 + i - 1 = i
      BY <1>1
    <3> QED BY <2>2, <2>3, <3>1
  <2> QED BY <1>1, <2>2, <2>3, <2>4
<1> QED BY <1>3, <1>4

\* A call that id starts for j.
LEMMA ChildIs ==
  ASSUME NEW id, Position(id), NEW j \in Keys
  PROVE  LET c == Append(id, j)
         IN /\ Position(c) /\ Len(c) = Len(id) + 1 /\ c # id
            /\ Req(c) = Req(id) /\ Key(c) = j /\ Front(c) = id
            /\ c[2] = id[2]
            /\ \A n \in 2..Len(id) - 1 : SubSeq(c, 1, n) = SubSeq(id, 1, n)
            /\ SubSeq(c, 1, Len(id)) = id
<1> DEFINE c == Append(id, j)
<1>1. Len(id) \in Nat /\ Len(id) >= 2 /\ j \in Names
  BY PositionIs DEF Names
<1>2. /\ c \in Seq(Names) /\ Len(c) = Len(id) + 1
      /\ \A i \in 1..Len(id) : c[i] = id[i]
      /\ c[Len(id) + 1] = j
  BY <1>1, AppendProperties DEF Position
<1> HIDE DEF c
<1>3. Position(c)
  <2>1. ASSUME NEW i \in 2..Len(c) PROVE c[i] \in Keys
    <3>1. CASE i = Len(id) + 1
      BY <1>2, <3>1
    <3>2. CASE i # Len(id) + 1
      <4>1. i \in 1..Len(id) /\ i \in 2..Len(id)
        BY <1>1, <1>2, <3>2
      <4> QED BY <1>2, <4>1 DEF Position
    <3> QED BY <3>1, <3>2
  <2>2. 1 \in 1..Len(id)
    BY <1>1
  <2> QED BY <1>1, <1>2, <2>1, <2>2 DEF Position
<1>4. \A n \in 2..Len(id) : /\ SubSeq(c, 1, n) \in Seq(Names)
                            /\ SubSeq(id, 1, n) \in Seq(Names)
                            /\ Len(SubSeq(c, 1, n)) = n /\ Len(SubSeq(id, 1, n)) = n
                            /\ \A i \in 1..n : SubSeq(c, 1, n)[i] = id[i] /\ SubSeq(id, 1, n)[i] = id[i]
  <2> SUFFICES ASSUME NEW n \in 2..Len(id)
               PROVE  /\ SubSeq(c, 1, n) \in Seq(Names)
                      /\ SubSeq(id, 1, n) \in Seq(Names)
                      /\ Len(SubSeq(c, 1, n)) = n /\ Len(SubSeq(id, 1, n)) = n
                      /\ \A i \in 1..n : SubSeq(c, 1, n)[i] = id[i] /\ SubSeq(id, 1, n)[i] = id[i]
    OBVIOUS
  <2>1. n \in Int /\ 1 <= n /\ n - 1 + 1 = n
    BY <1>1
  <2>2. \A i \in 1..n : i \in 1..Len(id) /\ 1 + i - 1 = i
    BY <1>1
  <2>3. \A i \in 1..n : id[i] \in Names /\ c[i] \in Names /\ c[i] = id[i]
    BY <1>2, <2>2, ElementOfSeq DEF Position
  <2>4. /\ SubSeq(c, 1, n) \in Seq(Names)
        /\ Len(SubSeq(c, 1, n)) = IF 1 <= n THEN n - 1 + 1 ELSE 0
        /\ \A i \in 1..n - 1 + 1 : SubSeq(c, 1, n)[i] = c[1 + i - 1]
    BY <2>1, <2>3, SubSeqProperties
  <2>5. /\ SubSeq(id, 1, n) \in Seq(Names)
        /\ Len(SubSeq(id, 1, n)) = IF 1 <= n THEN n - 1 + 1 ELSE 0
        /\ \A i \in 1..n - 1 + 1 : SubSeq(id, 1, n)[i] = id[1 + i - 1]
    BY <2>1, <2>3, SubSeqProperties
  <2>6. \A i \in 1..n : SubSeq(c, 1, n)[i] = id[i] /\ SubSeq(id, 1, n)[i] = id[i]
    BY <2>1, <2>2, <2>3, <2>4, <2>5
  <2> QED BY <2>1, <2>4, <2>5, <2>6
<1>5. \A n \in 2..Len(id) : SubSeq(c, 1, n) = SubSeq(id, 1, n)
  BY <1>4, SeqEqual
<1>6. SubSeq(id, 1, Len(id)) = id
  BY SubSeqFull DEF Position
<1>7. Len(id) \in 2..Len(id) /\ \A n \in 2..Len(id) - 1 : n \in 2..Len(id)
  BY <1>1
<1>8. Front(c) = SubSeq(c, 1, Len(id))
  <2>1. Len(c) - 1 = Len(id)
    BY <1>1, <1>2
  <2> QED BY <2>1 DEF Front
<1>9. Req(c) = Req(id) /\ Key(c) = j /\ c[2] = id[2]
  <2>1. 1 \in 1..Len(id) /\ 2 \in 1..Len(id)
    BY <1>1
  <2> QED BY <1>2, <1>3, <2>1, PositionIs
<1>10. c # id
  BY <1>1, <1>2
<1> QED BY <1>2, <1>3, <1>5, <1>6, <1>7, <1>8, <1>9, <1>10 DEF c

-----------------------------------------------------------------------------
(* What can be said of each call *)

\* The key can be resolved: it and all it needs have rules, without a cycle.
Good(k) == {k} \cup Needed[k] \subseteq {j \in Registered : ~OnCycle(j)}
\* It has been resolved.
Settled(k) == Good(k) /\ (k \in Singletons => single[k] # NoObj)

Placed(id) ==
  /\ Position(id) /\ id[2] = asked[Req(id)]
  /\ calls[id] \in CallRecord
  /\ Key(id) \in Graph(Req(id))
  /\ ~IsRoot(id) =>
       /\ Key(id) \in Needed[id[2]] /\ ~OnCycle(Key(id))
       /\ \A d \in Needed[Key(id)] : Settled(d)
  /\ Len(id) > 3 /\ Key(id) \in Singletons => single[Key(id)] # NoObj
Awaiting(id) ==
  LET call == calls[id]
      k == Key(id)
  IN /\ call.pc \in {"gather", "factory", "open"} => k \in Registered
     /\ call.pc = "gather" =>
          /\ call.at \in 1..Count
          /\ \A d \in Needed[k] : d \notin Waiting[call.at - 1] => Settled(d)
          /\ \A j \in Level(k, call.at) : Append(id, j) \in DOMAIN calls
     /\ call.pc \in {"factory", "open"} => \A d \in Needed[k] : Settled(d)
Ending(id) ==
  LET call == calls[id]
  IN /\ call.pc = "ended" => /\ call.out = "ok" => Settled(Key(id))
                             /\ call.out \in ends[Req(id)] /\ ~call.cancel
     /\ call.pc = "finalize" => ~call.cancel /\ Req(id) \in cancelled
     /\ call.cancel => Req(id) \in cancelled

CallsInv ==
  /\ TypeOK /\ IsFiniteSet(DOMAIN calls)
  /\ \A id \in DOMAIN calls : Placed(id) /\ Awaiting(id) /\ Ending(id)
  /\ \A k \in Keys : single[k] # NoObj => Good(k)
  /\ OutcomeExact
  /\ \A q \in Requests : outcome[q] = "ok" => Good(asked[q])

-----------------------------------------------------------------------------
(* The steps, by what they do to the call that takes them *)

Builds(id) ==
  LET k == Key(id)
      pc == calls[id].pc
  IN /\ ~calls[id].cancel
     /\ \/ pc = "ready" /\ single[k] = NoObj /\ k \in Registered /\ Deps[k] = <<>>
        \/ pc \in {"factory", "open"}
        \/ /\ pc = "gather" /\ Gathered(id) /\ FailedChildren(id) = {}
           /\ Level(k, calls[id].at + 1) = {} /\ DepSet(k) \cap Uncollected = {}
     /\ Produce(k) /\ Store(k, NextObj(k))
Hits(id) ==
  /\ ~calls[id].cancel /\ calls[id].pc = "ready" /\ single[Key(id)] # NoObj
  /\ handed' = [handed EXCEPT ![Key(id)] = @ \cup {single[Key(id)]}]
  /\ UNCHANGED <<single, made>>
FailsWith(id, r) ==
  /\ \/ r = "cancelled" /\ calls[id].pc = "ready" /\ calls[id].cancel
     \/ /\ r = "cancelled" /\ calls[id].pc = "finalize" /\ ~calls[id].cancel
        /\ calls[id].at = Len(stacks[Req(id)])
     \/ r = "missing" /\ Key(id) \notin Registered
     \/ r = "uncollected" /\ DepSet(Key(id)) \cap Uncollected # {}
     \/ r \in {"cycle", "failed"}
     \/ r \in Errors /\ \E c \in FailedChildren(id) : r = calls[c].out
  /\ UNCHANGED <<single, handed, made>>

\* The call ends.
Ends(id, r) ==
  /\ calls[id].pc # "ended"
  /\ Leave(id, calls[id].pc # "ready", r)
  /\ \/ r = "ok" /\ Builds(id)
     \/ r = "ok" /\ Hits(id)
     \/ FailsWith(id, r)
  /\ \/ stacks' = stacks
     \/ /\ calls[id].pc = "open" /\ r = "ok"
        /\ stacks' = [stacks EXCEPT ![Req(id)][calls[id].at] = NextObj(Key(id))]
  /\ closed' = closed

\* It goes on to its next level, or to its factory.
NextLevel(id) ==
  LET n == calls[id].at + 1
  IN /\ At(id, "gather") /\ Gathered(id) /\ FailedChildren(id) = {}
     /\ Level(Key(id), n) # {}
     /\ calls' = Spawn(id, n, Without(id))
     /\ UNCHANGED <<asked, single, path, stacks, closed, outcome, made, handed, ends, cancelled,
                    alone>>
ToFactory(id) ==
  /\ At(id, "gather") /\ Gathered(id) /\ FailedChildren(id) = {}
  /\ Level(Key(id), calls[id].at + 1) = {} /\ DepSet(Key(id)) \cap Uncollected = {}
  /\ calls' = [Without(id) EXCEPT ![id].pc = "factory"]
  /\ UNCHANGED <<asked, single, path, stacks, closed, outcome, made, handed, ends, cancelled,
                 alone>>
\* It begins to finalize.
Unwinds(id) ==
  /\ Finalize(id)
  /\ \/ /\ At(id, "gather") /\ \E c \in FailedChildren(id) : calls[c].out = "cancelled"
     \/ calls[id].cancel /\ calls[id].pc # "ready"

Turns(id) ==
  \/ \E r \in Results : Ends(id, r)
  \/ Enter(id) \/ NextLevel(id) \/ ToFactory(id) \/ Unwinds(id) \/ Close(id)

LEMMA StepForms ==
  ASSUME NEW q \in Requests, Advance(q),
         \A id \in DOMAIN calls : calls[id] \in CallRecord /\ (calls[id].cancel => calls[id].pc # "ended")
  PROVE  \E id \in Tree(q) : Turns(id)
<1> USE DEF Results, Errors, At
<1>1. ASSUME NEW id \in Tree(q), Hit(id) PROVE Turns(id)
  <2>1. Ends(id, "ok")
    BY <1>1 DEF Hit, Ends, Hits
  <2> QED BY <2>1 DEF Turns
<1>2. ASSUME NEW id \in Tree(q), Refuse(id) PROVE Turns(id)
  <2>1. CASE Failed(id, FALSE, "cycle")
    <3>1. Ends(id, "cycle")
      BY <1>2, <2>1 DEF Refuse, Missed, Failed, Ends, FailsWith
    <3> QED BY <3>1 DEF Turns
  <2>2. CASE Key(id) \notin Registered /\ Failed(id, FALSE, "missing")
    <3>1. Ends(id, "missing")
      BY <1>2, <2>2 DEF Refuse, Missed, Failed, Ends, FailsWith
    <3> QED BY <3>1 DEF Turns
  <2>3. CASE OnPath(id)
    BY <1>2, <2>1, <2>2, <2>3 DEF Refuse
  <2>4. CASE ~OnPath(id)
    BY <1>2, <2>1, <2>2, <2>4 DEF Refuse
  <2> QED BY <2>3, <2>4
<1>3. ASSUME NEW id \in Tree(q), BuildLeaf(id) PROVE Turns(id)
  <2>1. CASE Built(id, FALSE)
    <3>1. Ends(id, "ok")
      BY <1>3, <2>1 DEF BuildLeaf, Admitted, Missed, Built, Ends, Builds
    <3> QED BY <3>1 DEF Turns
  <2>2. CASE Failed(id, FALSE, "failed")
    <3>1. Ends(id, "failed")
      BY <1>3, <2>2 DEF BuildLeaf, Admitted, Missed, Failed, Ends, FailsWith
    <3> QED BY <3>1 DEF Turns
  <2> QED BY <1>3, <2>1, <2>2 DEF BuildLeaf
<1>4. ASSUME NEW id \in Tree(q), Enter(id) PROVE Turns(id)
  BY <1>4 DEF Turns
<1>5. ASSUME NEW id \in Tree(q), Collect(id) PROVE Turns(id)
  <2> DEFINE k == Key(id)
             n == calls[id].at + 1
  <2>1. CASE Level(k, n) # {}
    <3>1. NextLevel(id)
      BY <1>5, <2>1 DEF Collect, NextLevel
    <3> QED BY <3>1 DEF Turns
  <2>2. CASE Level(k, n) = {} /\ DepSet(k) \cap Uncollected # {}
    <3>1. Ends(id, "uncollected")
      BY <1>5, <2>2 DEF Collect, Failed, Ends, FailsWith
    <3> QED BY <3>1 DEF Turns
  <2>3. CASE Level(k, n) = {} /\ DepSet(k) \cap Uncollected = {}
    <3>1. CASE calls' = [Without(id) EXCEPT ![id].pc = "factory"]
               /\ UNCHANGED <<asked, single, path, outcome, made, handed, ends, cancelled, alone>>
      <4>1. ToFactory(id)
        BY <1>5, <2>3, <3>1 DEF Collect, ToFactory
      <4> QED BY <4>1 DEF Turns
    <3>2. CASE Built(id, TRUE)
      <4>1. Ends(id, "ok")
        BY <1>5, <2>3, <3>2 DEF Collect, Built, Ends, Builds
      <4> QED BY <4>1 DEF Turns
    <3>3. CASE Failed(id, TRUE, "failed")
      <4>1. Ends(id, "failed")
        BY <1>5, <2>3, <3>3 DEF Collect, Failed, Ends, FailsWith
      <4> QED BY <4>1 DEF Turns
    <3> QED BY <1>5, <2>3, <3>1, <3>2, <3>3 DEF Collect
  <2> QED BY <2>1, <2>2, <2>3
<1>6. ASSUME NEW id \in Tree(q), Abort(id) PROVE Turns(id)
  <2>1. PICK c \in FailedChildren(id) :
          IF calls[c].out = "cancelled" THEN Finalize(id)
          ELSE Failed(id, TRUE, calls[c].out) /\ UNCHANGED <<stacks, closed>>
    BY <1>6 DEF Abort
  <2>2. CASE calls[c].out = "cancelled"
    <3>1. Unwinds(id)
      BY <1>6, <2>1, <2>2 DEF Abort, Unwinds
    <3> QED BY <3>1 DEF Turns
  <2>3. CASE calls[c].out # "cancelled"
    <3>1. calls[c].out \in Errors
      BY <2>3 DEF FailedChildren, EndedChildren, Children, CallRecord
    <3>2. Ends(id, calls[c].out)
      BY <1>6, <2>1, <2>3, <3>1 DEF Abort, Failed, Ends, FailsWith
    <3> QED BY <3>1, <3>2 DEF Turns
  <2> QED BY <2>2, <2>3
<1>7. ASSUME NEW id \in Tree(q), FactoryEnds(id) PROVE Turns(id)
  <2>1. CASE Built(id, TRUE)
    <3>1. Ends(id, "ok")
      BY <1>7, <2>1 DEF FactoryEnds, Built, Ends, Builds
    <3> QED BY <3>1 DEF Turns
  <2>2. CASE Failed(id, TRUE, "failed")
    <3>1. Ends(id, "failed")
      BY <1>7, <2>2 DEF FactoryEnds, Failed, Ends, FailsWith
    <3> QED BY <3>1 DEF Turns
  <2> QED BY <1>7, <2>1, <2>2 DEF FactoryEnds
<1>8. ASSUME NEW id \in Tree(q), Opens(id) PROVE Turns(id)
  <2>1. CASE Built(id, TRUE) /\ stacks' = [stacks EXCEPT ![Req(id)][calls[id].at] = NextObj(Key(id))]
    <3>1. Ends(id, "ok")
      BY <1>8, <2>1 DEF Opens, Built, Ends, Builds
    <3> QED BY <3>1 DEF Turns
  <2>2. CASE Failed(id, TRUE, "failed") /\ stacks' = stacks
    <3>1. Ends(id, "failed")
      BY <1>8, <2>2 DEF Opens, Failed, Ends, FailsWith
    <3> QED BY <3>1 DEF Turns
  <2> QED BY <1>8, <2>1, <2>2 DEF Opens
<1>9. ASSUME NEW id \in Tree(q), Throw(id) PROVE Turns(id)
  <2>1. CASE calls[id].pc = "ready"
    <3>1. Ends(id, "cancelled")
      BY <1>9, <2>1 DEF Throw, Failed, Ends, FailsWith
    <3> QED BY <3>1 DEF Turns
  <2>2. CASE calls[id].pc # "ready"
    <3>1. Unwinds(id)
      BY <1>9, <2>2 DEF Throw, Unwinds
    <3> QED BY <3>1 DEF Turns
  <2> QED BY <2>1, <2>2
<1>10. ASSUME NEW id \in Tree(q), Close(id) PROVE Turns(id)
  BY <1>10 DEF Turns
<1>11. ASSUME NEW id \in Tree(q), Finalized(id) PROVE Turns(id)
  <2>1. CASE Failed(id, TRUE, "failed")
    <3>1. Ends(id, "failed")
      BY <1>11, <2>1 DEF Finalized, Failed, Ends, FailsWith
    <3> QED BY <3>1 DEF Turns
  <2>2. CASE Failed(id, TRUE, "cancelled")
    <3>1. Ends(id, "cancelled")
      BY <1>11, <2>2 DEF Finalized, Failed, Ends, FailsWith
    <3> QED BY <3>1 DEF Turns
  <2> QED BY <1>11, <2>1, <2>2 DEF Finalized
<1> QED
  BY <1>1, <1>2, <1>3, <1>4, <1>5, <1>6, <1>7, <1>8, <1>9, <1>10, <1>11 DEF Advance

-----------------------------------------------------------------------------
(* What the steps do to the tree of calls *)

\* The calls of gone leave the tree, those of new come; of the rest, only id
\* changes.
Grows(id, gone, new) ==
  /\ DOMAIN calls' = (DOMAIN calls \ gone) \cup new
  /\ \A x \in DOMAIN calls \ gone : x # id => calls'[x] = calls[x]
  /\ \A x \in new : x \notin DOMAIN calls \ gone => calls'[x] = NewCall

LEMMA NotOwnChild ==
  ASSUME NEW id, Position(id)
  PROVE  id \notin EndedChildren(id)
<1>1. Len(Front(id)) = Len(id) - 1 /\ Len(id) \in Nat
  BY FrontIs, PositionIs
<1>2. Front(id) # id
  BY <1>1
<1> QED BY <1>2 DEF EndedChildren, Children

\* The fields after an EXCEPT, once for all.
LEMMA CallWith ==
  ASSUME NEW c \in CallRecord, NEW p, NEW n
  PROVE  [c EXCEPT !.pc = p, !.at = n]
           = [pc |-> p, at |-> n, cancel |-> c.cancel, bad |-> c.bad, out |-> c.out]
<1> DEFINE d == [c EXCEPT !.pc = p]
<1>1. d = [pc |-> p, at |-> c.at, cancel |-> c.cancel, bad |-> c.bad, out |-> c.out]
  BY DEF CallRecord
<1>2. [d EXCEPT !.at = n]
        = [pc |-> p, at |-> n, cancel |-> c.cancel, bad |-> c.bad, out |-> c.out]
  <2> HIDE DEF d
  <2> QED BY <1>1
<1>3. [c EXCEPT !.pc = p, !.at = n] = [d EXCEPT !.at = n]
  OBVIOUS
<1> HIDE DEF d
<1> QED BY <1>2, <1>3

\* The call that begins to finalize.
Unwound(c) == [pc |-> "finalize", at |-> 0, cancel |-> FALSE, bad |-> c.bad, out |-> c.out]
LEMMA UnwoundIs ==
  ASSUME NEW c \in CallRecord
  PROVE  /\ [c EXCEPT !.pc = "finalize", !.at = 0, !.cancel = FALSE] = Unwound(c)
         /\ Unwound(c) \in CallRecord
<1> DEFINE d == [c EXCEPT !.pc = "finalize", !.at = 0]
<1>1. d = [pc |-> "finalize", at |-> 0, cancel |-> c.cancel, bad |-> c.bad, out |-> c.out]
  BY CallWith
<1>2. [c EXCEPT !.pc = "finalize", !.at = 0, !.cancel = FALSE] = [d EXCEPT !.cancel = FALSE]
  OBVIOUS
<1>3. [d EXCEPT !.cancel = FALSE] = Unwound(c)
  <2> DEFINE no == FALSE
  <2> HIDE DEF d, no
  <2>1. [d EXCEPT !.cancel = no]
          = [pc |-> "finalize", at |-> 0, cancel |-> no, bad |-> c.bad, out |-> c.out]
    BY <1>1
  <2> QED BY <2>1 DEF Unwound, no
<1>4. Unwound(c) \in CallRecord
  BY DEF Unwound, CallRecord
<1> HIDE DEF d
<1> QED BY <1>2, <1>3, <1>4

LEMMA NewCallIs ==
  /\ NewCall \in CallRecord /\ NewCall.pc = "ready" /\ ~NewCall.cancel
  /\ NewCall.at = 0 /\ ~NewCall.bad
BY DEF NewCall, CallRecord, Results

Fin(r) == [pc |-> "ended", at |-> 0, cancel |-> FALSE, bad |-> FALSE, out |-> r]
LEMMA FinIs ==
  ASSUME NEW r
  PROVE  [NewCall EXCEPT !.pc = "ended", !.out = r] = Fin(r)
<1> DEFINE c == NewCall
<1>1. c \in CallRecord /\ c.at = 0 /\ c.cancel = FALSE /\ c.bad = FALSE
  BY NewCallIs DEF NewCall
<1> HIDE DEF c
<1> DEFINE d == [c EXCEPT !.pc = "ended"]
<1>2. d = [pc |-> "ended", at |-> c.at, cancel |-> c.cancel, bad |-> c.bad, out |-> c.out]
  <2>1. c \in CallRecord
    BY <1>1
  <2> QED BY <2>1 DEF CallRecord
<1>3. [d EXCEPT !.out = r] = Fin(r)
  <2> HIDE DEF d
  <2>1. [d EXCEPT !.out = r]
          = [pc |-> "ended", at |-> c.at, cancel |-> c.cancel, bad |-> c.bad, out |-> r]
    BY <1>2
  <2> QED BY <1>1, <2>1 DEF Fin
<1>4. [c EXCEPT !.pc = "ended", !.out = r] = [d EXCEPT !.out = r]
  OBVIOUS
<1>5. [c EXCEPT !.pc = "ended", !.out = r] = Fin(r)
  <2> HIDE DEF d
  <2> QED BY <1>3, <1>4
<1> QED BY <1>5 DEF c
LEMMA TreeAfterLeave ==
  ASSUME NEW id \in DOMAIN calls, Position(id), NEW entered, NEW r, Leave(id, entered, r)
  PROVE  /\ Awaited(id) => /\ Grows(id, EndedChildren(id), {})
                           /\ id \in DOMAIN calls' /\ calls'[id] = Fin(r)
         /\ ~Awaited(id) => Grows(id, EndedChildren(id) \cup {id}, {}) /\ id \notin DOMAIN calls'
<1>1. id \notin EndedChildren(id)
  BY NotOwnChild
<1>2. /\ DOMAIN Without(id) = DOMAIN calls \ EndedChildren(id)
      /\ \A x \in DOMAIN calls \ EndedChildren(id) : Without(id)[x] = calls[x]
  BY DEF Without, Restrict
<1>3. CASE Awaited(id)
  <2>1. calls' = [Without(id) EXCEPT ![id] = [NewCall EXCEPT !.pc = "ended", !.out = r]]
    BY <1>3 DEF Leave
  <2> DEFINE last == [NewCall EXCEPT !.pc = "ended", !.out = r]
  <2>2. last = Fin(r)
    BY FinIs
  <2> HIDE DEF last
  <2>3. calls' = [Without(id) EXCEPT ![id] = last]
    BY <2>1 DEF last
  <2> QED BY <1>1, <1>2, <1>3, <2>2, <2>3 DEF Grows
<1>4. CASE ~Awaited(id)
  <2>1. calls' = Restrict(Without(id), DOMAIN Without(id) \ {id})
    BY <1>4 DEF Leave
  <2> QED BY <1>2, <1>4, <2>1 DEF Grows, Restrict
<1> QED BY <1>3, <1>4

Gathering(c, n) ==
  [pc |-> "gather", at |-> n, cancel |-> c.cancel, bad |-> c.bad, out |-> c.out]
Started(id, n) == {Append(id, j) : j \in Level(Key(id), n)}
LEMMA TreeAfterSpawn ==
  ASSUME NEW id \in DOMAIN calls, Position(id), NEW n, NEW gone, id \notin gone,
         NEW rest, DOMAIN rest = DOMAIN calls \ gone,
         \A x \in DOMAIN rest : rest[x] = calls[x],
         calls[id] \in CallRecord, calls' = Spawn(id, n, rest)
  PROVE  /\ Grows(id, gone, Started(id, n))
         /\ id \in DOMAIN calls'
         /\ calls'[id] = Gathering(calls[id], n)
<1>2. id \in DOMAIN rest /\ rest[id] = calls[id]
  OBVIOUS
<1>1. calls' = [c \in DOMAIN rest \cup Started(id, n) |->
                  IF c = id THEN Gathering(calls[id], n)
                  ELSE IF c \in DOMAIN rest THEN rest[c] ELSE NewCall]
  <2>1. [rest[id] EXCEPT !.pc = "gather", !.at = n] = Gathering(calls[id], n)
    <3> DEFINE c == rest[id]
    <3>1. c \in CallRecord /\ c = calls[id]
      BY <1>2
    <3> HIDE DEF c
    <3>2. [c EXCEPT !.pc = "gather", !.at = n] = Gathering(c, n)
      BY <3>1, CallWith DEF Gathering
    <3> QED BY <3>1, <3>2 DEF c
  <2> DEFINE mine == [rest[id] EXCEPT !.pc = "gather", !.at = n]
  <2>2. calls' = [c \in DOMAIN rest \cup Started(id, n) |->
                    IF c = id THEN mine
                    ELSE IF c \in DOMAIN rest THEN rest[c] ELSE NewCall]
    BY DEF Spawn, Started
  <2> HIDE DEF mine
  <2> QED BY <2>1, <2>2 DEF mine
<1>3. DOMAIN calls' = (DOMAIN calls \ gone) \cup Started(id, n)
  BY <1>1
<1>4. \A x \in DOMAIN calls \ gone : x # id => calls'[x] = calls[x]
  BY <1>1
<1>5. \A x \in Started(id, n) : x \notin DOMAIN calls \ gone => calls'[x] = NewCall
  BY <1>1, <1>2
<1>6. calls'[id] = Gathering(calls[id], n)
  BY <1>1, <1>2
<1> QED BY <1>2, <1>3, <1>4, <1>5, <1>6 DEF Grows

LEMMA TreeAfterLevel ==
  ASSUME NEW id \in DOMAIN calls, Position(id), calls[id] \in CallRecord, NextLevel(id)
  PROVE  /\ Grows(id, EndedChildren(id), Started(id, calls[id].at + 1))
         /\ id \in DOMAIN calls'
         /\ calls'[id] = Gathering(calls[id], calls[id].at + 1)
<1>1. id \notin EndedChildren(id)
  BY NotOwnChild
<1>2. /\ DOMAIN Without(id) = DOMAIN calls \ EndedChildren(id)
      /\ \A x \in DOMAIN Without(id) : Without(id)[x] = calls[x]
  BY DEF Without, Restrict
<1>3. calls' = Spawn(id, calls[id].at + 1, Without(id))
  BY DEF NextLevel
<1> DEFINE n == calls[id].at + 1
           gone == EndedChildren(id)
           rest == Without(id)
<1>4. /\ DOMAIN rest = DOMAIN calls \ gone /\ id \notin gone
      /\ \A x \in DOMAIN rest : rest[x] = calls[x]
      /\ calls' = Spawn(id, n, rest)
  BY <1>1, <1>2, <1>3
<1> HIDE DEF n, gone, rest
<1>5. /\ Grows(id, gone, Started(id, n)) /\ id \in DOMAIN calls'
      /\ calls'[id] = Gathering(calls[id], n)
  BY <1>4, TreeAfterSpawn
<1> QED BY <1>5 DEF n, gone

LEMMA TreeAfterFactory ==
  ASSUME NEW id \in DOMAIN calls, Position(id), ToFactory(id)
  PROVE  /\ Grows(id, EndedChildren(id), {})
         /\ id \in DOMAIN calls'
         /\ calls'[id] = [calls[id] EXCEPT !.pc = "factory"]
<1>1. id \notin EndedChildren(id)
  BY NotOwnChild
<1>2. /\ DOMAIN Without(id) = DOMAIN calls \ EndedChildren(id)
      /\ \A x \in DOMAIN Without(id) : Without(id)[x] = calls[x]
  BY DEF Without, Restrict
<1>3. calls' = [Without(id) EXCEPT ![id].pc = "factory"]
  BY DEF ToFactory
<1> QED BY <1>1, <1>2, <1>3 DEF Grows

LEMMA TreeAfterUnwinds ==
  ASSUME NEW id \in DOMAIN calls, Position(id), calls[id] \in CallRecord, Unwinds(id)
  PROVE  /\ Grows(id, EndedChildren(id), {})
         /\ id \in DOMAIN calls'
         /\ calls'[id] = Unwound(calls[id])
<1>1. id \notin EndedChildren(id)
  BY NotOwnChild
<1>2. /\ DOMAIN Without(id) = DOMAIN calls \ EndedChildren(id)
      /\ \A x \in DOMAIN Without(id) : Without(id)[x] = calls[x]
  BY DEF Without, Restrict
<1>3. calls' = [Without(id) EXCEPT ![id].pc = "finalize", ![id].at = 0, ![id].cancel = FALSE]
  BY DEF Unwinds, Finalize
<1>4. calls'[id] = [calls[id] EXCEPT !.pc = "finalize", !.at = 0, !.cancel = FALSE]
  BY <1>1, <1>2, <1>3
<1>5. calls'[id] = Unwound(calls[id])
  <2> DEFINE c == calls[id]
  <2>1. c \in CallRecord
    OBVIOUS
  <2>2. calls'[id] = [c EXCEPT !.pc = "finalize", !.at = 0, !.cancel = FALSE]
    BY <1>4
  <2> HIDE DEF c
  <2>3. calls'[id] = Unwound(c)
    BY <2>1, <2>2, UnwoundIs
  <2> QED BY <2>3 DEF c
<1> QED BY <1>1, <1>2, <1>3, <1>5 DEF Grows

LEMMA TreeAfterClose ==
  ASSUME NEW id \in DOMAIN calls, calls[id] \in CallRecord, Close(id)
  PROVE  /\ Grows(id, {}, {})
         /\ id \in DOMAIN calls'
         /\ calls[id].pc = "finalize" /\ calls[id].at + 1 <= Len(stacks[Req(id)])
         /\ calls'[id] \in CallRecord
         /\ calls'[id].pc = "finalize" /\ calls'[id].at = calls[id].at + 1
         /\ calls'[id].cancel = calls[id].cancel /\ calls'[id].out = calls[id].out
<1>1. PICK raises \in BOOLEAN :
        calls' = [calls EXCEPT ![id].at = calls[id].at + 1, ![id].bad = @ \/ raises]
  BY DEF Close
<1>2. /\ DOMAIN calls' = DOMAIN calls
      /\ \A x \in DOMAIN calls : x # id => calls'[x] = calls[x]
      /\ calls'[id] = [calls[id] EXCEPT !.at = calls[id].at + 1, !.bad = @ \/ raises]
  BY <1>1
<1>3. calls[id].pc = "finalize" /\ calls[id].at + 1 <= Len(stacks[Req(id)])
  BY DEF Close, At
<1>4. /\ calls'[id] \in CallRecord
      /\ calls'[id].pc = "finalize" /\ calls'[id].at = calls[id].at + 1
      /\ calls'[id].cancel = calls[id].cancel /\ calls'[id].out = calls[id].out
  <2>1. calls[id].at + 1 \in Nat /\ (calls[id].bad \/ raises) \in BOOLEAN
    BY DEF CallRecord
  <2> QED BY <1>2, <1>3, <2>1 DEF CallRecord
<1> QED BY <1>2, <1>3, <1>4 DEF Grows

\* Of Enter, first the tree, then the rest.
LEMMA TreeAfterEnter ==
  ASSUME NEW id \in DOMAIN calls, Position(id), calls[id] \in CallRecord, Enter(id),
         stacks \in [Requests -> Seq(Obj \cup {NoObj})]
  PROVE  LET k == Key(id)
             q == Req(id)
         IN /\ calls[id].pc = "ready" /\ ~calls[id].cancel /\ single[k] = NoObj /\ k \in Registered
            /\ id \in DOMAIN calls'
            /\ calls'[id] \in CallRecord /\ ~calls'[id].cancel
            /\ \/ /\ k \in Resources /\ Grows(id, {}, {})
                  /\ calls'[id].pc = "open"
                  /\ stacks' = [stacks EXCEPT ![q] = Append(stacks[q], NoObj)]
               \/ /\ Deps[k] = <<>> /\ Grows(id, {}, {})
                  /\ calls'[id].pc = "factory" /\ stacks' = stacks
               \/ /\ Deps[k] # <<>> /\ Level(k, 1) # {} /\ Grows(id, {}, Started(id, 1))
                  /\ calls'[id].pc = "gather" /\ calls'[id].at = 1 /\ stacks' = stacks
<1> DEFINE k == Key(id)
           q == Req(id)
<1>1. calls[id].pc = "ready" /\ ~calls[id].cancel /\ single[k] = NoObj /\ k \in Registered
  BY DEF Enter, Admitted, Missed, At
<1>2. CASE /\ k \in Resources
           /\ stacks' = [stacks EXCEPT ![Req(id)] = Append(@, NoObj)]
           /\ calls' = [calls EXCEPT ![id].pc = "open", ![id].at = Len(stacks'[Req(id)])]
  <2>1. q \in Requests
    BY PositionIs
  <2>2. stacks'[q] = Append(stacks[q], NoObj) /\ stacks' = [stacks EXCEPT ![q] = Append(stacks[q], NoObj)]
    BY <1>2, <2>1
  <2>3. Len(stacks'[q]) \in Nat
    <3>1. stacks[q] \in Seq(Obj \cup {NoObj})
      BY <2>1
    <3>2. Append(stacks[q], NoObj) \in Seq(Obj \cup {NoObj})
      BY <3>1, AppendProperties
    <3> QED BY <2>2, <3>2, LenProperties
  <2>4. calls'[id] = [calls[id] EXCEPT !.pc = "open", !.at = Len(stacks'[q])]
    BY <1>2
  <2>5. Grows(id, {}, {}) /\ id \in DOMAIN calls'
    BY <1>2 DEF Grows
  <2>6. calls'[id] \in CallRecord /\ ~calls'[id].cancel /\ calls'[id].pc = "open"
    BY <1>1, <2>3, <2>4 DEF CallRecord
  <2> QED BY <1>1, <1>2, <2>2, <2>5, <2>6
<1>3. CASE /\ k \in AsyncKeys /\ Deps[k] = <<>>
           /\ calls' = [calls EXCEPT ![id].pc = "factory"] /\ stacks' = stacks
  <2>1. calls'[id] = [calls[id] EXCEPT !.pc = "factory"]
    BY <1>3
  <2>2. Grows(id, {}, {}) /\ id \in DOMAIN calls'
    BY <1>3 DEF Grows
  <2>3. calls'[id] \in CallRecord /\ ~calls'[id].cancel /\ calls'[id].pc = "factory"
    BY <1>1, <2>1 DEF CallRecord
  <2> QED BY <1>1, <1>3, <2>2, <2>3
<1>4. CASE Deps[k] # <<>> /\ calls' = Spawn(id, 1, calls) /\ stacks' = stacks
  <2>1. Level(k, 1) # {}
    BY <1>4 DEF Enter, Admitted, NoLevels
  <2>2. /\ Grows(id, {}, Started(id, 1)) /\ id \in DOMAIN calls'
        /\ calls'[id] = Gathering(calls[id], 1)
    <3> DEFINE gone == {}
               n == 1
    <3>1. /\ DOMAIN calls = DOMAIN calls \ gone /\ id \notin gone
          /\ \A x \in DOMAIN calls : calls[x] = calls[x]
          /\ calls' = Spawn(id, n, calls)
      BY <1>4
    <3> HIDE DEF n, gone
    <3>2. /\ Grows(id, gone, Started(id, n)) /\ id \in DOMAIN calls'
          /\ calls'[id] = Gathering(calls[id], n)
      BY <3>1, TreeAfterSpawn
    <3> QED BY <3>2 DEF n, gone
  <2>3. /\ calls'[id] \in CallRecord /\ ~calls'[id].cancel
        /\ calls'[id].pc = "gather" /\ calls'[id].at = 1
    BY <1>1, <2>2 DEF CallRecord, Gathering
  <2> QED BY <1>1, <1>4, <2>1, <2>2, <2>3
<1> QED BY <1>2, <1>3, <1>4 DEF Enter

-----------------------------------------------------------------------------
(* The calls: who is where, for which reason, and what is settled *)

\* From here on nothing is forgotten.
Later ==
  /\ asked' = asked
  /\ \A k \in Keys : single[k] # NoObj => single'[k] # NoObj
  /\ \A q \in Requests : ends[q] \subseteq ends'[q]
  /\ cancelled \subseteq cancelled'

LEMMA StillSettled ==
  ASSUME Later, NEW k \in Keys, Settled(k)
  PROVE  Settled(k)'
BY DEF Settled, Later, Good, OnCycle

\* What goes when a call takes a step.
Gone(id) == EndedChildren(id) \cup (IF Awaited(id) THEN {} ELSE {id})

LEMMA OthersKept ==
  ASSUME CallsInv, Later, NEW id \in DOMAIN calls, NEW gone \in SUBSET Gone(id), NEW new,
         Grows(id, gone, new), NEW x \in DOMAIN calls \ gone, x # id
  PROVE  Placed(x)' /\ Awaiting(x)' /\ Ending(x)'
<1>1. Placed(x) /\ Awaiting(x) /\ Ending(x) /\ Position(id) /\ Position(x)
  BY DEF CallsInv, Placed
<1>2. x \in DOMAIN calls' /\ calls'[x] = calls[x]
  BY DEF Grows
<1>3. Key(x) \in Keys /\ Req(x) \in Requests /\ Needed[Key(x)] \subseteq Keys
  BY <1>1, PositionIs, NeededHolds
<1>4. \A d \in Needed[Key(x)] : Settled(d) => Settled(d)'
  BY <1>3, StillSettled
<1>5. Settled(Key(x)) => Settled(Key(x))'
  BY <1>3, StillSettled
<1>6. Placed(x)'
  <2>1. Graph(Req(x))' = Graph(Req(x))
    BY DEF Graph, Later
  <2>2. single[Key(x)] # NoObj => single'[Key(x)] # NoObj
    BY <1>3 DEF Later
  <2> QED BY <1>1, <1>2, <1>4, <2>1, <2>2 DEF Placed, Later
<1>7. Awaiting(x)'
  <2>1. ASSUME calls[x].pc = "gather", NEW j \in Level(Key(x), calls[x].at),
               Append(x, j) \in DOMAIN calls
        PROVE  Append(x, j) \in DOMAIN calls'
    <3>1. j \in Keys
      BY <1>3 DEF Level
    <3>2. Front(Append(x, j)) = x
      BY <1>1, <3>1, ChildIs
    <3>3. Append(x, j) \notin EndedChildren(id)
      BY <3>2 DEF EndedChildren, Children
    <3>4. Append(x, j) = id => Awaited(id)
      BY <2>1, <3>2 DEF Awaited
    <3> QED BY <2>1, <3>3, <3>4 DEF Grows, Gone
  <2>2. calls'[x].pc \in {"gather", "factory", "open"} => Key(x) \in Registered
    BY <1>1, <1>2 DEF Awaiting
  <2>3. calls'[x].pc = "gather" =>
          /\ calls'[x].at \in 1..Count
          /\ \A d \in Needed[Key(x)] : d \notin Waiting[calls'[x].at - 1] => Settled(d)'
          /\ \A j \in Level(Key(x), calls'[x].at) : Append(x, j) \in DOMAIN calls'
    BY <1>1, <1>2, <1>4, <2>1 DEF Awaiting
  <2>4. calls'[x].pc \in {"factory", "open"} => \A d \in Needed[Key(x)] : Settled(d)'
    BY <1>1, <1>2, <1>4 DEF Awaiting
  <2> QED BY <2>2, <2>3, <2>4 DEF Awaiting
<1>8. Ending(x)'
  BY <1>1, <1>2, <1>3, <1>5 DEF Ending, Later
<1> QED BY <1>6, <1>7, <1>8

\* What a request needs.
LEMMA GraphOf ==
  ASSUME TypeOK, NEW id, Placed(id)
  PROVE  /\ Key(id) \in Graph(Req(id)) /\ Needed[Key(id)] \subseteq Graph(Req(id))
         /\ Needed[Key(id)] \subseteq Needed[id[2]]
         /\ Req(id) \in Requests /\ asked[Req(id)] \in Keys
<1>1. /\ Position(id) /\ Req(id) \in Requests /\ id[2] \in Keys /\ id[2] = asked[Req(id)]
      /\ Key(id) = id[Len(id)]
  BY PositionIs DEF Placed
<1>2. CASE IsRoot(id)
  BY <1>1, <1>2 DEF Graph, IsRoot
<1>3. CASE ~IsRoot(id)
  <2>1. Key(id) \in Needed[id[2]]
    BY <1>3 DEF Placed
  <2>2. Needed[Key(id)] \subseteq Needed[id[2]]
    BY <1>1, <2>1, NeededOfNeeded
  <2> QED BY <1>1, <2>1, <2>2 DEF Graph
<1> QED BY <1>2, <1>3

\* The calls that id starts for a level all that needs has been settled.
LEMMA StartedWell ==
  ASSUME TypeOK, Later, NEW id, Placed(id), NEW n \in Nat \ {0},
         \A d \in Needed[Key(id)] : d \notin Waiting[n - 1] => Settled(d)',
         NEW x \in Started(id, n), calls'[x] = NewCall
  PROVE  Placed(x)' /\ Awaiting(x)' /\ Ending(x)'
<1>1. Position(id) /\ Key(id) \in Keys /\ Len(id) \in Nat /\ Len(id) >= 2
  BY PositionIs DEF Placed
<1>2. PICK j \in Level(Key(id), n) : x = Append(id, j)
  BY DEF Started
<1>3. j \in Needed[Key(id)] /\ j \in Keys /\ ~OnCycle(j)
  BY <1>1, <1>2, NeededBefore, NeededHolds
<1>4. \A d \in Needed[j] : Settled(d)'
  BY <1>1, <1>2, NeededBefore
<1>5. /\ Position(x) /\ Len(x) = Len(id) + 1 /\ Req(x) = Req(id) /\ Key(x) = j
      /\ x[2] = id[2]
  BY <1>1, <1>2, <1>3, ChildIs
<1>6. /\ j \in Needed[id[2]] /\ j \in Graph(Req(id)) /\ id[2] = asked[Req(id)]
  BY <1>3, GraphOf DEF Placed
<1>7. Len(x) > 3 /\ j \in Singletons => single'[j] # NoObj
  <2>1. Len(x) > 3 => Len(id) # 2
    <3> DEFINE m == Len(id)
               l == Len(x)
    <3>1. m \in Nat /\ l = m + 1
      BY <1>1, <1>5
    <3> HIDE DEF m, l
    <3>2. l > 3 => m # 2
      BY <3>1
    <3> QED BY <3>2 DEF m, l
  <2>2. Len(id) # 2 => Settled(j)
    BY <1>3 DEF Placed, IsRoot
  <2> QED BY <1>3, <2>1, <2>2 DEF Settled, Later
<1>8. Placed(x)'
  <2>1. Graph(Req(x))' = Graph(Req(x))
    BY DEF Graph, Later
  <2> QED BY <1>3, <1>4, <1>5, <1>6, <1>7, <2>1, NewCallIs DEF Placed, Later
<1> QED BY <1>8, NewCallIs DEF Awaiting, Ending

LEMMA StartedFinite ==
  ASSUME NEW id, Position(id), NEW n
  PROVE  IsFiniteSet(Started(id, n))
<1> DEFINE f == [j \in Level(Key(id), n) |-> Append(id, j)]
<1>1. Level(Key(id), n) \subseteq Keys
  BY PositionIs, NeededHolds DEF Level
<1>2. IsFiniteSet(Level(Key(id), n))
  BY <1>1, CountIsNat, FS_Subset
<1>3. f \in Surjection(Level(Key(id), n), Started(id, n))
  BY DEF Surjection, Started
<1> QED BY <1>2, <1>3, FS_Surjection

\* When all calls of a level have returned, everything released by then is
\* settled.
LEMMA LevelSettled ==
  ASSUME CallsInv, NEW id \in DOMAIN calls, calls[id].pc = "gather",
         Gathered(id), FailedChildren(id) = {}
  PROVE  /\ calls[id].at \in 1..Count
         /\ \A d \in Needed[Key(id)] : d \notin Waiting[calls[id].at] => Settled(d)
<1> DEFINE n == calls[id].at
           k == Key(id)
<1>1. Placed(id) /\ Awaiting(id) /\ Position(id) /\ k \in Keys
  BY PositionIs DEF CallsInv, Placed
<1>2. n \in 1..Count /\ n \in Nat \ {0}
  BY <1>1 DEF Awaiting
<1>3. ASSUME NEW d \in Level(k, n) PROVE Settled(d)
  <2> DEFINE c == Append(id, d)
  <2>1. d \in Keys
    BY <1>1, NeededHolds, <1>3 DEF Level
  <2>2. c \in DOMAIN calls /\ Front(c) = id /\ Key(c) = d /\ Len(c) > 2
    <3>1. Len(c) = Len(id) + 1 /\ Len(id) \in Nat /\ Len(id) >= 2
      BY <1>1, <2>1, ChildIs, PositionIs
    <3> QED BY <1>1, <1>3, <2>1, <3>1, ChildIs DEF Awaiting
  <2> HIDE DEF c
  <2>3. c \in Children(id)
    BY <2>2 DEF Children
  <2>4. calls[c].pc = "ended" /\ calls[c].out = "ok"
    BY <2>3 DEF Gathered, FailedChildren, EndedChildren
  <2> QED BY <2>2, <2>4 DEF CallsInv, Ending
<1>4. ASSUME NEW d \in Needed[k], d \notin Waiting[n] PROVE Settled(d)
  <2>1. CASE d \in Waiting[n - 1]
    <3>1. d \in Level(k, n)
      BY <1>2, <1>4, <2>1, CountIsNat DEF Level, Count
    <3> QED BY <3>1, <1>3
  <2>2. CASE d \notin Waiting[n - 1]
    BY <1>1, <1>2, <1>4, <2>2 DEF Awaiting
  <2> QED BY <2>1, <2>2
<1> QED BY <1>2, <1>4

\* What is built, or found in the cache, can be resolved.
LEMMA ResolvedWell ==
  ASSUME CallsInv, NEW id \in DOMAIN calls, Builds(id) \/ Hits(id)
  PROVE  Good(Key(id))
<1> DEFINE k == Key(id)
<1>1. Placed(id) /\ Awaiting(id) /\ Position(id) /\ k \in Keys
  BY PositionIs DEF CallsInv, Placed
<1>2. ASSUME k \in Registered, \A d \in Needed[k] : Settled(d) PROVE Good(k)
  <2>1. ~OnCycle(k)
    BY <1>2 DEF OnCycle, Settled, Good
  <2> QED BY <1>2, <2>1 DEF Settled, Good
<1>3. CASE Hits(id)
  BY <1>1, <1>3 DEF Hits, CallsInv
<1>4. CASE calls[id].pc = "ready" /\ k \in Registered /\ Deps[k] = <<>>
  BY <1>1, <1>2, <1>4, NeededOfNone
<1>5. CASE calls[id].pc \in {"factory", "open"}
  BY <1>1, <1>2, <1>5 DEF Awaiting
<1>6. CASE /\ calls[id].pc = "gather" /\ Gathered(id) /\ FailedChildren(id) = {}
           /\ Level(k, calls[id].at + 1) = {} /\ DepSet(k) \cap Uncollected = {}
  <2> DEFINE n == calls[id].at + 1
  <2>1. /\ calls[id].at \in 1..Count
        /\ \A d \in Needed[k] : d \notin Waiting[calls[id].at] => Settled(d)
    BY <1>6, LevelSettled
  <2>2. n \in 1..Count + 1 /\ n - 1 = calls[id].at
    BY <2>1, CountIsNat
  <2>3. Needed[k] \cap Waiting[n - 1] = {}
    BY <1>1, <1>6, <2>2, AllReleased
  <2>4. k \in Registered
    BY <1>1, <1>6 DEF Awaiting
  <2> QED BY <1>2, <2>1, <2>2, <2>3, <2>4
<1> QED BY <1>3, <1>4, <1>5, <1>6 DEF Builds

LEMMA ObjectIs ==
  ASSUME TypeOK, NEW k \in Keys
  PROVE  NextObj(k) \in Obj /\ NextObj(k) # NoObj /\ made[k] \in Nat
<1>1. made[k] \in Nat
  BY DEF TypeOK
<1>2. NextObj(k) \in Keys \X (Nat \ {0})
  BY <1>1 DEF NextObj
<1> QED BY <1>1, <1>2, AsyncAssumption DEF Obj, AsyncAssumption

\* What a call that ends leaves behind, beside the tree.
LEMMA EndLeaves ==
  ASSUME CallsInv, NEW id \in DOMAIN calls, NEW r \in Results, Ends(id, r)
  PROVE  /\ Later /\ UNCHANGED <<asked, cancelled, alone, closed>>
         /\ single' \in [Keys -> Obj \cup {NoObj}]
         /\ handed' \in [Keys -> SUBSET Obj]
         /\ made' \in [Keys -> Nat]
         /\ stacks' \in [Requests -> Seq(Obj \cup {NoObj})]
         /\ ends' \in [Requests -> SUBSET Results]
         /\ \A q \in Requests : ends'[q] = IF q = Req(id) THEN ends[q] \cup {r} ELSE ends[q]
         /\ outcome' \in [Requests -> Results \cup {"idle", "running"}]
         /\ \A q \in Requests :
              outcome'[q] = IF q = Req(id) /\ IsRoot(id) THEN r ELSE outcome[q]
         /\ r = "ok" => Settled(Key(id))'
         /\ \A k \in Keys : single'[k] # NoObj => Good(k)
<1> DEFINE k == Key(id)
           q0 == Req(id)
<1>1. Placed(id) /\ Position(id) /\ k \in Keys /\ q0 \in Requests /\ TypeOK
  BY PositionIs DEF CallsInv, Placed
<1>2. NextObj(k) \in Obj /\ NextObj(k) # NoObj /\ made[k] \in Nat
  BY <1>1, ObjectIs
<1>3. UNCHANGED <<asked, cancelled, alone, closed>>
  BY DEF Ends, Leave
<1>4. /\ ends' \in [Requests -> SUBSET Results]
      /\ \A q \in Requests : ends'[q] = IF q = q0 THEN ends[q] \cup {r} ELSE ends[q]
  <2>1. ends' = [ends EXCEPT ![q0] = @ \cup {r}]
    BY DEF Ends, Leave
  <2> QED BY <1>1, <2>1 DEF TypeOK
<1>5. /\ outcome' \in [Requests -> Results \cup {"idle", "running"}]
      /\ \A q \in Requests : outcome'[q] = IF q = q0 /\ IsRoot(id) THEN r ELSE outcome[q]
  <2>1. outcome' = IF IsRoot(id) THEN [outcome EXCEPT ![q0] = r] ELSE outcome
    BY DEF Ends, Leave
  <2> QED BY <1>1, <2>1 DEF TypeOK
<1>6. stacks' \in [Requests -> Seq(Obj \cup {NoObj})]
  <2>1. CASE stacks' = stacks
    BY <1>1, <2>1 DEF TypeOK
  <2>2. CASE stacks' = [stacks EXCEPT ![q0][calls[id].at] = NextObj(k)]
    <3> DEFINE s == stacks[q0]
               t == [s EXCEPT ![calls[id].at] = NextObj(k)]
    <3>1. s \in Seq(Obj \cup {NoObj})
      BY <1>1 DEF TypeOK
    <3>2. t \in Seq(Obj \cup {NoObj})
      <4>1. Len(s) \in Nat /\ s \in [1..Len(s) -> Obj \cup {NoObj}]
        BY <3>1, LenProperties
      <4>2. t \in [1..Len(s) -> Obj \cup {NoObj}]
        BY <1>2, <4>1
      <4> HIDE DEF t
      <4> QED BY <4>1, <4>2, SeqDef
    <3>3. stacks' = [stacks EXCEPT ![q0] = t]
      BY <2>2
    <3> HIDE DEF t
    <3> QED BY <1>1, <3>2, <3>3 DEF TypeOK
  <2> QED BY <2>1, <2>2 DEF Ends
<1>7. /\ single' \in [Keys -> Obj \cup {NoObj}] /\ handed' \in [Keys -> SUBSET Obj]
      /\ made' \in [Keys -> Nat]
      /\ \A j \in Keys : single[j] # NoObj => single'[j] # NoObj
      /\ \A j \in Keys : single'[j] # NoObj => Good(j)
      /\ r = "ok" => Good(k) /\ (k \in Singletons => single'[k] # NoObj)
  <2>1. CASE r = "ok" /\ Builds(id)
    <3>1. Good(k)
      BY <2>1, ResolvedWell
    <3>2. made' = IF k \in Singletons \cup Resources THEN [made EXCEPT ![k] = @ + 1] ELSE made
      BY <2>1 DEF Builds, Produce
    <3>3. CASE k \in Singletons
      <4>1. /\ single' = [single EXCEPT ![k] = NextObj(k)]
            /\ handed' = [handed EXCEPT ![k] = @ \cup {NextObj(k)}]
        BY <2>1, <3>3 DEF Builds, Store
      <4>2. \A j \in Keys : single[j] # NoObj => Good(j)
        BY DEF CallsInv
      <4> QED BY <1>1, <1>2, <3>1, <3>2, <4>1, <4>2 DEF TypeOK
    <3>4. CASE k \notin Singletons
      <4>1. single' = single /\ handed' = handed
        BY <2>1, <3>4 DEF Builds, Store
      <4>2. \A j \in Keys : single[j] # NoObj => Good(j)
        BY DEF CallsInv
      <4> QED BY <1>1, <1>2, <3>1, <3>2, <3>4, <4>1, <4>2 DEF TypeOK
    <3> QED BY <3>3, <3>4
  <2>2. CASE r = "ok" /\ Hits(id)
    <3>1. Good(k) /\ single[k] # NoObj /\ single[k] \in Obj
      BY <1>1, <2>2, ResolvedWell DEF Hits, TypeOK
    <3>2. /\ single' = single /\ made' = made
          /\ handed' = [handed EXCEPT ![k] = @ \cup {single[k]}]
      BY <2>2 DEF Hits
    <3> QED BY <1>1, <3>1, <3>2 DEF TypeOK, CallsInv
  <2>3. CASE FailsWith(id, r)
    <3>1. single' = single /\ made' = made /\ handed' = handed
      BY <2>3 DEF FailsWith
    <3>2. r # "ok"
      BY <2>3 DEF FailsWith, Errors
    <3> QED BY <1>1, <3>1, <3>2 DEF TypeOK, CallsInv
  <2> QED BY <2>1, <2>2, <2>3 DEF Ends
<1>8. Later
  BY <1>3, <1>4, <1>7 DEF Later
<1>9. r = "ok" => Settled(k)'
  BY <1>7 DEF Settled, Good, OnCycle
<1> QED BY <1>3, <1>4, <1>5, <1>6, <1>7, <1>8, <1>9

LEMMA FrontOfPath ==
  ASSUME NEW s \in Seq(Keys)
  PROVE  Front(s) \in Seq(Keys)
<1>1. Len(s) \in Nat /\ 1 \in Int /\ Len(s) - 1 \in Int
  BY LenProperties
<1>2. \A i \in 1..Len(s) - 1 : s[i] \in Keys
  <2>1. \A i \in 1..Len(s) - 1 : i \in 1..Len(s)
    BY <1>1
  <2> QED BY <2>1, ElementOfSeq
<1>3. SubSeq(s, 1, Len(s) - 1) \in Seq(Keys)
  BY <1>1, <1>2, SubSeqProperties
<1> QED BY <1>3 DEF Front

\* A child's request is its parent's.
LEMMA ParentIs ==
  ASSUME NEW c, Position(c)
  PROVE  Front(c)[1] = c[1] /\ Req(Front(c)) = Req(c)
<1>1. 1 \in 1..Len(c) - 1
  BY PositionIs
<1>2. Front(c)[1] = c[1]
  BY <1>1, FrontIs
<1> QED BY <1>2 DEF Req

\* The invariant after a step, from what it says of each call.
LEMMA CallsTyped ==
  ASSUME CallsInv, asked' = asked,
         \A x \in DOMAIN calls' : Placed(x)' /\ Awaiting(x)' /\ Ending(x)',
         IsFiniteSet(DOMAIN calls'),
         single' \in [Keys -> Obj \cup {NoObj}], \A k \in Keys : single'[k] # NoObj => Good(k),
         path' \in [Contexts -> Seq(Keys)], stacks' \in [Requests -> Seq(Obj \cup {NoObj})],
         closed' \in SUBSET Obj, outcome' \in [Requests -> Results \cup {"idle", "running"}],
         made' \in [Keys -> Nat], handed' \in [Keys -> SUBSET Obj],
         ends' \in [Requests -> SUBSET Results], cancelled' \in SUBSET Requests,
         alone' \in BOOLEAN, OutcomeExact',
         \A q \in Requests : outcome'[q] = "ok" => Good(asked[q])
  PROVE  CallsInv'
<1>1. asked' \in Asks
  BY DEF CallsInv, TypeOK
<1>2. ASSUME NEW x \in DOMAIN calls'
      PROVE  /\ calls'[x] \in CallRecord
             /\ Len(x) > 1 /\ Head(x) \in Requests /\ \A i \in 2..Len(x) : x[i] \in Keys
  <2>1. Placed(x)'
    BY <1>2
  <2>2. Position(x) /\ calls'[x] \in CallRecord
    BY <2>1 DEF Placed, Position
  <2>3. Head(x) \in Requests
    BY <2>2, PositionIs DEF Req
  <2> QED BY <2>2, <2>3 DEF Position
<1>3. TypeOK'
  BY <1>1, <1>2 DEF TypeOK
<1>4. \A k \in Keys : (single[k] # NoObj => Good(k))'
  BY DEF Good, OnCycle
<1>5. \A q \in Requests : (outcome[q] = "ok" => Good(asked[q]))'
  BY DEF Good, OnCycle
<1> QED BY <1>3, <1>4, <1>5 DEF CallsInv

\* An outcome after a call has ended.
LEMMA OutcomeAfterEnd ==
  ASSUME CallsInv, NEW id \in DOMAIN calls, NEW r \in Results, Ends(id, r)
  PROVE  OutcomeExact' /\ \A q \in Requests : outcome'[q] = "ok" => Good(asked[q])
<1> DEFINE k == Key(id)
           q0 == Req(id)
<1>1. Placed(id) /\ Ending(id) /\ Position(id) /\ k \in Keys /\ q0 \in Requests /\ TypeOK
  BY PositionIs DEF CallsInv, Placed
<1>2. /\ k \in Graph(q0) /\ Needed[k] \subseteq Graph(q0) /\ asked[q0] \in Keys
      /\ IsRoot(id) => k = asked[q0]
  <2>1. IsRoot(id) => k = asked[q0]
    BY <1>1, PositionIs DEF IsRoot, Placed
  <2> QED BY <1>1, <2>1, GraphOf
<1>3. /\ asked' = asked /\ cancelled' = cancelled
      /\ \A q \in Requests : ends'[q] = IF q = q0 THEN ends[q] \cup {r} ELSE ends[q]
      /\ \A q \in Requests : outcome'[q] = IF q = q0 /\ IsRoot(id) THEN r ELSE outcome[q]
  BY EndLeaves
<1>4. \A q \in Requests : Graph(q)' = Graph(q)
  BY <1>3 DEF Graph
<1>5. ASSUME NEW q \in Requests, outcome'[q] = "ok" PROVE Good(asked[q])
  <2>1. CASE q = q0 /\ IsRoot(id)
    <3>1. r = "ok"
      BY <1>3, <1>5, <2>1
    <3>2. Builds(id) \/ Hits(id)
      BY <3>1 DEF Ends, FailsWith, Errors
    <3> QED BY <1>2, <2>1, <3>2, ResolvedWell
  <2>2. CASE ~(q = q0 /\ IsRoot(id))
    BY <1>3, <1>5, <2>2 DEF CallsInv
  <2> QED BY <2>1, <2>2
<1>6. ASSUME NEW c \in FailedChildren(id)
      PROVE  calls[c].out \in ends[q0]
  <2>1. c \in DOMAIN calls /\ Front(c) = id /\ calls[c].pc = "ended"
    BY DEF FailedChildren, EndedChildren, Children
  <2>2. Position(c) /\ Ending(c)
    BY <2>1 DEF CallsInv, Placed
  <2> QED BY <2>1, <2>2, ParentIs DEF Ending
<1>7. ASSUME r \notin ends[q0]
      PROVE  /\ r = "missing" => ~(Graph(q0) \subseteq Registered)
             /\ r = "uncollected" => \E j \in Graph(q0) : OnCycle(j)
             /\ r = "cancelled" => q0 \in cancelled
  <2>1. CASE r = "missing"
    <3>1. k \notin Registered
      BY <1>6, <1>7, <2>1 DEF Ends, FailsWith
    <3> QED BY <1>2, <2>1, <3>1
  <2>2. CASE r = "uncollected"
    <3>1. DepSet(k) \cap Uncollected # {}
      BY <1>6, <1>7, <2>2 DEF Ends, FailsWith
    <3>2. \E j \in Needed[k] : OnCycle(j)
      BY <1>1, <3>1, UncollectedForCause
    <3> QED BY <1>2, <2>2, <3>2
  <2>3. CASE r = "cancelled"
    <3>1. \/ calls[id].cancel
          \/ calls[id].pc = "finalize"
      BY <1>6, <1>7, <2>3 DEF Ends, FailsWith, Errors
    <3> QED BY <1>1, <2>3, <3>1 DEF Ending
  <2> QED BY <2>1, <2>2, <2>3
<1>8. ASSUME NEW q \in Requests
      PROVE  /\ outcome'[q] = "ok" => Graph(q) \subseteq {j \in Registered : ~OnCycle(j)}
             /\ "missing" \in ends'[q] => ~(Graph(q) \subseteq Registered)
             /\ "uncollected" \in ends'[q] => \E j \in Graph(q) : OnCycle(j)
             /\ "cancelled" \in ends'[q] => q \in cancelled'
  <2>1. outcome'[q] = "ok" => Graph(q) \subseteq {j \in Registered : ~OnCycle(j)}
    BY <1>5 DEF Good, Graph
  <2>2. /\ "missing" \in ends[q] => ~(Graph(q) \subseteq Registered)
        /\ "uncollected" \in ends[q] => \E j \in Graph(q) : OnCycle(j)
        /\ "cancelled" \in ends[q] => q \in cancelled
    BY DEF CallsInv, OutcomeExact
  <2>3. CASE ends'[q] = ends[q]
    BY <1>3, <2>1, <2>2, <2>3
  <2>4. CASE ends'[q] # ends[q]
    <3>1. q = q0 /\ r \notin ends[q0] /\ ends'[q] = ends[q0] \cup {r}
      BY <1>3, <2>4
    <3> QED BY <1>3, <1>7, <2>1, <2>2, <3>1
  <2> QED BY <2>3, <2>4
<1>9. OutcomeExact'
  BY <1>4, <1>8 DEF OutcomeExact, OnCycle
<1> QED BY <1>5, <1>9

LEMMA CallsAfterEnd ==
  ASSUME CallsInv, NEW id \in DOMAIN calls, NEW r \in Results, Ends(id, r)
  PROVE  CallsInv'
<1> DEFINE q0 == Req(id)
<1>1. Placed(id) /\ Position(id) /\ q0 \in Requests /\ TypeOK /\ Context[q0] \in Contexts
  BY PositionIs DEF CallsInv, Placed
<1>2. /\ Later /\ UNCHANGED <<asked, cancelled, alone, closed>>
      /\ single' \in [Keys -> Obj \cup {NoObj}]
      /\ handed' \in [Keys -> SUBSET Obj]
      /\ made' \in [Keys -> Nat]
      /\ stacks' \in [Requests -> Seq(Obj \cup {NoObj})]
      /\ ends' \in [Requests -> SUBSET Results]
      /\ \A q \in Requests : ends'[q] = IF q = q0 THEN ends[q] \cup {r} ELSE ends[q]
      /\ outcome' \in [Requests -> Results \cup {"idle", "running"}]
      /\ r = "ok" => Settled(Key(id))'
      /\ \A k \in Keys : single'[k] # NoObj => Good(k)
  BY EndLeaves
<1>3. path' \in [Contexts -> Seq(Keys)]
  <2>1. path \in [Contexts -> Seq(Keys)]
    BY <1>1 DEF TypeOK
  <2>2. CASE path' = path
    BY <2>1, <2>2
  <2>3. CASE path' = [path EXCEPT ![Context[q0]] = Front(@)]
    <3>1. Front(path[Context[q0]]) \in Seq(Keys)
      BY <1>1, <2>1, FrontOfPath
    <3> QED BY <1>1, <2>1, <2>3, <3>1
  <2> QED BY <2>2, <2>3 DEF Ends, Leave
<1>4. /\ Grows(id, Gone(id), {})
      /\ Awaited(id) => id \in DOMAIN calls' /\ calls'[id] = Fin(r)
      /\ ~Awaited(id) => id \notin DOMAIN calls'
  BY <1>1, TreeAfterLeave DEF Ends, Gone
<1>5. IsFiniteSet(DOMAIN calls')
  <2>1. DOMAIN calls' \subseteq DOMAIN calls
    BY <1>4 DEF Grows
  <2> QED BY <2>1, FS_Subset DEF CallsInv
<1>6. ASSUME NEW x \in DOMAIN calls', x # id PROVE Placed(x)' /\ Awaiting(x)' /\ Ending(x)'
  <2>1. x \in DOMAIN calls \ Gone(id)
    BY <1>4 DEF Grows
  <2> QED BY <1>2, <1>4, <1>6, <2>1, OthersKept
<1>7. ASSUME id \in DOMAIN calls' PROVE Placed(id)' /\ Awaiting(id)' /\ Ending(id)'
  <2>1. calls'[id] = Fin(r)
    BY <1>4, <1>7
  <2>2. /\ calls'[id] \in CallRecord /\ calls'[id].pc = "ended" /\ calls'[id].out = r
        /\ ~calls'[id].cancel
    BY <2>1 DEF Fin, CallRecord
  <2>3. Placed(id)'
    <3>1. Graph(q0)' = Graph(q0)
      BY <1>2 DEF Graph
    <3>2. Key(id) \in Keys /\ Needed[Key(id)] \subseteq Keys
      BY <1>1, PositionIs, NeededHolds
    <3>3. \A d \in Needed[Key(id)] : Settled(d) => Settled(d)'
      BY <1>2, <3>2, StillSettled
    <3>4. single[Key(id)] # NoObj => single'[Key(id)] # NoObj
      BY <1>2, <3>2 DEF Later
    <3> QED BY <1>1, <1>2, <2>2, <3>1, <3>3, <3>4 DEF Placed
  <2>4. r \in ends'[q0]
    BY <1>1, <1>2
  <2>5. Ending(id)'
    BY <1>2, <2>2, <2>4 DEF Ending
  <2>6. Awaiting(id)'
    BY <2>2 DEF Awaiting
  <2> QED BY <2>3, <2>5, <2>6
<1>8. \A x \in DOMAIN calls' : Placed(x)' /\ Awaiting(x)' /\ Ending(x)'
  BY <1>6, <1>7
<1>9. OutcomeExact' /\ \A q \in Requests : outcome'[q] = "ok" => Good(asked[q])
  BY OutcomeAfterEnd
<1>10. closed' \in SUBSET Obj /\ cancelled' \in SUBSET Requests /\ alone' \in BOOLEAN
       /\ asked' = asked
  BY <1>1, <1>2 DEF TypeOK
<1> QED BY <1>2, <1>3, <1>5, <1>8, <1>9, <1>10, CallsTyped

\* What the steps do not change that neither produce an instance nor end a
\* call.
Inside ==
  UNCHANGED <<asked, single, outcome, made, handed, ends, cancelled, alone>>

\* Such a step, from what it does to the call that takes it.
LEMMA CallsAfterInside ==
  ASSUME CallsInv, Inside, NEW id \in DOMAIN calls, NEW gone, gone \subseteq EndedChildren(id),
         NEW new, IsFiniteSet(new), Grows(id, gone, new), id \in DOMAIN calls',
         Placed(id)' /\ Awaiting(id)' /\ Ending(id)',
         \A x \in new : calls'[x] = NewCall => Placed(x)' /\ Awaiting(x)' /\ Ending(x)',
         path' \in [Contexts -> Seq(Keys)], stacks' \in [Requests -> Seq(Obj \cup {NoObj})],
         closed' \in SUBSET Obj
  PROVE  CallsInv'
<1>1. Later
  BY DEF Inside, Later
<1>2. ASSUME NEW x \in DOMAIN calls' PROVE Placed(x)' /\ Awaiting(x)' /\ Ending(x)'
  <2>1. CASE x = id
    BY <2>1
  <2>2. CASE x # id /\ x \in DOMAIN calls \ gone
    <3>1. gone \in SUBSET Gone(id)
      BY DEF Gone
    <3> QED BY <1>1, <2>2, <3>1, OthersKept
  <2>3. CASE x \notin DOMAIN calls \ gone
    <3>1. x \in new /\ calls'[x] = NewCall
      BY <1>2, <2>3 DEF Grows
    <3> QED BY <3>1
  <2> QED BY <2>1, <2>2, <2>3
<1>3. IsFiniteSet(DOMAIN calls')
  <2>1. IsFiniteSet(DOMAIN calls \ gone)
    BY FS_Subset DEF CallsInv
  <2>2. IsFiniteSet((DOMAIN calls \ gone) \cup new)
    BY <2>1, FS_Union
  <2> QED BY <2>2 DEF Grows
<1>4. /\ TypeOK /\ OutcomeExact /\ \A k \in Keys : single[k] # NoObj => Good(k)
      /\ \A q \in Requests : outcome[q] = "ok" => Good(asked[q])
  BY DEF CallsInv
<1>5. /\ asked' = asked /\ single' = single /\ outcome' = outcome /\ made' = made
      /\ handed' = handed /\ ends' = ends /\ cancelled' = cancelled /\ alone' = alone
  BY DEF Inside
<1>6. OutcomeExact'
  BY <1>4, <1>5 DEF OutcomeExact, Graph, OnCycle
<1>7. /\ single' \in [Keys -> Obj \cup {NoObj}] /\ \A k \in Keys : single'[k] # NoObj => Good(k)
      /\ outcome' \in [Requests -> Results \cup {"idle", "running"}]
      /\ made' \in [Keys -> Nat] /\ handed' \in [Keys -> SUBSET Obj]
      /\ ends' \in [Requests -> SUBSET Results] /\ cancelled' \in SUBSET Requests
      /\ alone' \in BOOLEAN /\ \A q \in Requests : outcome'[q] = "ok" => Good(asked[q])
  BY <1>4, <1>5 DEF TypeOK
<1> QED BY <1>2, <1>3, <1>5, <1>6, <1>7, CallsTyped

\* The call itself stays where it is in the tree.
LEMMA StillPlaced ==
  ASSUME CallsInv, Inside, NEW id \in DOMAIN calls, calls'[id] \in CallRecord
  PROVE  Placed(id)'
<1>1. Placed(id) /\ Key(id) \in Keys /\ Needed[Key(id)] \subseteq Keys
  BY PositionIs, NeededHolds DEF CallsInv, Placed
<1>2. Graph(Req(id))' = Graph(Req(id))
  BY DEF Graph, Inside
<1>3. \A d \in Needed[Key(id)] : Settled(d) => Settled(d)'
  BY DEF Settled, Inside, Good, OnCycle
<1> QED BY <1>1, <1>2, <1>3 DEF Placed, Inside

LEMMA CallsAfterEnter ==
  ASSUME CallsInv, NEW id \in DOMAIN calls, Enter(id)
  PROVE  CallsInv'
<1> DEFINE k == Key(id)
           q == Req(id)
<1>1. /\ Placed(id) /\ Position(id) /\ k \in Keys /\ q \in Requests /\ TypeOK
      /\ Context[q] \in Contexts /\ calls[id] \in CallRecord
      /\ stacks \in [Requests -> Seq(Obj \cup {NoObj})]
  BY PositionIs DEF CallsInv, Placed, TypeOK
<1>2. Inside /\ closed' \in SUBSET Obj
  BY <1>1 DEF Enter, Inside, TypeOK
<1>3. path' \in [Contexts -> Seq(Keys)]
  <2>1. path' = [path EXCEPT ![Context[q]] = Append(@, k)]
    BY DEF Enter, EnterPath
  <2>2. Append(path[Context[q]], k) \in Seq(Keys)
    BY <1>1, AppendProperties DEF TypeOK
  <2> QED BY <1>1, <2>1, <2>2 DEF TypeOK
<1>4. /\ calls[id].pc = "ready" /\ ~calls[id].cancel /\ k \in Registered
      /\ id \in DOMAIN calls' /\ calls'[id] \in CallRecord /\ ~calls'[id].cancel
      /\ \/ /\ k \in Resources /\ Grows(id, {}, {})
            /\ calls'[id].pc = "open"
            /\ stacks' = [stacks EXCEPT ![q] = Append(stacks[q], NoObj)]
         \/ /\ Deps[k] = <<>> /\ Grows(id, {}, {})
            /\ calls'[id].pc = "factory" /\ stacks' = stacks
         \/ /\ Deps[k] # <<>> /\ Level(k, 1) # {} /\ Grows(id, {}, Started(id, 1))
            /\ calls'[id].pc = "gather" /\ calls'[id].at = 1 /\ stacks' = stacks
  BY <1>1, TreeAfterEnter
<1>5. Placed(id)'
  BY <1>2, <1>4, StillPlaced
<1>6. Ending(id)'
  BY <1>4 DEF Ending
<1>7. stacks' \in [Requests -> Seq(Obj \cup {NoObj})]
  <2>1. Append(stacks[q], NoObj) \in Seq(Obj \cup {NoObj})
    BY <1>1, AppendProperties
  <2> QED BY <1>1, <1>4, <2>1
<1>8. CASE Grows(id, {}, {}) /\ Deps[k] = <<>> /\ calls'[id].pc \in {"open", "factory"}
  <2>1. Needed[k] = {}
    BY <1>1, <1>8, NeededOfNone
  <2>2. Awaiting(id)'
    BY <1>4, <1>8, <2>1 DEF Awaiting
  <2> DEFINE gone == {}
             new == {}
  <2>3. gone \subseteq EndedChildren(id) /\ IsFiniteSet(new) /\ Grows(id, gone, new)
        /\ \A x \in new : calls'[x] = NewCall => Placed(x)' /\ Awaiting(x)' /\ Ending(x)'
    BY <1>8, FS_EmptySet
  <2> HIDE DEF gone, new
  <2> QED BY <1>2, <1>3, <1>4, <1>5, <1>6, <1>7, <2>2, <2>3, CallsAfterInside
<1>9. CASE /\ Deps[k] # <<>> /\ Level(k, 1) # {} /\ Grows(id, {}, Started(id, 1))
           /\ calls'[id].pc = "gather" /\ calls'[id].at = 1
  <2>1. 1 \in 1..Count
    <3>1. PICK j \in Level(k, 1) : TRUE
      BY <1>9
    <3>2. 1 <= Count
      BY <1>1, <3>1, NeededBefore
    <3> QED BY <3>2, CountIsNat
  <2>2. \A d \in Needed[k] : d \in Waiting[0]
    BY <1>1, NeededHolds, WaitingIs, CountIsNat
  <2>3. \A d \in Needed[k] : d \notin Waiting[1 - 1] => Settled(d)'
    <3>1. 1 - 1 = 0
      OBVIOUS
    <3> QED BY <2>2, <3>1
  <2>4. Awaiting(id)'
    <3>1. ASSUME NEW j \in Level(k, 1) PROVE Append(id, j) \in DOMAIN calls'
      BY <1>9 DEF Grows, Started
    <3> QED BY <1>4, <1>9, <2>1, <2>3, <3>1 DEF Awaiting
  <2> DEFINE gone == {}
             new == Started(id, 1)
  <2>5. Later
    BY <1>2 DEF Inside, Later
  <2>6. ASSUME NEW x \in Started(id, 1), calls'[x] = NewCall
        PROVE  Placed(x)' /\ Awaiting(x)' /\ Ending(x)'
    <3> DEFINE n == 1
    <3>1. /\ n \in Nat \ {0} /\ x \in Started(id, n)
          /\ \A d \in Needed[k] : d \notin Waiting[n - 1] => Settled(d)'
      BY <2>3, <2>6
    <3> HIDE DEF n
    <3> QED BY <1>1, <2>5, <2>6, <3>1, StartedWell
  <2>7. gone \subseteq EndedChildren(id) /\ IsFiniteSet(new) /\ Grows(id, gone, new)
        /\ \A x \in new : calls'[x] = NewCall => Placed(x)' /\ Awaiting(x)' /\ Ending(x)'
    BY <1>1, <1>9, <2>6, StartedFinite
  <2> HIDE DEF gone, new
  <2> QED BY <1>2, <1>3, <1>4, <1>5, <1>6, <1>7, <2>4, <2>7, CallsAfterInside
<1>10. k \in Resources => Deps[k] = <<>>
  BY AsyncAssumption DEF AsyncAssumption
<1> QED BY <1>4, <1>8, <1>9, <1>10

LEMMA CallsAfterLevel ==
  ASSUME CallsInv, NEW id \in DOMAIN calls, NextLevel(id)
  PROVE  CallsInv'
<1> DEFINE k == Key(id)
           n == calls[id].at + 1
<1>1. /\ Placed(id) /\ Ending(id) /\ Awaiting(id) /\ Position(id) /\ k \in Keys /\ TypeOK
      /\ calls[id] \in CallRecord
  BY PositionIs DEF CallsInv, Placed
<1>2. /\ Inside /\ closed' \in SUBSET Obj /\ path' \in [Contexts -> Seq(Keys)]
      /\ stacks' \in [Requests -> Seq(Obj \cup {NoObj})]
  BY <1>1 DEF NextLevel, Inside, TypeOK
<1>3. /\ Grows(id, EndedChildren(id), Started(id, n))
      /\ id \in DOMAIN calls' /\ calls'[id] = Gathering(calls[id], n)
  BY <1>1, TreeAfterLevel
<1>4. /\ calls[id].pc = "gather" /\ ~calls[id].cancel /\ Level(k, n) # {}
      /\ Gathered(id) /\ FailedChildren(id) = {}
  BY DEF NextLevel, At
<1>5. /\ calls[id].at \in 1..Count
      /\ \A d \in Needed[k] : d \notin Waiting[calls[id].at] => Settled(d)
  BY <1>4, LevelSettled
<1>6. n \in Nat \ {0} /\ n - 1 = calls[id].at /\ n \in 1..Count
  <2>1. n \in Nat \ {0} /\ n - 1 = calls[id].at
    BY <1>5, CountIsNat
  <2>2. PICK j \in Level(k, n) : TRUE
    BY <1>4
  <2>3. n <= Count
    <3> HIDE DEF n
    <3> QED BY <1>1, <2>1, <2>2, NeededBefore
  <2> QED BY <2>1, <2>3, CountIsNat
<1>7. /\ calls'[id] \in CallRecord /\ calls'[id].pc = "gather" /\ calls'[id].at = n
      /\ ~calls'[id].cancel
  BY <1>1, <1>3, <1>4, <1>6 DEF Gathering, CallRecord
<1>8. Placed(id)' /\ Ending(id)'
  <2>1. Placed(id)'
    BY <1>2, <1>7, StillPlaced
  <2>2. Ending(id)'
    BY <1>7 DEF Ending
  <2> QED BY <2>1, <2>2
<1>9. \A d \in Needed[k] : d \notin Waiting[n - 1] => Settled(d)'
  <2>1. \A d \in Needed[k] : Settled(d) => Settled(d)'
    BY <1>2 DEF Settled, Inside, Good, OnCycle
  <2> QED BY <1>5, <1>6, <2>1
<1>10. Awaiting(id)'
  <2>1. ASSUME NEW j \in Level(k, n) PROVE Append(id, j) \in DOMAIN calls'
    BY <1>3 DEF Grows, Started
  <2>2. k \in Registered
    BY <1>1, <1>4 DEF Awaiting
  <2> QED BY <1>6, <1>7, <1>9, <2>1, <2>2 DEF Awaiting
<1> DEFINE gone == EndedChildren(id)
           new == Started(id, n)
<1>11. \A x \in new : calls'[x] = NewCall => Placed(x)' /\ Awaiting(x)' /\ Ending(x)'
  <2>1. Later
    BY <1>2 DEF Inside, Later
  <2> HIDE DEF n
  <2> QED BY <1>1, <1>6, <1>9, <2>1, StartedWell
<1>12. gone \subseteq EndedChildren(id) /\ IsFiniteSet(new) /\ Grows(id, gone, new)
  BY <1>1, <1>3, StartedFinite
<1> HIDE DEF gone, new
<1> QED BY <1>2, <1>3, <1>8, <1>10, <1>11, <1>12, CallsAfterInside

\* A step that starts no call and keeps the rest of the tree.
LEMMA CallsAfterTurn ==
  ASSUME CallsInv, Inside, NEW id \in DOMAIN calls, NEW gone, gone \subseteq EndedChildren(id),
         Grows(id, gone, {}), id \in DOMAIN calls',
         calls'[id] \in CallRecord, Awaiting(id)', Ending(id)',
         path' = path, stacks' \in [Requests -> Seq(Obj \cup {NoObj})], closed' \in SUBSET Obj
  PROVE  CallsInv'
<1> DEFINE new == {}
<1>1. /\ IsFiniteSet(new) /\ Grows(id, gone, new)
      /\ \A x \in new : calls'[x] = NewCall => Placed(x)' /\ Awaiting(x)' /\ Ending(x)'
  BY FS_EmptySet
<1>2. Placed(id)' /\ path' \in [Contexts -> Seq(Keys)]
  BY StillPlaced DEF CallsInv, TypeOK
<1> HIDE DEF new
<1> QED BY <1>1, <1>2, CallsAfterInside

LEMMA CallsAfterFactory ==
  ASSUME CallsInv, NEW id \in DOMAIN calls, ToFactory(id)
  PROVE  CallsInv'
<1> DEFINE k == Key(id)
           n == calls[id].at + 1
<1>1. /\ Position(id) /\ Awaiting(id) /\ k \in Keys /\ TypeOK /\ calls[id] \in CallRecord
  BY PositionIs DEF CallsInv, Placed
<1>2. /\ Inside /\ closed' \in SUBSET Obj /\ path' = path
      /\ stacks' \in [Requests -> Seq(Obj \cup {NoObj})]
  BY <1>1 DEF ToFactory, Inside, TypeOK
<1>3. /\ Grows(id, EndedChildren(id), {})
      /\ id \in DOMAIN calls' /\ calls'[id] = [calls[id] EXCEPT !.pc = "factory"]
  BY <1>1, TreeAfterFactory
<1>4. /\ calls[id].pc = "gather" /\ ~calls[id].cancel /\ Level(k, n) = {}
      /\ DepSet(k) \cap Uncollected = {} /\ Gathered(id) /\ FailedChildren(id) = {}
  BY DEF ToFactory, At
<1>5. /\ calls'[id] \in CallRecord /\ calls'[id].pc = "factory" /\ ~calls'[id].cancel
  BY <1>1, <1>3, <1>4 DEF CallRecord
<1>6. \A d \in Needed[k] : Settled(d)
  <2>1. /\ calls[id].at \in 1..Count
        /\ \A d \in Needed[k] : d \notin Waiting[calls[id].at] => Settled(d)
    BY <1>4, LevelSettled
  <2>2. n \in 1..Count + 1 /\ n - 1 = calls[id].at
    BY <2>1, CountIsNat
  <2>3. Needed[k] \cap Waiting[n - 1] = {}
    BY <1>1, <1>4, <2>2, AllReleased
  <2> QED BY <2>1, <2>2, <2>3
<1>7. Awaiting(id)'
  <2>1. \A d \in Needed[k] : Settled(d)'
    BY <1>2, <1>6 DEF Settled, Inside, Good, OnCycle
  <2>2. k \in Registered
    BY <1>1, <1>4 DEF Awaiting
  <2> QED BY <1>5, <2>1, <2>2 DEF Awaiting
<1>8. Ending(id)'
  BY <1>5 DEF Ending
<1> QED BY <1>2, <1>3, <1>5, <1>7, <1>8, CallsAfterTurn

LEMMA CallsAfterUnwinds ==
  ASSUME CallsInv, NEW id \in DOMAIN calls, Unwinds(id)
  PROVE  CallsInv'
<1>1. Position(id) /\ Ending(id) /\ TypeOK /\ calls[id] \in CallRecord /\ Req(id) \in Requests
  BY PositionIs DEF CallsInv, Placed
<1>2. /\ Inside /\ closed' \in SUBSET Obj /\ path' = path
      /\ stacks' \in [Requests -> Seq(Obj \cup {NoObj})]
  BY <1>1 DEF Unwinds, Finalize, Inside, TypeOK
<1>3. /\ Grows(id, EndedChildren(id), {}) /\ id \in DOMAIN calls'
      /\ calls'[id] = Unwound(calls[id])
  BY <1>1, TreeAfterUnwinds
<1>4. calls'[id] \in CallRecord /\ calls'[id].pc = "finalize" /\ ~calls'[id].cancel
  <2> DEFINE c == calls[id]
  <2>1. c \in CallRecord /\ calls'[id] = Unwound(c)
    BY <1>1, <1>3
  <2> HIDE DEF c
  <2>2. Unwound(c) \in CallRecord /\ Unwound(c).pc = "finalize" /\ Unwound(c).cancel = FALSE
    BY <2>1, UnwoundIs DEF Unwound
  <2> QED BY <2>1, <2>2
<1>5. Req(id) \in cancelled
  <2>1. CASE calls[id].cancel
    BY <1>1, <2>1 DEF Ending
  <2>2. CASE \E c \in FailedChildren(id) : calls[c].out = "cancelled"
    <3>1. PICK c \in FailedChildren(id) : calls[c].out = "cancelled"
      BY <2>2
    <3>2. c \in DOMAIN calls /\ Front(c) = id /\ calls[c].pc = "ended"
      BY <3>1 DEF FailedChildren, EndedChildren, Children
    <3>3. Position(c) /\ Ending(c)
      BY <3>2 DEF CallsInv, Placed
    <3>4. "cancelled" \in ends[Req(id)]
      BY <3>1, <3>2, <3>3, ParentIs DEF Ending
    <3> QED BY <1>1, <3>4 DEF CallsInv, OutcomeExact
  <2> QED BY <2>1, <2>2 DEF Unwinds
<1>6. Awaiting(id)'
  BY <1>4 DEF Awaiting
<1>7. Ending(id)'
  BY <1>2, <1>4, <1>5 DEF Ending, Inside
<1> QED BY <1>2, <1>3, <1>4, <1>6, <1>7, CallsAfterTurn

LEMMA CallsAfterClose ==
  ASSUME CallsInv, NEW id \in DOMAIN calls, Close(id)
  PROVE  CallsInv'
<1> DEFINE q == Req(id)
           n == calls[id].at + 1
<1>1. /\ Position(id) /\ Ending(id) /\ TypeOK /\ calls[id] \in CallRecord /\ q \in Requests
      /\ stacks[q] \in Seq(Obj \cup {NoObj})
  BY PositionIs DEF CallsInv, Placed, TypeOK
<1>2. Inside /\ path' = path
  BY DEF Close, Inside
<1>3. /\ Grows(id, {}, {}) /\ id \in DOMAIN calls'
      /\ calls[id].pc = "finalize" /\ n <= Len(stacks[q])
      /\ calls'[id] \in CallRecord /\ calls'[id].pc = "finalize"
      /\ calls'[id].cancel = calls[id].cancel
  BY <1>1, TreeAfterClose
<1>4. n \in 1..Len(stacks[q])
  <2>1. calls[id].at \in Nat /\ Len(stacks[q]) \in Nat
    BY <1>1, LenProperties DEF CallRecord
  <2> QED BY <1>3, <2>1
<1>5. closed' \in SUBSET Obj
  <2>1. stacks[q][n] \in Obj \cup {NoObj}
    BY <1>1, <1>4, ElementOfSeq
  <2>2. closed' = closed \cup ({stacks[q][n]} \ {NoObj})
    BY DEF Close
  <2> QED BY <1>1, <2>1, <2>2 DEF TypeOK
<1>6. stacks' \in [Requests -> Seq(Obj \cup {NoObj})]
  <2> DEFINE s == stacks[q]
             t == [s EXCEPT ![n] = NoObj]
  <2>1. Len(s) \in Nat /\ s \in [1..Len(s) -> Obj \cup {NoObj}]
    BY <1>1, LenProperties
  <2>2. t \in [1..Len(s) -> Obj \cup {NoObj}]
    BY <2>1
  <2>3. t \in Seq(Obj \cup {NoObj})
    <3> HIDE DEF t
    <3> QED BY <2>1, <2>2, SeqDef
  <2>4. stacks' = [stacks EXCEPT ![q] = t]
    BY DEF Close
  <2> HIDE DEF t
  <2> QED BY <1>1, <2>3, <2>4 DEF TypeOK
<1>7. Awaiting(id)'
  BY <1>3 DEF Awaiting
<1>8. Ending(id)'
  BY <1>1, <1>2, <1>3 DEF Ending, Inside
<1> DEFINE gone == {}
<1>9. gone \subseteq EndedChildren(id) /\ Grows(id, gone, {})
  BY <1>3
<1> HIDE DEF gone
<1> QED BY <1>2, <1>3, <1>5, <1>6, <1>7, <1>8, <1>9, CallsAfterTurn

\* A call that stays where it is while nothing leaves the tree.
LEMMA StaysPut ==
  ASSUME CallsInv, Later, DOMAIN calls \subseteq DOMAIN calls', NEW x \in DOMAIN calls,
         calls'[x] \in CallRecord,
         calls'[x].pc = calls[x].pc, calls'[x].at = calls[x].at, calls'[x].out = calls[x].out,
         calls'[x].cancel => /\ Req(x) \in cancelled'
                             /\ calls[x].pc \notin {"ended", "finalize"}
  PROVE  Placed(x)' /\ Awaiting(x)' /\ Ending(x)'
<1>1. /\ Placed(x) /\ Awaiting(x) /\ Ending(x) /\ Key(x) \in Keys /\ Req(x) \in Requests
      /\ Needed[Key(x)] \subseteq Keys
  BY PositionIs, NeededHolds DEF CallsInv, Placed
<1>2. \A d \in Needed[Key(x)] : Settled(d) => Settled(d)'
  BY <1>1, StillSettled
<1>3. Settled(Key(x)) => Settled(Key(x))'
  BY <1>1, StillSettled
<1>4. Placed(x)'
  <2>1. Graph(Req(x))' = Graph(Req(x))
    BY DEF Graph, Later
  <2>2. single[Key(x)] # NoObj => single'[Key(x)] # NoObj
    BY <1>1 DEF Later
  <2> QED BY <1>1, <1>2, <2>1, <2>2 DEF Placed, Later
<1>5. Awaiting(x)'
  BY <1>1, <1>2 DEF Awaiting
<1>6. Ending(x)'
  BY <1>1, <1>3 DEF Ending, Later
<1> QED BY <1>4, <1>5, <1>6

LEMMA CallsAfterRequest ==
  ASSUME CallsInv, NEW q \in Requests, Request(q)
  PROVE  CallsInv'
<1> DEFINE root == <<q, asked[q]>>
<1>1. TypeOK /\ asked[q] \in Keys
  BY AsyncAssumption DEF CallsInv, TypeOK, AsyncAssumption
<1>2. Position(root) /\ Req(root) = q /\ Key(root) = asked[q] /\ IsRoot(root) /\ Len(root) = 2
      /\ root[2] = asked[q]
  <2>1. q \in Names /\ asked[q] \in Names
    BY <1>1 DEF Names
  <2>2. root \in Seq(Names) /\ Len(root) = 2 /\ root[1] = q /\ root[2] = asked[q]
    BY <2>1
  <2> HIDE DEF root
  <2>3. Position(root)
    <3>1. ASSUME NEW i \in 2..Len(root) PROVE root[i] \in Keys
      <4>1. i = 2
        BY <2>2
      <4> QED BY <1>1, <2>2, <4>1
    <3> QED BY <2>2, <3>1 DEF Position
  <2> QED BY <2>2, <2>3, PositionIs DEF IsRoot
<1>3. /\ DOMAIN calls' = DOMAIN calls \cup {root}
      /\ \A x \in DOMAIN calls : calls'[x] = calls[x]
      /\ root \notin DOMAIN calls => calls'[root] = NewCall
  BY DEF Request
<1>4. /\ UNCHANGED <<asked, single, path, stacks, closed, made, handed, ends, cancelled>>
      /\ outcome' = [outcome EXCEPT ![q] = "running"]
      /\ alone' = (alone /\ \A p \in Requests : outcome[p] # "running")
  BY DEF Request
<1>5. Later
  BY <1>4 DEF Later
<1> HIDE DEF root
<1>6. ASSUME NEW x \in DOMAIN calls' PROVE Placed(x)' /\ Awaiting(x)' /\ Ending(x)'
  <2>1. CASE x \in DOMAIN calls
    <3>1. Ending(x) /\ calls[x] \in CallRecord
      BY <2>1 DEF CallsInv, Placed
    <3>2. calls[x].cancel => Req(x) \in cancelled' /\ calls[x].pc \notin {"ended", "finalize"}
      BY <1>4, <3>1 DEF Ending
    <3> QED BY <1>3, <1>5, <2>1, <3>1, <3>2, StaysPut
  <2>2. CASE x = root /\ x \notin DOMAIN calls
    <3>1. calls'[x] = NewCall
      BY <1>3, <2>2
    <3>2. asked[q] \in Graph(q)'
      BY <1>4 DEF Graph
    <3>3. Position(x) /\ Len(x) = 2 /\ x[2] = asked'[Req(x)] /\ Key(x) \in Graph(Req(x))'
      BY <1>2, <1>4, <2>2, <3>2
    <3>4. ~(Len(x) > 3) /\ IsRoot(x)
      BY <3>3 DEF IsRoot
    <3>5. Placed(x)'
      BY <3>1, <3>3, <3>4, NewCallIs DEF Placed
    <3> QED BY <3>1, <3>5, NewCallIs DEF Awaiting, Ending
  <2> QED BY <1>3, <2>1, <2>2
<1>7. IsFiniteSet(DOMAIN calls')
  BY <1>3, FS_AddElement DEF CallsInv
<1>8. outcome' \in [Requests -> Results \cup {"idle", "running"}]
  BY <1>1, <1>4 DEF TypeOK
<1>9. \A p \in Requests : outcome'[p] = "ok" => outcome[p] = "ok"
  BY <1>1, <1>4 DEF TypeOK
<1>10. OutcomeExact'
  BY <1>4, <1>9 DEF CallsInv, OutcomeExact, Graph, OnCycle
<1>11. /\ single' \in [Keys -> Obj \cup {NoObj}] /\ \A k \in Keys : single'[k] # NoObj => Good(k)
       /\ \A p \in Requests : outcome'[p] = "ok" => Good(asked[p])
  BY <1>1, <1>4, <1>9 DEF CallsInv, TypeOK
<1>12. /\ path' \in [Contexts -> Seq(Keys)] /\ stacks' \in [Requests -> Seq(Obj \cup {NoObj})]
       /\ closed' \in SUBSET Obj /\ made' \in [Keys -> Nat] /\ handed' \in [Keys -> SUBSET Obj]
       /\ ends' \in [Requests -> SUBSET Results] /\ cancelled' \in SUBSET Requests
       /\ asked' = asked
  BY <1>1, <1>4 DEF TypeOK
<1>13. alone' \in BOOLEAN
  BY <1>1, <1>4 DEF TypeOK
<1> QED BY <1>6, <1>7, <1>8, <1>10, <1>11, <1>12, <1>13, CallsTyped

\* The flag is the only field of a call that Cancel changes.
LEMMA Flagged ==
  ASSUME NEW c \in CallRecord
  PROVE  LET d == [c EXCEPT !.cancel = TRUE]
         IN /\ d \in CallRecord /\ d.cancel
            /\ d.pc = c.pc /\ d.at = c.at /\ d.out = c.out /\ d.bad = c.bad
BY DEF CallRecord

LEMMA TreeAfterCancel ==
  ASSUME CallsInv, NEW q \in Requests, Cancel(q)
  PROVE  /\ DOMAIN calls' = DOMAIN calls
         /\ \A x \in DOMAIN calls :
              /\ calls'[x] \in CallRecord
              /\ calls'[x].pc = calls[x].pc /\ calls'[x].at = calls[x].at
              /\ calls'[x].out = calls[x].out
              /\ x \in Lands(q) => calls'[x].cancel
              /\ x \notin Lands(q) => calls'[x] = calls[x]
<1>1. calls' = [x \in DOMAIN calls |->
                  IF x \in Lands(q) THEN [calls[x] EXCEPT !.cancel = TRUE] ELSE calls[x]]
  BY DEF Cancel
<1>2. ASSUME NEW x \in DOMAIN calls
      PROVE  /\ calls'[x] \in CallRecord
             /\ calls'[x].pc = calls[x].pc /\ calls'[x].at = calls[x].at
             /\ calls'[x].out = calls[x].out
             /\ x \in Lands(q) => calls'[x].cancel
             /\ x \notin Lands(q) => calls'[x] = calls[x]
  <2> DEFINE c == calls[x]
  <2>1. c \in CallRecord
    BY DEF CallsInv, Placed
  <2>2. x \in Lands(q) => calls'[x] = [c EXCEPT !.cancel = TRUE]
    BY <1>1
  <2>3. x \notin Lands(q) => calls'[x] = c
    BY <1>1
  <2>4. calls[x] = c
    OBVIOUS
  <2> HIDE DEF c
  <2> QED BY <2>1, <2>2, <2>3, <2>4, Flagged
<1> QED BY <1>1, <1>2

LEMMA CallsAfterCancel ==
  ASSUME CallsInv, NEW q \in Requests, Cancel(q)
  PROVE  CallsInv'
<1>1. /\ UNCHANGED <<asked, single, path, stacks, closed, outcome, made, handed, ends, alone>>
      /\ cancelled' = cancelled \cup {q} /\ q \notin cancelled
  BY DEF Cancel
<1>2. Later
  BY <1>1 DEF Later
<1>3. /\ DOMAIN calls' = DOMAIN calls
      /\ \A x \in DOMAIN calls :
           /\ calls'[x] \in CallRecord
           /\ calls'[x].pc = calls[x].pc /\ calls'[x].at = calls[x].at
           /\ calls'[x].out = calls[x].out
           /\ x \notin Lands(q) => calls'[x] = calls[x]
  BY TreeAfterCancel
<1>4. ASSUME NEW x \in DOMAIN calls' PROVE Placed(x)' /\ Awaiting(x)' /\ Ending(x)'
  <2>1. x \in DOMAIN calls /\ Ending(x)
    BY <1>3 DEF CallsInv
  <2>2. x \in Lands(q) => Req(x) = q /\ calls[x].pc # "ended"
    BY DEF Lands
  <2>3. calls'[x].cancel => Req(x) \in cancelled' /\ calls[x].pc \notin {"ended", "finalize"}
    BY <1>1, <1>3, <2>1, <2>2 DEF Ending
  <2> QED BY <1>2, <1>3, <2>1, <2>3, StaysPut
<1>5. TypeOK /\ OutcomeExact /\ IsFiniteSet(DOMAIN calls')
  BY <1>3 DEF CallsInv
<1>6. OutcomeExact'
  BY <1>1, <1>5 DEF OutcomeExact, Graph, OnCycle
<1>7. /\ single' \in [Keys -> Obj \cup {NoObj}] /\ \A k \in Keys : single'[k] # NoObj => Good(k)
      /\ \A p \in Requests : outcome'[p] = "ok" => Good(asked[p])
  BY <1>1, <1>5 DEF CallsInv, TypeOK
<1>8. /\ path' \in [Contexts -> Seq(Keys)] /\ stacks' \in [Requests -> Seq(Obj \cup {NoObj})]
      /\ closed' \in SUBSET Obj /\ outcome' \in [Requests -> Results \cup {"idle", "running"}]
      /\ made' \in [Keys -> Nat] /\ handed' \in [Keys -> SUBSET Obj]
      /\ ends' \in [Requests -> SUBSET Results] /\ cancelled' \in SUBSET Requests
      /\ alone' \in BOOLEAN /\ asked' = asked
  BY <1>1, <1>5 DEF TypeOK
<1> QED BY <1>4, <1>5, <1>6, <1>7, <1>8, CallsTyped

-----------------------------------------------------------------------------
(* Every step keeps the invariant *)

LEMMA CallsAtFirst == Init => CallsInv
<1> SUFFICES ASSUME Init PROVE CallsInv
  OBVIOUS
<1>1. DOMAIN calls = {}
  BY DEF Init
<1>2. TypeOK
  <2>1. asked \in Asks /\ single \in [Keys -> Obj \cup {NoObj}] /\ path \in [Contexts -> Seq(Keys)]
    BY DEF Init
  <2>2. /\ stacks \in [Requests -> Seq(Obj \cup {NoObj})] /\ closed \in SUBSET Obj
        /\ outcome \in [Requests -> Results \cup {"idle", "running"}]
    BY DEF Init
  <2>3. /\ made \in [Keys -> Nat] /\ handed \in [Keys -> SUBSET Obj]
        /\ ends \in [Requests -> SUBSET Results] /\ cancelled \in SUBSET Requests
        /\ alone \in BOOLEAN
    BY DEF Init
  <2> QED BY <1>1, <2>1, <2>2, <2>3 DEF TypeOK
<1>3. IsFiniteSet(DOMAIN calls)
  BY <1>1, FS_EmptySet
<1>4. OutcomeExact
  BY DEF Init, OutcomeExact
<1>5. \A k \in Keys : single[k] = NoObj
  BY DEF Init
<1>6. \A q \in Requests : outcome[q] = "idle"
  BY DEF Init
<1> QED BY <1>1, <1>2, <1>3, <1>4, <1>5, <1>6 DEF CallsInv

LEMMA CallsAfterTurns ==
  ASSUME CallsInv, NEW id \in DOMAIN calls, Turns(id)
  PROVE  CallsInv'
<1>1. CASE \E r \in Results : Ends(id, r)
  BY <1>1, CallsAfterEnd
<1>2. CASE Enter(id)
  BY <1>2, CallsAfterEnter
<1>3. CASE NextLevel(id)
  BY <1>3, CallsAfterLevel
<1>4. CASE ToFactory(id)
  BY <1>4, CallsAfterFactory
<1>5. CASE Unwinds(id)
  BY <1>5, CallsAfterUnwinds
<1>6. CASE Close(id)
  BY <1>6, CallsAfterClose
<1> QED BY <1>1, <1>2, <1>3, <1>4, <1>5, <1>6 DEF Turns

\* Each step, as what some call does, or the application.
LEMMA Steps ==
  ASSUME CallsInv, [Next]_vars
  PROVE  \/ UNCHANGED vars
         \/ \E q \in Requests : Request(q) \/ Cancel(q)
         \/ \E id \in DOMAIN calls : Turns(id)
<1>1. ASSUME NEW q \in Requests, Advance(q) PROVE \E id \in DOMAIN calls : Turns(id)
  <2>1. \A id \in DOMAIN calls : calls[id] \in CallRecord /\ (calls[id].cancel => calls[id].pc # "ended")
    BY DEF CallsInv, Placed, Ending
  <2>2. \E id \in Tree(q) : Turns(id)
    BY <1>1, <2>1, StepForms
  <2> QED BY <2>2 DEF Tree
<1> QED BY <1>1 DEF Next

LEMMA CallsStutter ==
  ASSUME CallsInv, UNCHANGED vars
  PROVE  CallsInv'
BY DEF vars, CallsInv, TypeOK, OutcomeExact, Placed, Awaiting, Ending, Settled, Good, Graph,
       Position, Children, OnCycle, IsRoot, Req, Key

LEMMA CallsKept ==
  ASSUME CallsInv, [Next]_vars
  PROVE  CallsInv'
BY Steps, CallsStutter, CallsAfterRequest, CallsAfterCancel, CallsAfterTurns

LEMMA CallsAlways == Spec => []CallsInv
<1>1. CallsInv /\ [Next]_vars => CallsInv'
  BY CallsKept
<1> QED BY <1>1, CallsAtFirst, PTL DEF Spec

\* Every variable keeps its type, however the calls interleave.
THEOREM AsyncTypes == Spec => []TypeOK
<1>1. CallsInv => TypeOK
  BY DEF CallsInv
<1> QED BY <1>1, CallsAlways, PTL

\* A request succeeds only with a rule for all it needs and without a cycle,
\* and is refused as missing, left without a dependency, or cancelled, only
\* for cause.
THEOREM OutcomesAreExact == Spec => []OutcomeExact
<1>1. CallsInv => OutcomeExact
  BY DEF CallsInv
<1> QED BY <1>1, CallsAlways, PTL

\* A call of a later level finds every singleton it depends on cached.
THEOREM LevelsComeInOrder == Spec => []LevelsInOrder
<1>1. CallsInv => LevelsInOrder
  <2> SUFFICES ASSUME CallsInv, NEW id \in DOMAIN calls, calls[id].pc = "ready", ~IsRoot(id),
                      NEW d \in DepSet(Key(id)) \cap Singletons
               PROVE  single[d] # NoObj
    BY DEF LevelsInOrder
  <2>1. Placed(id) /\ Key(id) \in Keys
    BY PositionIs DEF CallsInv, Placed
  <2>2. d \in Needed[Key(id)]
    BY <2>1, NeededHolds
  <2> QED BY <2>1, <2>2 DEF Placed, Settled
<1> QED BY <1>1, CallsAlways, PTL

-----------------------------------------------------------------------------
(* The resolution path: one entry per call that entered and has not left *)

PathInv == CallsInv /\ PathDrains

LEMMA EnteredFinite ==
  ASSUME CallsInv, NEW c
  PROVE  IsFiniteSet(Entered(c))
<1>1. Entered(c) \subseteq DOMAIN calls
  BY DEF Entered
<1> QED BY <1>1, FS_Subset DEF CallsInv

\* A step of id leaves the other calls on the path, or off it.
LEMMA EnteredOthers ==
  ASSUME CallsInv, NEW id \in DOMAIN calls, NEW gone \in SUBSET Gone(id), NEW new,
         Grows(id, gone, new), NEW c \in Contexts
  PROVE  Entered(c)' \ {id} = Entered(c) \ {id}
<1>1. ASSUME NEW x \in Entered(c), x # id PROVE x \in Entered(c)'
  <2>1. x \in DOMAIN calls /\ calls[x].pc # "ended"
    BY DEF Entered
  <2>2. x \in DOMAIN calls \ gone
    BY <1>1, <2>1 DEF Gone, EndedChildren
  <2>3. x \in DOMAIN calls' /\ calls'[x] = calls[x]
    BY <1>1, <2>2 DEF Grows
  <2> QED BY <2>3 DEF Entered
<1>2. ASSUME NEW x \in Entered(c)', x # id PROVE x \in Entered(c)
  <2>1. x \in DOMAIN calls' /\ calls'[x].pc # "ready"
    BY DEF Entered
  <2>2. x \in DOMAIN calls \ gone
    BY <2>1, NewCallIs DEF Grows
  <2>3. calls'[x] = calls[x]
    BY <1>2, <2>2 DEF Grows
  <2> QED BY <2>2, <2>3 DEF Entered
<1> QED BY <1>1, <1>2

OffPath(call) == call.pc \in {"ready", "ended"}
LEMMA OnOrOff ==
  ASSUME CallsInv, NEW id \in DOMAIN calls, NEW c
  PROVE  id \in Entered(c) <=> c = Context[Req(id)] /\ ~OffPath(calls[id])
<1>1. calls[id] \in CallRecord
  BY DEF CallsInv, Placed
<1>2. calls[id].pc \in {"ready", "gather", "factory", "open", "finalize", "ended"}
  BY <1>1 DEF CallRecord
<1> QED BY <1>2 DEF Entered, OffPath

\* A step that leaves the call and the paths as they were.
LEMMA PathUntouched ==
  ASSUME PathInv, CallsInv', path' = path, NEW id \in DOMAIN calls, NEW gone \in SUBSET Gone(id),
         NEW new, Grows(id, gone, new),
         IF id \in DOMAIN calls' THEN OffPath(calls'[id]) <=> OffPath(calls[id])
                                 ELSE OffPath(calls[id])
  PROVE  PathInv'
<1>1. ASSUME NEW c \in Contexts PROVE Entered(c)' = Entered(c)
  <2>1. Entered(c)' \ {id} = Entered(c) \ {id}
    BY EnteredOthers DEF PathInv
  <2>2. id \in Entered(c) <=> c = Context[Req(id)] /\ ~OffPath(calls[id])
    BY OnOrOff DEF PathInv
  <2>3. id \in DOMAIN calls' => (id \in Entered(c)' <=> c = Context[Req(id)] /\ ~OffPath(calls'[id]))
    <3>1. id \in DOMAIN calls' => calls'[id] \in CallRecord
      BY DEF CallsInv, Placed
    <3>2. id \in DOMAIN calls'
            => calls'[id].pc \in {"ready", "gather", "factory", "open", "finalize", "ended"}
      BY <3>1 DEF CallRecord
    <3> QED BY <3>2 DEF Entered, OffPath
  <2>4. id \notin DOMAIN calls' => id \notin Entered(c)'
    BY DEF Entered
  <2> QED BY <2>1, <2>2, <2>3, <2>4
<1> QED BY <1>1 DEF PathInv, PathDrains

LEMMA FrontShorter ==
  ASSUME NEW s \in Seq(Keys), Len(s) # 0
  PROVE  Len(Front(s)) = Len(s) - 1
<1>1. Len(s) \in Nat /\ 1 \in Int /\ Len(s) - 1 \in Int /\ 1 <= Len(s)
  BY LenProperties
<1>2. \A i \in 1..Len(s) - 1 : s[i] \in Keys
  <2>1. \A i \in 1..Len(s) - 1 : i \in 1..Len(s)
    BY <1>1
  <2> QED BY <2>1, ElementOfSeq
<1>3. Len(SubSeq(s, 1, Len(s) - 1)) = IF 1 <= Len(s) - 1 THEN (Len(s) - 1) - 1 + 1 ELSE 0
  BY <1>1, <1>2, SubSeqProperties
<1> DEFINE m == Len(s)
           t == SubSeq(s, 1, Len(s) - 1)
<1>4. m \in Nat /\ m >= 1 /\ Len(t) = IF 1 <= m - 1 THEN (m - 1) - 1 + 1 ELSE 0
  BY <1>1, <1>3
<1>5. Len(t) = m - 1
  <2> HIDE DEF m, t
  <2> QED BY <1>4
<1>6. Front(s) = t /\ Len(s) = m
  BY DEF Front
<1> HIDE DEF m, t
<1> QED BY <1>5, <1>6

LEMMA PathAfterEnd ==
  ASSUME PathInv, CallsInv', NEW id \in DOMAIN calls, NEW r \in Results, Ends(id, r)
  PROVE  PathInv'
<1> DEFINE c0 == Context[Req(id)]
<1>1. Position(id) /\ c0 \in Contexts /\ CallsInv /\ path[c0] \in Seq(Keys)
      /\ path \in [Contexts -> Seq(Keys)]
  BY PositionIs DEF PathInv, CallsInv, Placed, TypeOK
<1>2. /\ Grows(id, Gone(id), {})
      /\ Awaited(id) => id \in DOMAIN calls' /\ calls'[id] = Fin(r)
      /\ ~Awaited(id) => id \notin DOMAIN calls'
  BY <1>1, TreeAfterLeave DEF Ends, Gone
<1>3. calls[id].pc # "ended"
  BY DEF Ends
<1>4. CASE calls[id].pc = "ready"
  <2>1. path' = path
    BY <1>4 DEF Ends, Leave
  <2>2. OffPath(calls[id]) /\ (id \in DOMAIN calls' => OffPath(calls'[id]))
    BY <1>2, <1>4 DEF OffPath, Fin
  <2> QED BY <1>2, <2>1, <2>2, PathUntouched
<1>5. CASE calls[id].pc # "ready"
  <2>1. path' = [path EXCEPT ![c0] = Front(@)]
    BY <1>5 DEF Ends, Leave
  <2>2. ~OffPath(calls[id])
    BY <1>3, <1>5 DEF OffPath
  <2>3. ASSUME NEW c \in Contexts PROVE id \notin Entered(c)'
    BY <1>2 DEF Entered, Fin
  <2>4. ASSUME NEW c \in Contexts PROVE Entered(c)' = Entered(c) \ {id}
    <3>1. Entered(c)' \ {id} = Entered(c) \ {id}
      BY <1>1, <1>2, EnteredOthers
    <3> QED BY <3>1, <2>3
  <2>5. ASSUME NEW c \in Contexts, c # c0 PROVE Len(path'[c]) = Cardinality(Entered(c)')
    <3>1. id \notin Entered(c)
      BY <1>1, <2>5, OnOrOff
    <3> QED BY <1>1, <2>1, <2>4, <2>5, <3>1 DEF PathInv, PathDrains
  <2>6. Len(path'[c0]) = Cardinality(Entered(c0)')
    <3>1. id \in Entered(c0) /\ IsFiniteSet(Entered(c0))
      BY <1>1, <2>2, OnOrOff, EnteredFinite
    <3>2. Cardinality(Entered(c0) \ {id}) = Cardinality(Entered(c0)) - 1
      BY <3>1, FS_RemoveElement
    <3>3. Cardinality(Entered(c0)) # 0
      BY <3>1, FS_EmptySet
    <3>4. Len(path[c0]) = Cardinality(Entered(c0))
      BY <1>1 DEF PathInv, PathDrains
    <3>5. Len(Front(path[c0])) = Len(path[c0]) - 1
      BY <1>1, <3>3, <3>4, FrontShorter
    <3>6. Entered(c0)' = Entered(c0) \ {id}
      BY <1>1, <2>4
    <3>7. path'[c0] = Front(path[c0])
      BY <1>1, <2>1
    <3> QED BY <3>2, <3>4, <3>5, <3>6, <3>7
  <2> QED BY <2>5, <2>6 DEF PathInv, PathDrains
<1> QED BY <1>4, <1>5

LEMMA PathAfterEnter ==
  ASSUME PathInv, CallsInv', NEW id \in DOMAIN calls, Enter(id)
  PROVE  PathInv'
<1> DEFINE c0 == Context[Req(id)]
           k == Key(id)
<1>1. /\ Position(id) /\ c0 \in Contexts /\ CallsInv /\ path[c0] \in Seq(Keys) /\ k \in Keys
      /\ path \in [Contexts -> Seq(Keys)] /\ calls[id] \in CallRecord
      /\ stacks \in [Requests -> Seq(Obj \cup {NoObj})]
  BY PositionIs DEF PathInv, CallsInv, Placed, TypeOK
<1>2. /\ calls[id].pc = "ready" /\ id \in DOMAIN calls'
      /\ calls'[id].pc \in {"open", "factory", "gather"}
      /\ Grows(id, {}, {}) \/ Grows(id, {}, Started(id, 1))
  BY <1>1, TreeAfterEnter
<1>3. ASSUME NEW c \in Contexts PROVE Entered(c)' \ {id} = Entered(c) \ {id}
  <2> DEFINE gone == {}
             none == {}
             some == Started(id, 1)
  <2>1. gone \in SUBSET Gone(id) /\ (Grows(id, gone, none) \/ Grows(id, gone, some))
    BY <1>2
  <2> HIDE DEF gone, none, some
  <2> QED BY <1>1, <2>1, EnteredOthers
<1>4. ASSUME NEW c \in Contexts PROVE /\ id \notin Entered(c)
                                      /\ id \in Entered(c)' <=> c = c0
  BY <1>2 DEF Entered
<1>5. path' = [path EXCEPT ![c0] = Append(@, k)]
  BY DEF Enter, EnterPath
<1>6. ASSUME NEW c \in Contexts, c # c0 PROVE Len(path'[c]) = Cardinality(Entered(c)')
  <2>1. Entered(c)' = Entered(c)
    BY <1>3, <1>4, <1>6
  <2> QED BY <1>1, <1>5, <1>6, <2>1 DEF PathInv, PathDrains
<1>7. Len(path'[c0]) = Cardinality(Entered(c0)')
  <2>1. Entered(c0)' = Entered(c0) \cup {id} /\ id \notin Entered(c0)
    BY <1>1, <1>3, <1>4
  <2>2. Cardinality(Entered(c0) \cup {id}) = Cardinality(Entered(c0)) + 1
    BY <1>1, <2>1, EnteredFinite, FS_AddElement
  <2>3. Len(path[c0]) = Cardinality(Entered(c0))
    BY <1>1 DEF PathInv, PathDrains
  <2>4. Len(Append(path[c0], k)) = Len(path[c0]) + 1
    BY <1>1, AppendProperties
  <2>5. path'[c0] = Append(path[c0], k)
    BY <1>1, <1>5
  <2> QED BY <2>1, <2>2, <2>3, <2>4, <2>5
<1> QED BY <1>6, <1>7 DEF PathInv, PathDrains

LEMMA PathKept ==
  ASSUME PathInv, [Next]_vars
  PROVE  PathInv'
<1>1. CallsInv /\ CallsInv'
  BY CallsKept DEF PathInv
<1>2. CASE UNCHANGED vars
  BY <1>1, <1>2 DEF vars, PathInv, PathDrains, Entered
<1>3. ASSUME NEW q \in Requests, Request(q) PROVE PathInv'
  <2>1. /\ DOMAIN calls' = DOMAIN calls \cup {<<q, asked[q]>>} /\ path' = path
        /\ \A x \in DOMAIN calls : calls'[x] = calls[x]
        /\ \A x \in DOMAIN calls' \ DOMAIN calls : calls'[x] = NewCall
    BY <1>3 DEF Request
  <2>2. ASSUME NEW c \in Contexts PROVE Entered(c)' = Entered(c)
    <3>1. ASSUME NEW x \in Entered(c)' PROVE x \in Entered(c)
      <4>1. x \in DOMAIN calls' /\ calls'[x].pc # "ready"
        BY DEF Entered
      <4>2. x \in DOMAIN calls
        BY <2>1, <4>1, NewCallIs
      <4> QED BY <2>1, <4>2 DEF Entered
    <3>2. ASSUME NEW x \in Entered(c) PROVE x \in Entered(c)'
      BY <2>1 DEF Entered
    <3> QED BY <3>1, <3>2
  <2> QED BY <1>1, <2>1, <2>2 DEF PathInv, PathDrains
<1>4. ASSUME NEW q \in Requests, Cancel(q) PROVE PathInv'
  <2>1. /\ DOMAIN calls' = DOMAIN calls /\ \A x \in DOMAIN calls : calls'[x].pc = calls[x].pc
    BY <1>1, <1>4, TreeAfterCancel
  <2>2. path' = path
    BY <1>4 DEF Cancel
  <2>3. \A c \in Contexts : Entered(c)' = Entered(c)
    BY <2>1 DEF Entered
  <2> QED BY <1>1, <2>2, <2>3 DEF PathInv, PathDrains
<1>5. ASSUME NEW id \in DOMAIN calls, Turns(id) PROVE PathInv'
  <2>0. Position(id) /\ calls[id] \in CallRecord
    BY <1>1 DEF CallsInv, Placed
  <2>1. CASE \E r \in Results : Ends(id, r)
    BY <1>1, <2>1, PathAfterEnd
  <2>2. CASE Enter(id)
    BY <1>1, <2>2, PathAfterEnter
  <2>3. CASE NextLevel(id)
    <3>1. /\ Grows(id, EndedChildren(id), Started(id, calls[id].at + 1))
          /\ id \in DOMAIN calls' /\ calls'[id] = Gathering(calls[id], calls[id].at + 1)
      BY <2>0, <2>3, TreeAfterLevel
    <3>2. calls[id].pc = "gather" /\ calls'[id].pc = "gather" /\ path' = path
      BY <2>3, <3>1 DEF NextLevel, At, Gathering
    <3> QED BY <1>1, <3>1, <3>2, PathUntouched DEF Gone, OffPath
  <2>4. CASE ToFactory(id)
    <3>1. /\ Grows(id, EndedChildren(id), {})
          /\ id \in DOMAIN calls' /\ calls'[id] = [calls[id] EXCEPT !.pc = "factory"]
      BY <2>0, <2>4, TreeAfterFactory
    <3>2. calls[id].pc = "gather" /\ calls'[id].pc = "factory" /\ path' = path
      BY <2>0, <2>4, <3>1 DEF ToFactory, At, CallRecord
    <3> QED BY <1>1, <3>1, <3>2, PathUntouched DEF Gone, OffPath
  <2>5. CASE Unwinds(id)
    <3>1. /\ Grows(id, EndedChildren(id), {})
          /\ id \in DOMAIN calls' /\ calls'[id] = Unwound(calls[id])
      BY <2>0, <2>5, TreeAfterUnwinds
    <3>2. ~OffPath(calls[id])
      <4>1. Ending(id)
        BY <1>1 DEF CallsInv
      <4> QED BY <2>5, <4>1 DEF Unwinds, At, Ending, OffPath
    <3>3. ~OffPath(calls'[id]) /\ path' = path
      BY <2>5, <3>1 DEF Unwound, Unwinds, Finalize, OffPath
    <3> QED BY <1>1, <3>1, <3>2, <3>3, PathUntouched DEF Gone
  <2>6. CASE Close(id)
    <3>1. /\ Grows(id, {}, {}) /\ id \in DOMAIN calls'
          /\ calls[id].pc = "finalize" /\ calls'[id].pc = "finalize"
      BY <2>0, <2>6, TreeAfterClose
    <3>2. path' = path
      BY <2>6 DEF Close
    <3> DEFINE gone == {}
    <3>3. gone \in SUBSET Gone(id) /\ Grows(id, gone, {})
      BY <3>1
    <3> HIDE DEF gone
    <3> QED BY <1>1, <3>1, <3>2, <3>3, PathUntouched DEF OffPath
  <2> QED BY <1>5, <2>1, <2>2, <2>3, <2>4, <2>5, <2>6 DEF Turns
<1> QED BY <1>1, <1>2, <1>3, <1>4, <1>5, Steps

\* Nothing stays behind on a resolution path: its length is the number of
\* calls that have entered and not left.
THEOREM PathsDrain == Spec => []PathDrains
<1>1. Init => PathInv
  <2> SUFFICES ASSUME Init PROVE PathDrains
    BY CallsAtFirst DEF PathInv
  <2>1. \A c \in Contexts : Entered(c) = {} /\ path[c] = <<>>
    BY DEF Init, Entered
  <2> QED BY <2>1, FS_EmptySet DEF PathDrains
<1>2. PathInv /\ [Next]_vars => PathInv'
  BY PathKept
<1>3. PathInv => PathDrains
  BY DEF PathInv
<1> QED BY <1>1, <1>2, <1>3, PTL DEF Spec

-----------------------------------------------------------------------------
(* The shape of a tree in which nothing has gone wrong yet *)

Clean(q) == ends[q] \subseteq {"ok"}
Waits(up) == up \in DOMAIN calls /\ calls[up].pc = "gather"
\* Whoever started a call waits for it: nothing runs on without a caller.
Attached ==
  \A id \in DOMAIN calls :
    Clean(Req(id)) => \A n \in 2..Len(id) - 1 : Waits(SubSeq(id, 1, n))
CancelledGather ==
  \A id \in DOMAIN calls :
    Clean(Req(id)) /\ calls[id].cancel /\ calls[id].pc = "gather"
      => Children(id) = EndedChildren(id)
Fresh ==
  /\ \A q \in Requests :
       outcome[q] = "idle" => Tree(q) = {} /\ stacks[q] = <<>> /\ ends[q] = {}
  /\ \A id \in DOMAIN calls :
       IsRoot(id) /\ calls[id].pc = "ready"
         => Tree(Req(id)) = {id} /\ stacks[Req(id)] = <<>> /\ ends[Req(id)] = {}
TreeInv == CallsInv /\ Attached /\ CancelledGather /\ Fresh

LEMMA PrefixIs ==
  ASSUME NEW x, Position(x), NEW n \in 2..Len(x)
  PROVE  LET p == SubSeq(x, 1, n)
         IN /\ Position(p) /\ Len(p) = n /\ Req(p) = Req(x)
            /\ \A i \in 1..n : p[i] = x[i]
<1> DEFINE p == SubSeq(x, 1, n)
<1>1. Len(x) \in Nat /\ Len(x) >= 2
  BY PositionIs
<1>2. n \in Int /\ 1 <= n /\ n - 1 + 1 = n
  BY <1>1
<1>3. \A i \in 1..n : i \in 1..Len(x) /\ 1 + i - 1 = i
  BY <1>1
<1>4. \A i \in 1..n : x[i] \in Names
  BY <1>3, ElementOfSeq DEF Position
<1>5. /\ p \in Seq(Names)
      /\ Len(p) = IF 1 <= n THEN n - 1 + 1 ELSE 0
      /\ \A i \in 1..n - 1 + 1 : p[i] = x[1 + i - 1]
  BY <1>2, <1>4, SubSeqProperties
<1> HIDE DEF p
<1>6. Len(p) = n /\ \A i \in 1..n : p[i] = x[i]
  BY <1>2, <1>3, <1>5
<1>7. 1 \in 1..n /\ n > 1 /\ \A i \in 2..n : i \in 1..n /\ i \in 2..Len(x)
  BY <1>1, <1>2
<1>8. Position(p)
  BY <1>5, <1>6, <1>7 DEF Position
<1>9. Req(p) = Req(x)
  BY <1>6, <1>7, <1>8, PositionIs
<1> QED BY <1>6, <1>8, <1>9 DEF p

\* A prefix of a prefix.
LEMMA PrefixOfPrefix ==
  ASSUME NEW x, Position(x), NEW n \in 2..Len(x), NEW m \in 2..n
  PROVE  SubSeq(SubSeq(x, 1, n), 1, m) = SubSeq(x, 1, m)
<1> DEFINE p == SubSeq(x, 1, n)
           r == SubSeq(x, 1, m)
           s == SubSeq(p, 1, m)
<1>1. Len(x) \in Nat /\ m \in 2..Len(x) /\ \A i \in 1..m : i \in 1..n
  BY PositionIs
<1>2. Position(p) /\ Len(p) = n /\ \A i \in 1..n : p[i] = x[i]
  BY PrefixIs
<1>3. Position(r) /\ Len(r) = m /\ \A i \in 1..m : r[i] = x[i]
  BY <1>1, PrefixIs
<1>4. Position(s) /\ Len(s) = m /\ \A i \in 1..m : s[i] = p[i]
  <2>1. m \in 2..Len(p)
    BY <1>2
  <2> HIDE DEF p
  <2> QED BY <1>2, <2>1, PrefixIs
<1> HIDE DEF p, r, s
<1>5. \A i \in 1..Len(s) : s[i] = r[i]
  BY <1>1, <1>2, <1>3, <1>4
<1>6. s = r
  BY <1>3, <1>4, <1>5, SeqEqual DEF Position
<1> QED BY <1>6 DEF p, r, s

\* Below a call that does not wait, or waits only for calls that have ended,
\* there is nothing else.
LEMMA OnlyEndedBelow ==
  ASSUME CallsInv, Attached, NEW id \in DOMAIN calls, NEW x \in DOMAIN calls, Clean(Req(id)),
         NEW n \in 2..Len(x) - 1, SubSeq(x, 1, n) = id,
         calls[id].pc = "gather" => Children(id) = EndedChildren(id)
  PROVE  x \in EndedChildren(id) /\ calls[id].pc = "gather"
<1>1. Position(x) /\ Position(id) /\ Len(x) \in Nat
  BY PositionIs DEF CallsInv, Placed
<1>2. n \in 2..Len(x) /\ n + 1 \in 2..Len(x) /\ n \in 2..n + 1 /\ n + 1 > 2 /\ (n + 1) - 1 = n
  BY <1>1
<1>3. Req(x) = Req(id) /\ Len(id) = n
  BY <1>1, <1>2, PrefixIs
<1>4. \A m \in 2..Len(x) - 1 : Waits(SubSeq(x, 1, m))
  BY <1>3 DEF Attached
<1>5. calls[id].pc = "gather" /\ Children(id) = EndedChildren(id)
  BY <1>4 DEF Waits
<1>6. CASE n = Len(x) - 1
  <2>1. Front(x) = SubSeq(x, 1, Len(x) - 1)
    BY <1>1, FrontIs
  <2>2. Front(x) = id
    BY <1>6, <2>1
  <2>3. Len(x) > 2
    BY <1>1, <1>6
  <2> QED BY <1>5, <2>2, <2>3 DEF Children
<1>7. CASE n # Len(x) - 1
  <2> DEFINE y == SubSeq(x, 1, n + 1)
  <2>1. n + 1 \in 2..Len(x) - 1
    BY <1>1, <1>7
  <2>2. y \in DOMAIN calls /\ calls[y].pc = "gather"
    BY <1>4, <2>1 DEF Waits
  <2>3. Position(y) /\ Len(y) = n + 1
    BY <1>1, <1>2, PrefixIs
  <2>4. SubSeq(y, 1, n) = id
    BY <1>1, <1>2, PrefixOfPrefix
  <2> HIDE DEF y
  <2>5. Front(y) = id
    BY <1>2, <2>3, <2>4, FrontIs
  <2>6. y \in Children(id)
    BY <1>2, <2>2, <2>3, <2>5 DEF Children
  <2> QED BY <1>5, <2>2, <2>6 DEF EndedChildren
<1> QED BY <1>6, <1>7

\* What all turns have in common, as far as the tree goes.
Shape(id, gone, new) ==
  /\ gone \subseteq Gone(id) /\ Grows(id, gone, new)
  /\ new = {} \/ \E n \in Nat \ {0} : new = Started(id, n) /\ Waits(id)'
  /\ calls[id].pc = "gather" => EndedChildren(id) \subseteq gone
  /\ Clean(Req(id))' /\ ~Waits(id)' /\ calls[id].pc = "gather"
       => Children(id) = EndedChildren(id)
  /\ calls[id].pc # "ended"
  /\ id \in DOMAIN calls' => ~calls'[id].cancel /\ calls'[id].pc # "ready"
  /\ UNCHANGED <<asked, cancelled, alone>>
  /\ \A q \in Requests :
       /\ ends[q] \subseteq ends'[q]
       /\ q # Req(id) => ends'[q] = ends[q] /\ stacks'[q] = stacks[q] /\ outcome'[q] = outcome[q]
       /\ outcome'[q] \in Results \/ outcome'[q] = outcome[q]

LEMMA ShapeOfEnd ==
  ASSUME CallsInv, NEW id \in DOMAIN calls, NEW r \in Results, Ends(id, r)
  PROVE  Shape(id, Gone(id), {})
<1>1. Placed(id) /\ Position(id) /\ Req(id) \in Requests /\ stacks \in [Requests -> Seq(Obj \cup {NoObj})]
  BY PositionIs DEF CallsInv, Placed, TypeOK
<1>2. /\ Grows(id, Gone(id), {})
      /\ Awaited(id) => id \in DOMAIN calls' /\ calls'[id] = Fin(r)
      /\ ~Awaited(id) => id \notin DOMAIN calls'
  BY <1>1, TreeAfterLeave DEF Ends, Gone
<1>3. /\ UNCHANGED <<asked, cancelled, alone>>
      /\ \A q \in Requests : ends'[q] = IF q = Req(id) THEN ends[q] \cup {r} ELSE ends[q]
      /\ \A q \in Requests : outcome'[q] = IF q = Req(id) /\ IsRoot(id) THEN r ELSE outcome[q]
  BY EndLeaves
<1>4. \A q \in Requests : q # Req(id) => stacks'[q] = stacks[q]
  BY <1>1 DEF Ends
<1>5. ASSUME Clean(Req(id))', calls[id].pc = "gather" PROVE Children(id) = EndedChildren(id)
  <2>1. r = "ok"
    BY <1>1, <1>3, <1>5 DEF Clean
  <2>2. Gathered(id) /\ FailedChildren(id) = {}
    BY <1>5, <2>1 DEF Ends, Builds, Hits, FailsWith, Errors
  <2> QED BY <2>2 DEF Gathered
<1>6. id \in DOMAIN calls' => ~calls'[id].cancel /\ calls'[id].pc # "ready"
  BY <1>2 DEF Fin
<1>7. EndedChildren(id) \subseteq Gone(id) /\ calls[id].pc # "ended"
  BY DEF Gone, Ends
<1> QED BY <1>2, <1>3, <1>4, <1>5, <1>6, <1>7 DEF Shape

LEMMA ShapeOfInside ==
  ASSUME CallsInv, Inside, NEW id \in DOMAIN calls, NEW gone \in SUBSET Gone(id), NEW new,
         Grows(id, gone, new), id \in DOMAIN calls',
         new = {} \/ \E n \in Nat \ {0} : new = Started(id, n) /\ calls'[id].pc = "gather",
         calls[id].pc = "gather" => EndedChildren(id) \subseteq gone,
         Clean(Req(id)) /\ ~Waits(id)' /\ calls[id].pc = "gather" => Children(id) = EndedChildren(id),
         calls[id].pc # "ended", ~calls'[id].cancel, calls'[id].pc # "ready",
         \A q \in Requests : q # Req(id) => stacks'[q] = stacks[q]
  PROVE  Shape(id, gone, new)
<1>1. ends' = ends /\ outcome' = outcome /\ UNCHANGED <<asked, cancelled, alone>>
  BY DEF Inside
<1>2. Clean(Req(id))' = Clean(Req(id))
  BY <1>1 DEF Clean
<1>3. new = {} \/ \E n \in Nat \ {0} : new = Started(id, n) /\ Waits(id)'
  BY DEF Waits
<1> QED BY <1>1, <1>2, <1>3 DEF Shape

LEMMA ShapeOfTurn ==
  ASSUME CallsInv, CancelledGather, NEW id \in DOMAIN calls, Turns(id)
  PROVE  \E gone \in SUBSET Gone(id) : \E new : Shape(id, gone, new)
<1>1. /\ Placed(id) /\ Awaiting(id) /\ Ending(id) /\ Position(id) /\ calls[id] \in CallRecord
      /\ Req(id) \in Requests /\ stacks \in [Requests -> Seq(Obj \cup {NoObj})]
      /\ EndedChildren(id) \in SUBSET Gone(id)
  BY PositionIs DEF CallsInv, Placed, TypeOK, Gone
<1>2. CASE \E r \in Results : Ends(id, r)
  <2>1. Shape(id, Gone(id), {})
    BY <1>2, ShapeOfEnd
  <2> QED BY <2>1
<1>3. CASE Enter(id)
  <2>1. /\ calls[id].pc = "ready" /\ id \in DOMAIN calls' /\ ~calls'[id].cancel
        /\ \/ Grows(id, {}, {}) /\ calls'[id].pc \in {"open", "factory"}
           \/ Grows(id, {}, Started(id, 1)) /\ calls'[id].pc = "gather"
    BY <1>1, <1>3, TreeAfterEnter
  <2>2. \A q \in Requests : q # Req(id) => stacks'[q] = stacks[q]
    BY <1>1, <1>3 DEF Enter
  <2>3. Inside
    BY <1>3 DEF Enter, Inside
  <2> DEFINE gone == {}
             none == {}
             some == Started(id, 1)
  <2>4. /\ gone \in SUBSET Gone(id)
        /\ \/ Grows(id, gone, none) /\ calls'[id].pc \in {"open", "factory"}
           \/ Grows(id, gone, some) /\ calls'[id].pc = "gather"
    BY <2>1
  <2>5. none = {} /\ \E n \in Nat \ {0} : some = Started(id, n)
    OBVIOUS
  <2> HIDE DEF gone, none, some
  <2>6. Shape(id, gone, none) \/ Shape(id, gone, some)
    BY <2>1, <2>2, <2>3, <2>4, <2>5, ShapeOfInside
  <2> QED BY <2>4, <2>6
<1>4. CASE NextLevel(id)
  <2> DEFINE n == calls[id].at + 1
             new == Started(id, n)
  <2>1. /\ Grows(id, EndedChildren(id), new)
        /\ id \in DOMAIN calls' /\ calls'[id] = Gathering(calls[id], n)
    BY <1>1, <1>4, TreeAfterLevel
  <2>2. calls[id].pc = "gather" /\ ~calls'[id].cancel /\ calls'[id].pc = "gather"
    BY <1>4, <2>1 DEF NextLevel, At, Gathering
  <2>3. Inside /\ stacks' = stacks
    BY <1>4 DEF NextLevel, Inside
  <2>4. n \in Nat \ {0}
    BY <1>1 DEF CallRecord
  <2>5. \E m \in Nat \ {0} : new = Started(id, m) /\ calls'[id].pc = "gather"
    BY <2>2, <2>4
  <2>6. Waits(id)'
    BY <2>1, <2>2 DEF Waits
  <2> HIDE DEF new
  <2>7. Shape(id, EndedChildren(id), new)
    BY <1>1, <2>1, <2>2, <2>3, <2>5, <2>6, ShapeOfInside
  <2> QED BY <1>1, <2>7
<1>5. CASE ToFactory(id)
  <2> DEFINE new == {}
  <2>1. /\ Grows(id, EndedChildren(id), new) /\ new = {}
        /\ id \in DOMAIN calls' /\ calls'[id] = [calls[id] EXCEPT !.pc = "factory"]
    BY <1>1, <1>5, TreeAfterFactory
  <2>2. calls[id].pc = "gather" /\ ~calls'[id].cancel /\ calls'[id].pc = "factory"
    BY <1>1, <1>5, <2>1 DEF ToFactory, At, CallRecord
  <2>3. Inside /\ stacks' = stacks
    BY <1>5 DEF ToFactory, Inside
  <2>4. Children(id) = EndedChildren(id)
    BY <1>5 DEF ToFactory, Gathered
  <2> HIDE DEF new
  <2>5. Shape(id, EndedChildren(id), new)
    BY <1>1, <2>1, <2>2, <2>3, <2>4, ShapeOfInside
  <2> QED BY <1>1, <2>5
<1>6. CASE Unwinds(id)
  <2> DEFINE new == {}
  <2>1. /\ Grows(id, EndedChildren(id), new) /\ new = {}
        /\ id \in DOMAIN calls' /\ calls'[id] = Unwound(calls[id])
    BY <1>1, <1>6, TreeAfterUnwinds
  <2>2. ~calls'[id].cancel /\ calls'[id].pc = "finalize"
    BY <2>1 DEF Unwound
  <2>3. Inside /\ stacks' = stacks
    BY <1>6 DEF Unwinds, Finalize, Inside
  <2>4. calls[id].pc # "ended"
    BY <1>1, <1>6 DEF Unwinds, At, Ending
  <2>5. ASSUME Clean(Req(id)), calls[id].pc = "gather" PROVE Children(id) = EndedChildren(id)
    <3>1. CASE calls[id].cancel
      BY <2>5, <3>1 DEF CancelledGather
    <3>2. CASE \E c \in FailedChildren(id) : calls[c].out = "cancelled"
      <4>1. PICK c \in FailedChildren(id) : calls[c].out = "cancelled"
        BY <3>2
      <4>2. c \in DOMAIN calls /\ Front(c) = id /\ calls[c].pc = "ended"
        BY <4>1 DEF FailedChildren, EndedChildren, Children
      <4>3. Position(c) /\ Ending(c)
        BY <4>2 DEF CallsInv, Placed
      <4>4. "cancelled" \in ends[Req(id)]
        BY <4>1, <4>2, <4>3, ParentIs DEF Ending
      <4> QED BY <2>5, <4>4 DEF Clean
    <3> QED BY <1>6, <3>1, <3>2 DEF Unwinds
  <2> HIDE DEF new
  <2>6. Shape(id, EndedChildren(id), new)
    BY <1>1, <2>1, <2>2, <2>3, <2>4, <2>5, ShapeOfInside
  <2> QED BY <1>1, <2>6
<1>7. CASE Close(id)
  <2> DEFINE gone == {}
             new == {}
  <2>1. /\ Grows(id, gone, new) /\ id \in DOMAIN calls' /\ new = {} /\ gone \in SUBSET Gone(id)
        /\ calls[id].pc = "finalize" /\ calls'[id].pc = "finalize"
        /\ calls'[id].cancel = calls[id].cancel
    BY <1>1, <1>7, TreeAfterClose
  <2>2. ~calls'[id].cancel
    BY <1>1, <2>1 DEF Ending
  <2>3. Inside /\ \A q \in Requests : q # Req(id) => stacks'[q] = stacks[q]
    BY <1>1, <1>7 DEF Close, Inside
  <2> HIDE DEF gone, new
  <2>4. Shape(id, gone, new)
    BY <2>1, <2>2, <2>3, ShapeOfInside
  <2> QED BY <2>1, <2>4
<1> QED BY <1>2, <1>3, <1>4, <1>5, <1>6, <1>7 DEF Turns

LEMMA NewcomersAre ==
  ASSUME CallsInv, NEW id \in DOMAIN calls, NEW gone, NEW new, Shape(id, gone, new),
         NEW x \in new
  PROVE  /\ Waits(id)' /\ Position(x) /\ Front(x) = id /\ x # id /\ Len(x) = Len(id) + 1
         /\ Req(x) = Req(id) /\ ~IsRoot(x)
         /\ \A n \in 2..Len(id) - 1 : SubSeq(x, 1, n) = SubSeq(id, 1, n)
         /\ SubSeq(x, 1, Len(id)) = id
<1>1. Position(id) /\ Key(id) \in Keys /\ Len(id) \in Nat /\ Len(id) >= 2
  BY PositionIs DEF CallsInv, Placed
<1>2. PICK n \in Nat \ {0} : new = Started(id, n) /\ Waits(id)'
  BY DEF Shape
<1>3. PICK j \in Level(Key(id), n) : x = Append(id, j)
  BY <1>2 DEF Started
<1>4. j \in Keys
  BY <1>1, <1>3, NeededHolds DEF Level
<1>5. /\ Position(x) /\ Front(x) = id /\ x # id /\ Len(x) = Len(id) + 1
      /\ Req(x) = Req(id)
      /\ \A m \in 2..Len(id) - 1 : SubSeq(x, 1, m) = SubSeq(id, 1, m)
      /\ SubSeq(x, 1, Len(id)) = id
  BY <1>1, <1>3, <1>4, ChildIs
<1>6. ~IsRoot(x)
  BY <1>1, <1>5 DEF IsRoot
<1> QED BY <1>2, <1>5, <1>6

\* Where a call of the tree after a turn comes from.
LEMMA WhoRemains ==
  ASSUME NEW id, NEW gone, NEW new, Shape(id, gone, new), NEW x \in DOMAIN calls', x # id
  PROVE  \/ x \in DOMAIN calls \ gone /\ calls'[x] = calls[x]
         \/ x \in new /\ x \notin DOMAIN calls \ gone /\ calls'[x] = NewCall
BY DEF Shape, Grows

LEMMA AttachedAfterTurn ==
  ASSUME TreeInv, NEW id \in DOMAIN calls, NEW gone, NEW new, Shape(id, gone, new)
  PROVE  Attached'
<1>1. CallsInv /\ Attached /\ Position(id) /\ Req(id) \in Requests /\ Len(id) \in Nat
  BY PositionIs DEF TreeInv, CallsInv, Placed
<1>2. ASSUME NEW q \in Requests, Clean(q)' PROVE Clean(q)
  BY <1>2 DEF Shape, Clean
<1>3. ASSUME NEW p, Waits(p), p # id PROVE Waits(p)'
  <2>1. p \notin gone
    BY <1>3 DEF Shape, Gone, EndedChildren, Waits
  <2> QED BY <1>3, <2>1 DEF Shape, Grows, Waits
<1>4. SUFFICES ASSUME NEW x \in DOMAIN calls', Clean(Req(x))', NEW n \in 2..Len(x) - 1
               PROVE  Waits(SubSeq(x, 1, n))'
  BY DEF Attached
<1>5. CASE x \in new /\ x \notin DOMAIN calls \ gone
  <2>1. /\ Waits(id)' /\ Len(x) = Len(id) + 1 /\ Req(x) = Req(id)
        /\ \A m \in 2..Len(id) - 1 : SubSeq(x, 1, m) = SubSeq(id, 1, m)
        /\ SubSeq(x, 1, Len(id)) = id
    BY <1>1, <1>5, NewcomersAre
  <2>2. CASE n = Len(id)
    BY <2>1, <2>2
  <2>3. CASE n # Len(id)
    <3>1. n \in 2..Len(id) - 1 /\ n \in 2..Len(id)
      <4> DEFINE m == Len(id)
                 l == Len(x)
      <4>1. m \in Nat /\ l = m + 1 /\ n \in 2..l - 1 /\ n # m
        BY <1>1, <2>1, <2>3
      <4> HIDE DEF m, l
      <4>2. n \in 2..m - 1 /\ n \in 2..m
        BY <4>1
      <4> QED BY <4>2 DEF m
    <3>2. Waits(SubSeq(id, 1, n))
      BY <1>1, <1>2, <1>4, <2>1, <3>1 DEF Attached
    <3>3. Len(SubSeq(id, 1, n)) = n
      BY <1>1, <3>1, PrefixIs
    <3>4. SubSeq(id, 1, n) # id
      BY <2>3, <3>3
    <3> QED BY <1>3, <2>1, <3>1, <3>2, <3>4
  <2> QED BY <2>2, <2>3
<1>6. CASE x \in DOMAIN calls /\ (x = id \/ x \notin gone)
  <2>1. Position(x) /\ Req(x) \in Requests /\ Len(x) \in Nat
    BY <1>1, <1>6, PositionIs DEF CallsInv, Placed
  <2>2. Clean(Req(x)) /\ Waits(SubSeq(x, 1, n))
    BY <1>1, <1>2, <1>4, <1>6, <2>1 DEF Attached
  <2>3. CASE SubSeq(x, 1, n) # id
    BY <1>3, <2>2, <2>3
  <2>4. CASE SubSeq(x, 1, n) = id
    <3>1. n \in 2..Len(x)
      BY <2>1
    <3>2. Len(id) = n /\ Req(id) = Req(x)
      BY <2>1, <2>4, <3>1, PrefixIs
    <3>3. x # id
      BY <2>1, <3>2
    <3>4. calls[id].pc = "gather"
      BY <2>2, <2>4 DEF Waits
    <3>5. CASE Children(id) = EndedChildren(id)
      <4>1. x \in EndedChildren(id)
        BY <1>1, <1>6, <2>2, <2>4, <3>2, <3>5, OnlyEndedBelow
      <4> QED BY <1>6, <3>3, <3>4, <4>1 DEF Shape
    <3>6. CASE Children(id) # EndedChildren(id)
      <4>1. Waits(id)'
        BY <1>4, <3>2, <3>4, <3>6 DEF Shape
      <4> QED BY <2>4, <4>1
    <3> QED BY <3>5, <3>6
  <2> QED BY <2>3, <2>4
<1> QED BY <1>4, <1>5, <1>6, WhoRemains

LEMMA CancelledGatherAfterTurn ==
  ASSUME TreeInv, NEW id \in DOMAIN calls, NEW gone, NEW new, Shape(id, gone, new)
  PROVE  CancelledGather'
<1>1. SUFFICES ASSUME NEW x \in DOMAIN calls', Clean(Req(x))', calls'[x].cancel,
                      calls'[x].pc = "gather"
               PROVE  Children(x)' = EndedChildren(x)'
  BY DEF CancelledGather
<1>2. x # id
  BY <1>1 DEF Shape
<1>3. x \in DOMAIN calls \ gone /\ calls'[x] = calls[x]
  BY <1>1, <1>2, WhoRemains, NewCallIs
<1>4. Clean(Req(x))
  <2>1. Req(x) \in Requests
    BY <1>3, PositionIs DEF TreeInv, CallsInv, Placed
  <2> QED BY <1>1, <2>1 DEF Shape, Clean
<1>5. Children(x) = EndedChildren(x)
  BY <1>1, <1>3, <1>4 DEF TreeInv, CancelledGather
<1>6. ASSUME NEW c \in Children(x)' PROVE calls'[c].pc = "ended"
  <2>1. c \in DOMAIN calls' /\ Len(c) > 2 /\ Front(c) = x
    BY DEF Children
  <2>2. c # id
    <3>1. c = id => id \in Children(x)
      BY <2>1 DEF Children
    <3> QED BY <1>5, <3>1 DEF EndedChildren, Shape
  <2>3. c \notin new
    BY <1>2, <2>1, NewcomersAre DEF TreeInv
  <2>4. c \in DOMAIN calls /\ calls'[c] = calls[c]
    BY <2>1, <2>2, <2>3, WhoRemains
  <2>5. c \in Children(x)
    BY <2>1, <2>4 DEF Children
  <2> QED BY <1>5, <2>4, <2>5 DEF EndedChildren
<1> QED BY <1>6 DEF EndedChildren

\* The calls of another request are those it had.
LEMMA OtherTrees ==
  ASSUME CallsInv, NEW id \in DOMAIN calls, NEW gone, NEW new, Shape(id, gone, new),
         NEW q \in Requests, q # Req(id)
  PROVE  Tree(q)' = Tree(q) /\ \A x \in Tree(q) : calls'[x] = calls[x]
<1>1. ASSUME NEW x \in Tree(q)' PROVE x \in Tree(q)
  <2>1. x \in DOMAIN calls' /\ Req(x) = q
    BY DEF Tree
  <2>2. x \notin new
    BY <2>1, NewcomersAre
  <2> QED BY <2>1, <2>2, WhoRemains DEF Tree
<1>2. ASSUME NEW x \in Tree(q) PROVE x \in Tree(q)' /\ calls'[x] = calls[x]
  <2>1. x \in DOMAIN calls /\ Req(x) = q /\ x # id
    BY DEF Tree
  <2>2. x \notin gone
    <3>1. ASSUME x \in EndedChildren(id) PROVE FALSE
      <4>1. Position(x) /\ Front(x) = id
        BY <3>1 DEF EndedChildren, Children, CallsInv, Placed
      <4> QED BY <2>1, <4>1, ParentIs
    <3> QED BY <2>1, <3>1 DEF Shape, Gone
  <2>3. x \in DOMAIN calls' /\ calls'[x] = calls[x]
    BY <2>1, <2>2 DEF Shape, Grows
  <2> QED BY <2>1, <2>3 DEF Tree
<1> QED BY <1>1, <1>2

LEMMA FreshAfterTurn ==
  ASSUME TreeInv, NEW id \in DOMAIN calls, NEW gone, NEW new, Shape(id, gone, new)
  PROVE  Fresh'
<1>1. CallsInv /\ Position(id) /\ Req(id) \in Requests /\ id \in Tree(Req(id))
  BY PositionIs DEF TreeInv, CallsInv, Placed, Tree
<1>2. ASSUME NEW q \in Requests, outcome'[q] = "idle"
      PROVE  Tree(q)' = {} /\ stacks'[q] = <<>> /\ ends'[q] = {}
  <2>1. outcome[q] = "idle"
    BY <1>2 DEF Shape, Results, Errors
  <2>2. Tree(q) = {} /\ stacks[q] = <<>> /\ ends[q] = {}
    BY <2>1 DEF TreeInv, Fresh
  <2>3. q # Req(id)
    BY <1>1, <2>2
  <2>4. Tree(q)' = Tree(q)
    BY <1>1, <2>3, OtherTrees
  <2> QED BY <2>2, <2>3, <2>4 DEF Shape
<1>3. ASSUME NEW x \in DOMAIN calls', IsRoot(x), calls'[x].pc = "ready"
      PROVE  Tree(Req(x))' = {x} /\ stacks'[Req(x)] = <<>> /\ ends'[Req(x)] = {}
  <2>1. x # id
    BY <1>3 DEF Shape
  <2>2. x \notin new
    BY <1>1, <1>3, NewcomersAre
  <2>3. x \in DOMAIN calls /\ calls'[x] = calls[x]
    BY <2>1, <2>2, WhoRemains
  <2>4. Tree(Req(x)) = {x} /\ stacks[Req(x)] = <<>> /\ ends[Req(x)] = {}
    BY <1>3, <2>3 DEF TreeInv, Fresh
  <2>5. Req(x) # Req(id) /\ Req(x) \in Requests
    BY <1>1, <2>1, <2>3, <2>4, PositionIs DEF CallsInv, Placed
  <2>6. Tree(Req(x))' = Tree(Req(x))
    BY <1>1, <2>5, OtherTrees
  <2> QED BY <2>4, <2>5, <2>6 DEF Shape
<1> QED BY <1>2, <1>3 DEF Fresh

LEMMA TreeAfterTurn ==
  ASSUME TreeInv, CallsInv', NEW id \in DOMAIN calls, Turns(id)
  PROVE  TreeInv'
<1>1. PICK gone \in SUBSET Gone(id) : \E new : Shape(id, gone, new)
  BY ShapeOfTurn DEF TreeInv
<1>2. PICK new : Shape(id, gone, new)
  BY <1>1
<1> QED
  BY <1>2, AttachedAfterTurn, CancelledGatherAfterTurn, FreshAfterTurn DEF TreeInv

LEMMA TreeAfterRequest ==
  ASSUME TreeInv, CallsInv', NEW q \in Requests, Request(q)
  PROVE  TreeInv'
<1> DEFINE root == <<q, asked[q]>>
<1>1. /\ DOMAIN calls' = DOMAIN calls \cup {root}
      /\ \A x \in DOMAIN calls : calls'[x] = calls[x]
      /\ outcome[q] = "idle" /\ outcome' = [outcome EXCEPT ![q] = "running"]
      /\ ends' = ends /\ stacks' = stacks
  BY DEF Request
<1>2. root \notin DOMAIN calls => calls'[root] = NewCall
  BY DEF Request
<1>3. Len(root) = 2 /\ Req(root) = q
  BY DEF Req
<1> HIDE DEF root
<1>4. /\ Tree(q) = {} /\ stacks[q] = <<>> /\ ends[q] = {}
      /\ CallsInv /\ Attached /\ CancelledGather /\ Fresh
      /\ outcome \in [Requests -> Results \cup {"idle", "running"}]
  BY <1>1 DEF TreeInv, Fresh, CallsInv, TypeOK
<1>5. root \notin DOMAIN calls
  BY <1>3, <1>4 DEF Tree
<1>6. calls'[root] = NewCall
  BY <1>2, <1>5
<1>7. \A p : Clean(p)' = Clean(p)
  BY <1>1 DEF Clean
<1>8. Attached'
  <2> SUFFICES ASSUME NEW x \in DOMAIN calls', Clean(Req(x))', NEW n \in 2..Len(x) - 1
               PROVE  Waits(SubSeq(x, 1, n))'
    BY DEF Attached
  <2>1. x # root
    <3> DEFINE l == Len(x)
    <3>1. n \in 2..l - 1 /\ (x = root => l = 2)
      BY <1>3
    <3> HIDE DEF l
    <3>2. n \in 2..2 - 1 => FALSE
      OBVIOUS
    <3> QED BY <3>1, <3>2
  <2>2. x \in DOMAIN calls
    BY <1>1, <2>1
  <2>3. Waits(SubSeq(x, 1, n))
    BY <1>4, <1>7, <2>2 DEF Attached
  <2> QED BY <1>1, <2>3 DEF Waits
<1>9. ASSUME NEW x PROVE Children(x)' = Children(x) /\ EndedChildren(x)' = EndedChildren(x)
  <2>1. Children(x)' = Children(x)
    <3>1. ~(Len(root) > 2)
      BY <1>3
    <3> QED BY <1>1, <3>1 DEF Children
  <2>2. \A c \in Children(x) : calls'[c] = calls[c]
    BY <1>1 DEF Children
  <2> QED BY <2>1, <2>2 DEF EndedChildren
<1>10. CancelledGather'
  <2> SUFFICES ASSUME NEW x \in DOMAIN calls', Clean(Req(x))', calls'[x].cancel,
                      calls'[x].pc = "gather"
               PROVE  Children(x)' = EndedChildren(x)'
    BY DEF CancelledGather
  <2>1. x # root
    BY <1>6, NewCallIs
  <2>2. x \in DOMAIN calls /\ calls'[x] = calls[x] /\ Clean(Req(x))
    BY <1>1, <1>7, <2>1
  <2> QED BY <1>4, <1>9, <2>2 DEF CancelledGather
<1>11. ASSUME NEW p, p # q PROVE Tree(p)' = Tree(p)
  BY <1>1, <1>3, <1>11 DEF Tree
<1>12. Tree(q)' = {root}
  BY <1>1, <1>3, <1>4 DEF Tree
<1>13. Fresh'
  <2>1. ASSUME NEW p \in Requests, outcome'[p] = "idle"
        PROVE  Tree(p)' = {} /\ stacks'[p] = <<>> /\ ends'[p] = {}
    <3>1. p # q /\ outcome[p] = "idle"
      BY <1>1, <1>4, <2>1
    <3> QED BY <1>1, <1>4, <1>11, <3>1 DEF Fresh
  <2>2. ASSUME NEW x \in DOMAIN calls', IsRoot(x), calls'[x].pc = "ready"
        PROVE  Tree(Req(x))' = {x} /\ stacks'[Req(x)] = <<>> /\ ends'[Req(x)] = {}
    <3>1. CASE x = root
      BY <1>1, <1>3, <1>4, <1>12, <3>1
    <3>2. CASE x # root
      <4>1. x \in DOMAIN calls /\ calls'[x] = calls[x]
        BY <1>1, <3>2
      <4>2. Req(x) # q
        BY <1>4, <4>1 DEF Tree
      <4> QED BY <1>1, <1>4, <1>11, <2>2, <4>1, <4>2 DEF Fresh
    <3> QED BY <3>1, <3>2
  <2> QED BY <2>1, <2>2 DEF Fresh
<1> QED BY <1>8, <1>10, <1>13 DEF TreeInv

\* Of a call in whose request nothing has failed, gather waits for all
\* children.
LEMMA GatheredClean ==
  ASSUME CallsInv, NEW id \in DOMAIN calls, Clean(Req(id))
  PROVE  /\ FailedChildren(id) = {}
         /\ Gathered(id) => Children(id) = EndedChildren(id)
<1>1. ASSUME NEW c \in FailedChildren(id) PROVE FALSE
  <2>1. c \in DOMAIN calls /\ Front(c) = id /\ calls[c].pc = "ended" /\ calls[c].out # "ok"
    BY DEF FailedChildren, EndedChildren, Children
  <2>2. Position(c) /\ Ending(c)
    BY <2>1 DEF CallsInv, Placed
  <2>3. calls[c].out \in ends[Req(id)]
    BY <2>1, <2>2, ParentIs DEF Ending
  <2> QED BY <2>1, <2>3 DEF Clean
<1> QED BY <1>1 DEF Gathered

LEMMA TreeAfterCancelled ==
  ASSUME TreeInv, CallsInv', NEW q \in Requests, Cancel(q)
  PROVE  TreeInv'
<1>1. CallsInv /\ Attached /\ CancelledGather /\ Fresh
  BY DEF TreeInv
<1>2. /\ DOMAIN calls' = DOMAIN calls
      /\ \A x \in DOMAIN calls :
           /\ calls'[x].pc = calls[x].pc
           /\ x \notin Lands(q) => calls'[x] = calls[x]
  BY <1>1, TreeAfterCancel
<1>3. UNCHANGED <<asked, single, path, stacks, closed, outcome, made, handed, ends, alone>>
  BY DEF Cancel
<1>4. \A p : Clean(p)' = Clean(p)
  BY <1>3 DEF Clean
<1>5. Attached'
  BY <1>1, <1>2, <1>4 DEF Attached, Waits
<1>6. \A x : Children(x)' = Children(x) /\ EndedChildren(x)' = EndedChildren(x)
  BY <1>2 DEF Children, EndedChildren
<1>7. CancelledGather'
  <2> SUFFICES ASSUME NEW x \in DOMAIN calls', Clean(Req(x))', calls'[x].cancel,
                      calls'[x].pc = "gather"
               PROVE  Children(x)' = EndedChildren(x)'
    BY DEF CancelledGather
  <2>1. x \in DOMAIN calls /\ Clean(Req(x)) /\ calls[x].pc = "gather"
    BY <1>2, <1>4
  <2>2. CASE x \in Lands(q)
    <3>1. Gathered(x)
      BY <2>1, <2>2 DEF Lands
    <3> QED BY <1>1, <1>6, <2>1, <3>1, GatheredClean
  <2>3. CASE x \notin Lands(q)
    <3>1. calls[x].cancel
      BY <1>2, <2>1, <2>3
    <3> QED BY <1>1, <1>6, <2>1, <3>1 DEF CancelledGather
  <2> QED BY <2>2, <2>3
<1>8. \A p : Tree(p)' = Tree(p)
  BY <1>2 DEF Tree
<1>9. Fresh'
  BY <1>1, <1>2, <1>3, <1>8 DEF Fresh
<1> QED BY <1>5, <1>7, <1>9 DEF TreeInv

LEMMA TreeKept ==
  ASSUME TreeInv, [Next]_vars
  PROVE  TreeInv'
<1>1. CallsInv /\ CallsInv'
  BY CallsKept DEF TreeInv
<1>2. CASE UNCHANGED vars
  BY <1>1, <1>2 DEF vars, TreeInv, Attached, CancelledGather, Fresh, Clean, Waits, Children,
                    EndedChildren, Tree
<1> QED BY <1>1, <1>2, Steps, TreeAfterRequest, TreeAfterCancelled, TreeAfterTurn

LEMMA TreeAtFirst == Init => TreeInv
<1> SUFFICES ASSUME Init PROVE Attached /\ CancelledGather /\ Fresh
  BY CallsAtFirst DEF TreeInv
<1>1. DOMAIN calls = {}
  BY DEF Init
<1>2. \A q \in Requests : Tree(q) = {} /\ stacks[q] = <<>> /\ ends[q] = {}
  BY <1>1 DEF Init, Tree
<1> QED BY <1>1, <1>2 DEF Attached, CancelledGather, Fresh

-----------------------------------------------------------------------------
(* A cancelled request in which nothing else has gone wrong *)

Undisturbed(q) == q \in cancelled /\ ends[q] \subseteq {"ok", "cancelled"}
\* Its calls neither produce anything nor start calls any more: the
\* cancellation has reached each of them, or a call each waits for.
Halted(id) == calls[id].cancel \/ calls[id].pc \in {"gather", "finalize", "ended"}
Held(id) ==
  calls[id].pc = "gather" /\ ~calls[id].cancel
    => \E c \in Children(id) : calls[c].pc # "ended" \/ calls[c].out = "cancelled"
\* A call that finalizes has emptied the list up to where it is.
Swept(id) ==
  calls[id].pc = "finalize"
    => /\ calls[id].at <= Len(stacks[Req(id)])
       /\ \A i \in 1..calls[id].at : stacks[Req(id)][i] = NoObj
Stopping ==
  \A id \in DOMAIN calls : Undisturbed(Req(id)) => Halted(id) /\ Held(id) /\ Swept(id)
Causes ==
  \A q \in Requests : /\ outcome[q] = "cancelled" => "cancelled" \in ends[q]
                      /\ outcome[q] = "idle" => q \notin cancelled
StopInv == TreeInv /\ Stopping /\ Causes /\ CancelFinalizes

\* Such a call can only end as cancelled, begin to finalize, or go on with it.
LEMMA StopTurns ==
  ASSUME CallsInv, Stopping, NEW id \in DOMAIN calls, Turns(id),
         Undisturbed(Req(id)), Undisturbed(Req(id))'
  PROVE  \/ /\ Ends(id, "cancelled") /\ stacks' = stacks
            /\ \/ calls[id].pc = "ready"
               \/ calls[id].pc = "finalize" /\ calls[id].at = Len(stacks[Req(id)])
         \/ Unwinds(id)
         \/ Close(id)
<1>1. Halted(id) /\ Held(id) /\ Req(id) \in Requests /\ Position(id) /\ calls[id] \in CallRecord
      /\ stacks \in [Requests -> Seq(Obj \cup {NoObj})]
  BY PositionIs DEF Stopping, CallsInv, Placed, TypeOK
<1>2. ASSUME calls[id].pc = "gather", ~calls[id].cancel, Gathered(id), FailedChildren(id) = {}
      PROVE  FALSE
  <2>1. PICK c \in Children(id) : calls[c].pc # "ended" \/ calls[c].out = "cancelled"
    BY <1>1, <1>2 DEF Held
  <2>2. c \in EndedChildren(id)
    BY <1>2, <2>1 DEF Gathered
  <2>3. c \in FailedChildren(id)
    BY <2>1, <2>2 DEF FailedChildren, EndedChildren
  <2> QED BY <1>2, <2>3
<1>3. ASSUME NEW r \in Results, Ends(id, r)
      PROVE  /\ r = "cancelled" /\ stacks' = stacks
             /\ \/ calls[id].pc = "ready"
                \/ calls[id].pc = "finalize" /\ calls[id].at = Len(stacks[Req(id)])
  <2>1. r \in ends'[Req(id)]
    <3>1. \A q \in Requests : ends'[q] = IF q = Req(id) THEN ends[q] \cup {r} ELSE ends[q]
      BY <1>3, EndLeaves
    <3>2. ends'[Req(id)] = ends[Req(id)] \cup {r}
      BY <1>1, <3>1
    <3> QED BY <3>2
  <2>2. r \in {"ok", "cancelled"}
    BY <2>1 DEF Undisturbed
  <2>3. r # "ok"
    <3>1. ASSUME Builds(id) PROVE FALSE
      BY <1>1, <1>2, <3>1 DEF Builds, Halted
    <3>2. ASSUME Hits(id) PROVE FALSE
      BY <1>1, <3>2 DEF Hits, Halted
    <3> QED BY <1>3, <3>1, <3>2 DEF Ends, FailsWith, Errors
  <2>4. r = "cancelled"
    BY <2>2, <2>3
  <2> QED BY <1>3, <2>4 DEF Ends, FailsWith, Errors
<1>4. ASSUME Enter(id) PROVE FALSE
  <2>1. calls[id].pc = "ready" /\ ~calls[id].cancel
    BY <1>1, <1>4, TreeAfterEnter
  <2> QED BY <1>1, <2>1 DEF Halted
<1>5. ~NextLevel(id) /\ ~ToFactory(id)
  BY <1>2 DEF NextLevel, ToFactory, At
<1> QED BY <1>3, <1>4, <1>5 DEF Turns

LEMMA UndisturbedBefore ==
  ASSUME NEW id, NEW gone, NEW new, Shape(id, gone, new), NEW q \in Requests, Undisturbed(q)'
  PROVE  Undisturbed(q)
BY DEF Shape, Undisturbed

\* What it takes for a turn of id to leave the others as they were.
Leaves(id) ==
  LET q == Req(id)
  IN /\ Len(stacks'[q]) = Len(stacks[q])
     /\ \A i \in 1..Len(stacks[q]) : stacks[q][i] = NoObj => stacks'[q][i] = NoObj
     /\ Awaited(id)
          => id \in DOMAIN calls' /\ (calls'[id].pc # "ended" \/ calls'[id].out = "cancelled")

LEMMA StopOthers ==
  ASSUME CallsInv, Stopping, NEW id \in DOMAIN calls, NEW gone, NEW new, Shape(id, gone, new),
         Undisturbed(Req(id))' => Leaves(id),
         NEW x \in DOMAIN calls \ gone, x # id, calls'[x] = calls[x], Undisturbed(Req(x))'
  PROVE  Halted(x)' /\ Held(x)' /\ Swept(x)'
<1>1. /\ Position(id) /\ Position(x) /\ Req(id) \in Requests /\ Req(x) \in Requests
      /\ calls[x] \in CallRecord /\ Len(stacks[Req(x)]) \in Nat
  BY PositionIs, LenProperties DEF CallsInv, Placed, TypeOK
<1>2. Halted(x) /\ Held(x) /\ Swept(x)
  BY <1>1, UndisturbedBefore DEF Stopping
<1>3. Halted(x)'
  BY <1>2 DEF Halted
<1>4. Held(x)'
  <2> SUFFICES ASSUME calls[x].pc = "gather", ~calls[x].cancel
               PROVE  \E c \in Children(x)' : calls'[c].pc # "ended" \/ calls'[c].out = "cancelled"
    BY DEF Held
  <2>1. PICK c \in Children(x) : calls[c].pc # "ended" \/ calls[c].out = "cancelled"
    BY <1>2 DEF Held
  <2>2. c \in DOMAIN calls /\ Len(c) > 2 /\ Front(c) = x
    BY <2>1 DEF Children
  <2>3. CASE c = id
    <3>1. Awaited(id)
      BY <2>2, <2>3 DEF Awaited
    <3>2. Req(id) = Req(x)
      BY <1>1, <2>2, <2>3, ParentIs
    <3>3. id \in DOMAIN calls' /\ (calls'[id].pc # "ended" \/ calls'[id].out = "cancelled")
      BY <3>1, <3>2 DEF Leaves
    <3> QED BY <2>2, <2>3, <3>3 DEF Children
  <2>4. CASE c # id
    <3>1. c \notin gone
      BY <2>2, <2>4 DEF Shape, Gone, EndedChildren, Children
    <3>2. c \in DOMAIN calls' /\ calls'[c] = calls[c]
      BY <2>2, <2>4, <3>1 DEF Shape, Grows
    <3> QED BY <2>1, <2>2, <3>2 DEF Children
  <2> QED BY <2>3, <2>4
<1>5. Swept(x)'
  <2> SUFFICES ASSUME calls[x].pc = "finalize"
               PROVE  /\ calls[x].at <= Len(stacks'[Req(x)])
                      /\ \A i \in 1..calls[x].at : stacks'[Req(x)][i] = NoObj
    BY DEF Swept
  <2> DEFINE m == Len(stacks[Req(x)])
             n == calls[x].at
  <2>1. n \in Nat /\ m \in Nat /\ n <= m /\ \A i \in 1..n : stacks[Req(x)][i] = NoObj
    BY <1>1, <1>2 DEF Swept, CallRecord
  <2>2. /\ Len(stacks'[Req(x)]) = m
        /\ \A i \in 1..m : stacks[Req(x)][i] = NoObj => stacks'[Req(x)][i] = NoObj
    <3>1. CASE Req(x) = Req(id)
      BY <3>1 DEF Leaves
    <3>2. CASE Req(x) # Req(id)
      BY <1>1, <3>2 DEF Shape
    <3> QED BY <3>1, <3>2
  <2> HIDE DEF m, n
  <2>3. \A i \in 1..n : i \in 1..m
    BY <2>1
  <2> QED BY <2>1, <2>2, <2>3 DEF n
<1> QED BY <1>3, <1>4, <1>5

\* The call itself, and the list of stacks, after such a turn.
LEMMA StopItself ==
  ASSUME StopInv, NEW id \in DOMAIN calls, Turns(id),
         Undisturbed(Req(id)), Undisturbed(Req(id))'
  PROVE  /\ Leaves(id) /\ ~Waits(id)'
         /\ id \in DOMAIN calls' => Halted(id)' /\ Held(id)' /\ Swept(id)'
         /\ outcome'[Req(id)] = "cancelled" /\ outcome[Req(id)] # "cancelled"
              => \A i \in 1..Len(stacks'[Req(id)]) : stacks'[Req(id)][i] = NoObj
<1> DEFINE q == Req(id)
<1>1. /\ CallsInv /\ Stopping /\ Placed(id) /\ Position(id) /\ q \in Requests
      /\ calls[id] \in CallRecord /\ Swept(id) /\ stacks[q] \in Seq(Obj \cup {NoObj})
      /\ stacks \in [Requests -> Seq(Obj \cup {NoObj})]
  BY PositionIs DEF StopInv, TreeInv, Stopping, CallsInv, Placed, TypeOK
<1>2. CASE /\ Ends(id, "cancelled") /\ stacks' = stacks
           /\ \/ calls[id].pc = "ready"
              \/ calls[id].pc = "finalize" /\ calls[id].at = Len(stacks[q])
  <2>1. /\ Awaited(id) => id \in DOMAIN calls' /\ calls'[id] = Fin("cancelled")
        /\ ~Awaited(id) => id \notin DOMAIN calls'
    BY <1>1, <1>2, TreeAfterLeave DEF Ends
  <2>2. Leaves(id) /\ ~Waits(id)'
    BY <1>2, <2>1 DEF Leaves, Waits, Fin
  <2>3. id \in DOMAIN calls' => Halted(id)' /\ Held(id)' /\ Swept(id)'
    BY <2>1 DEF Halted, Held, Swept, Fin
  <2>4. ASSUME outcome'[q] = "cancelled", outcome[q] # "cancelled"
        PROVE  \A i \in 1..Len(stacks[q]) : stacks[q][i] = NoObj
    <3>1. IsRoot(id)
      BY <1>1, <1>2, <2>4, EndLeaves DEF Results
    <3>2. CASE calls[id].pc = "ready"
      <4>1. stacks[q] = <<>>
        BY <3>1, <3>2 DEF StopInv, TreeInv, Fresh
      <4> QED BY <4>1
    <3>3. CASE calls[id].pc = "finalize" /\ calls[id].at = Len(stacks[q])
      BY <1>1, <3>3 DEF Swept
    <3> QED BY <1>2, <3>2, <3>3
  <2> QED BY <1>2, <2>2, <2>3, <2>4
<1>3. CASE Unwinds(id)
  <2>1. id \in DOMAIN calls' /\ calls'[id] = Unwound(calls[id])
    BY <1>1, <1>3, TreeAfterUnwinds
  <2>2. stacks' = stacks /\ outcome' = outcome
    BY <1>3 DEF Unwinds, Finalize
  <2>3. calls'[id].pc = "finalize" /\ calls'[id].at = 0
    BY <2>1 DEF Unwound
  <2>4. Leaves(id) /\ ~Waits(id)'
    BY <2>1, <2>2, <2>3 DEF Leaves, Waits
  <2>5. Halted(id)' /\ Held(id)'
    BY <2>3 DEF Halted, Held
  <2>6. Swept(id)'
    <3>1. Len(stacks[q]) \in Nat
      BY <1>1, LenProperties
    <3> QED BY <2>2, <2>3, <3>1 DEF Swept
  <2> QED BY <2>1, <2>2, <2>4, <2>5, <2>6
<1>4. CASE Close(id)
  <2> DEFINE n == calls[id].at + 1
             m == Len(stacks[q])
  <2>1. /\ id \in DOMAIN calls' /\ calls[id].pc = "finalize" /\ n <= m
        /\ calls'[id].pc = "finalize" /\ calls'[id].at = n
    BY <1>1, <1>4, TreeAfterClose
  <2>2. stacks' = [stacks EXCEPT ![q][n] = NoObj] /\ outcome' = outcome
    BY <1>4 DEF Close
  <2>3. n \in Nat /\ m \in Nat /\ n \in 1..m /\ calls[id].at = n - 1
    <3>1. calls[id].at \in Nat /\ m \in Nat
      BY <1>1, LenProperties DEF CallRecord
    <3> QED BY <2>1, <3>1
  <2> DEFINE s == stacks[q]
             t == stacks'[q]
  <2>4. s \in [1..m -> Obj \cup {NoObj}] /\ t = [s EXCEPT ![n] = NoObj]
    BY <1>1, <2>2, LenProperties
  <2>5. \A i \in 1..m : t[i] = IF i = n THEN NoObj ELSE s[i]
    <3> HIDE DEF s, t, m, n
    <3> QED BY <2>3, <2>4
  <2>6. Len(t) = m
    <3>1. t \in [1..m -> Obj \cup {NoObj}]
      <4> HIDE DEF s, t, m, n
      <4> QED BY <2>4
    <3>2. t \in Seq(Obj \cup {NoObj}) /\ DOMAIN t = 1..m
      <4> HIDE DEF s, t, m, n
      <4> QED BY <2>3, <3>1, SeqDef
    <3>3. Len(t) \in Nat /\ DOMAIN t = 1..Len(t)
      <4> HIDE DEF t
      <4> QED BY <3>2, LenProperties
    <3>4. \A a, b \in Nat : 1..a = 1..b => a = b
      <4> SUFFICES ASSUME NEW a \in Nat, NEW b \in Nat, 1..a = 1..b PROVE a = b
        OBVIOUS
      <4>1. (a = 0 \/ a \in 1..a) /\ (b = 0 \/ b \in 1..b)
        OBVIOUS
      <4>2. (a = 0 \/ a \in 1..b) /\ (b = 0 \/ b \in 1..a)
        BY <4>1
      <4> QED BY <4>2
    <3> HIDE DEF t, m
    <3> QED BY <2>3, <3>2, <3>3, <3>4
  <2>7. Leaves(id) /\ ~Waits(id)'
    <3>1. Len(stacks'[q]) = Len(stacks[q])
      BY <2>6
    <3>2. \A i \in 1..Len(stacks[q]) : stacks[q][i] = NoObj => stacks'[q][i] = NoObj
      BY <2>5
    <3>3. id \in DOMAIN calls' /\ calls'[id].pc # "ended" /\ calls'[id].pc # "gather"
      BY <2>1
    <3> QED BY <3>1, <3>2, <3>3 DEF Leaves, Waits
  <2>8. Halted(id)' /\ Held(id)'
    BY <2>1 DEF Halted, Held
  <2>9. Swept(id)'
    <3>1. \A i \in 1..n - 1 : s[i] = NoObj
      BY <1>1, <2>1, <2>3 DEF Swept
    <3>2. \A i \in 1..n : t[i] = NoObj
      <4> HIDE DEF s, t, m, n
      <4>1. \A i \in 1..n : i \in 1..m /\ (i = n \/ i \in 1..n - 1)
        BY <2>3
      <4> QED BY <2>5, <3>1, <4>1
    <3>3. calls'[id].at <= Len(stacks'[q])
      BY <2>1, <2>6
    <3>4. \A i \in 1..calls'[id].at : stacks'[q][i] = NoObj
      BY <2>1, <3>2
    <3> QED BY <3>3, <3>4 DEF Swept
  <2> QED BY <2>1, <2>2, <2>7, <2>8, <2>9
<1> QED BY <1>1, <1>2, <1>3, <1>4, StopTurns

LEMMA StopAfterTurn ==
  ASSUME StopInv, TreeInv', NEW id \in DOMAIN calls, Turns(id)
  PROVE  StopInv'
<1> DEFINE q0 == Req(id)
<1>1. CallsInv /\ CancelledGather /\ Stopping /\ Position(id) /\ q0 \in Requests
  BY PositionIs DEF StopInv, TreeInv, CallsInv, Placed
<1>2. PICK gone \in SUBSET Gone(id) : \E new : Shape(id, gone, new)
  BY <1>1, ShapeOfTurn
<1>3. PICK new : Shape(id, gone, new)
  BY <1>2
<1>4. \A q \in Requests : Undisturbed(q)' => Undisturbed(q)
  BY <1>3, UndisturbedBefore
<1>5. ASSUME Undisturbed(q0)'
      PROVE  /\ Leaves(id) /\ ~Waits(id)'
             /\ id \in DOMAIN calls' => Halted(id)' /\ Held(id)' /\ Swept(id)'
             /\ outcome'[q0] = "cancelled" /\ outcome[q0] # "cancelled"
                  => \A i \in 1..Len(stacks'[q0]) : stacks'[q0][i] = NoObj
  BY <1>1, <1>4, <1>5, StopItself
<1>6. ASSUME NEW x \in DOMAIN calls', Undisturbed(Req(x))'
      PROVE  Halted(x)' /\ Held(x)' /\ Swept(x)'
  <2>1. CASE x = id
    BY <1>5, <1>6, <2>1
  <2>2. CASE x # id /\ x \in DOMAIN calls \ gone /\ calls'[x] = calls[x]
    BY <1>1, <1>3, <1>5, <1>6, <2>2, StopOthers
  <2>3. CASE x \in new
    <3>1. Waits(id)' /\ Req(x) = q0
      BY <1>1, <1>3, <2>3, NewcomersAre
    <3> QED BY <1>5, <1>6, <3>1
  <2> QED BY <1>3, <1>6, <2>1, <2>2, <2>3, WhoRemains
<1>7. /\ cancelled' = cancelled
      /\ \A q \in Requests : ends[q] \subseteq ends'[q]
      /\ \A q \in Requests : q # q0 => outcome'[q] = outcome[q] /\ stacks'[q] = stacks[q]
      /\ \A q \in Requests : outcome'[q] \in Results \/ outcome'[q] = outcome[q]
  BY <1>3 DEF Shape
<1>8. Causes'
  <2>1. ASSUME NEW q \in Requests, outcome'[q] = "cancelled" PROVE "cancelled" \in ends'[q]
    <3>1. CASE outcome[q] = "cancelled"
      BY <1>7, <3>1 DEF StopInv, Causes
    <3>2. CASE outcome[q] # "cancelled"
      <4>1. ASSUME NEW r \in Results, Ends(id, r) PROVE "cancelled" \in ends'[q]
        <5>1. /\ outcome'[q] = IF q = q0 /\ IsRoot(id) THEN r ELSE outcome[q]
              /\ ends'[q] = IF q = q0 THEN ends[q] \cup {r} ELSE ends[q]
          BY <1>1, <4>1, EndLeaves
        <5> QED BY <2>1, <3>2, <5>1
      <4>2. outcome' = outcome \/ \E r \in Results : Ends(id, r)
        BY DEF Turns, Enter, NextLevel, ToFactory, Unwinds, Finalize, Close
      <4> QED BY <2>1, <3>2, <4>1, <4>2
    <3> QED BY <3>1, <3>2
  <2>2. ASSUME NEW q \in Requests, outcome'[q] = "idle" PROVE q \notin cancelled'
    <3>1. outcome[q] = "idle"
      BY <1>7, <2>2 DEF Results, Errors
    <3> QED BY <1>7, <3>1 DEF StopInv, Causes
  <2> QED BY <2>1, <2>2 DEF Causes
<1>9. CancelFinalizes'
  <2> SUFFICES ASSUME NEW q \in Requests, outcome'[q] = "cancelled",
                      ends'[q] \subseteq {"ok", "cancelled"}
               PROVE  \A i \in 1..Len(stacks'[q]) : stacks'[q][i] = NoObj
    BY DEF CancelFinalizes
  <2>1. "cancelled" \in ends'[q] /\ CallsInv'
    BY <1>8 DEF Causes, TreeInv
  <2>2. Undisturbed(q)'
    BY <2>1 DEF CallsInv, OutcomeExact, Undisturbed
  <2>3. outcome[q] = "cancelled" => \A i \in 1..Len(stacks[q]) : stacks[q][i] = NoObj
    BY <1>4, <2>2 DEF StopInv, CancelFinalizes, Undisturbed
  <2>4. CASE q # q0
    BY <1>7, <2>3, <2>4
  <2>5. CASE q = q0
    <3>1. CASE outcome[q] = "cancelled"
      <4>1. /\ Len(stacks'[q]) = Len(stacks[q])
            /\ \A i \in 1..Len(stacks[q]) : stacks[q][i] = NoObj => stacks'[q][i] = NoObj
        BY <1>5, <2>2, <2>5 DEF Leaves
      <4> QED BY <2>3, <3>1, <4>1
    <3>2. CASE outcome[q] # "cancelled"
      BY <1>5, <2>2, <2>5, <3>2
    <3> QED BY <3>1, <3>2
  <2> QED BY <2>4, <2>5
<1> QED BY <1>6, <1>8, <1>9 DEF StopInv, Stopping

LEMMA StopAfterRequest ==
  ASSUME StopInv, TreeInv', NEW q \in Requests, Request(q)
  PROVE  StopInv'
<1> DEFINE root == <<q, asked[q]>>
<1>1. /\ DOMAIN calls' = DOMAIN calls \cup {root}
      /\ \A x \in DOMAIN calls : calls'[x] = calls[x]
      /\ outcome[q] = "idle" /\ outcome' = [outcome EXCEPT ![q] = "running"]
      /\ ends' = ends /\ stacks' = stacks /\ cancelled' = cancelled
  BY DEF Request
<1>2. Req(root) = q
  BY DEF Req
<1> HIDE DEF root
<1>3. /\ Stopping /\ Causes /\ CancelFinalizes
      /\ outcome \in [Requests -> Results \cup {"idle", "running"}]
  BY DEF StopInv, TreeInv, CallsInv, TypeOK
<1>4. q \notin cancelled
  BY <1>1, <1>3 DEF Causes
<1>5. \A p : Undisturbed(p)' = Undisturbed(p)
  BY <1>1 DEF Undisturbed
<1>6. ASSUME NEW x \in DOMAIN calls', Undisturbed(Req(x))'
      PROVE  Halted(x)' /\ Held(x)' /\ Swept(x)'
  <2>1. x # root
    BY <1>2, <1>4, <1>5, <1>6 DEF Undisturbed
  <2>2. x \in DOMAIN calls /\ calls'[x] = calls[x]
    BY <1>1, <2>1
  <2>3. Halted(x) /\ Held(x) /\ Swept(x)
    BY <1>3, <1>5, <1>6, <2>2 DEF Stopping
  <2>4. Held(x)'
    <3>1. \A c \in Children(x) : c \in Children(x)' /\ calls'[c] = calls[c]
      BY <1>1 DEF Children
    <3> QED BY <2>2, <2>3, <3>1 DEF Held
  <2> QED BY <1>1, <2>2, <2>3, <2>4 DEF Halted, Swept
<1>7. Causes'
  BY <1>1, <1>3 DEF Causes
<1>8. CancelFinalizes'
  BY <1>1, <1>3 DEF CancelFinalizes
<1> QED BY <1>6, <1>7, <1>8 DEF StopInv, Stopping

\* In a request in which nothing has failed, the cancellation reaches every
\* call that runs.
LEMMA Reached ==
  ASSUME TreeInv, NEW x \in DOMAIN calls, Clean(Req(x)), calls[x].pc # "ended",
         ~(calls[x].pc = "gather" /\ ~Gathered(x))
  PROVE  x \in Lands(Req(x))
<1>1. CallsInv /\ Position(x) /\ Len(x) \in Nat
  BY PositionIs DEF TreeInv, CallsInv, Placed
<1>2. ASSUME NEW n \in 2..Len(x) - 1
      PROVE  Waits(SubSeq(x, 1, n)) /\ ~Gathered(SubSeq(x, 1, n))
  <2> DEFINE up == SubSeq(x, 1, n)
             y == SubSeq(x, 1, n + 1)
  <2>1. n \in 2..Len(x) /\ n + 1 \in 2..Len(x) /\ n \in 2..n + 1 /\ n + 1 > 2 /\ (n + 1) - 1 = n
    BY <1>1
  <2>2. Position(up) /\ Req(up) = Req(x) /\ Position(y) /\ Len(y) = n + 1
    BY <1>1, <2>1, PrefixIs
  <2>3. up \in DOMAIN calls /\ calls[up].pc = "gather"
    BY DEF TreeInv, Attached, Waits
  <2>4. y \in DOMAIN calls /\ calls[y].pc # "ended"
    <3>1. CASE n + 1 = Len(x)
      <4>1. y = x
        BY <3>1, <1>1, SubSeqFull DEF Position
      <4> QED BY <4>1
    <3>2. CASE n + 1 # Len(x)
      <4>1. n + 1 \in 2..Len(x) - 1
        BY <1>1, <2>1, <3>2
      <4> QED BY <4>1 DEF TreeInv, Attached, Waits
    <3> QED BY <3>1, <3>2
  <2>5. SubSeq(y, 1, n) = up
    BY <1>1, <2>1, PrefixOfPrefix
  <2> HIDE DEF up, y
  <2>6. Front(y) = up
    BY <2>1, <2>2, <2>5, FrontIs
  <2>7. y \in Children(up) /\ y \notin EndedChildren(up)
    BY <2>1, <2>2, <2>4, <2>6 DEF Children, EndedChildren
  <2>8. ~Gathered(up)
    BY <1>1, <2>2, <2>3, <2>7, GatheredClean
  <2> QED BY <2>3, <2>8 DEF up, Waits
<1> QED BY <1>2 DEF Lands, Waits

LEMMA StopAfterCancel ==
  ASSUME StopInv, TreeInv', NEW q \in Requests, Cancel(q)
  PROVE  StopInv'
<1>1. CallsInv /\ TreeInv /\ Stopping /\ Causes /\ CancelFinalizes
  BY DEF StopInv, TreeInv
<1>2. /\ DOMAIN calls' = DOMAIN calls
      /\ \A x \in DOMAIN calls :
           /\ calls'[x] \in CallRecord
           /\ calls'[x].pc = calls[x].pc /\ calls'[x].at = calls[x].at
           /\ calls'[x].out = calls[x].out
           /\ x \in Lands(q) => calls'[x].cancel
           /\ x \notin Lands(q) => calls'[x] = calls[x]
  BY <1>1, TreeAfterCancel
<1>3. /\ outcome[q] = "running" /\ q \notin cancelled /\ cancelled' = cancelled \cup {q}
      /\ outcome' = outcome /\ ends' = ends /\ stacks' = stacks
  BY DEF Cancel
<1>4. \A x : Children(x)' = Children(x)
  BY <1>2 DEF Children
<1>5. ASSUME NEW x \in DOMAIN calls', Undisturbed(Req(x))'
      PROVE  Halted(x)' /\ Held(x)' /\ Swept(x)'
  <2>1. x \in DOMAIN calls /\ Req(x) \in Requests
    BY <1>1, <1>2, PositionIs DEF CallsInv, Placed
  <2>2. CASE Req(x) # q
    <3>1. calls'[x] = calls[x]
      BY <1>2, <2>1, <2>2 DEF Lands
    <3>2. Undisturbed(Req(x))
      BY <1>3, <1>5, <2>2 DEF Undisturbed
    <3>3. Halted(x) /\ Held(x) /\ Swept(x)
      BY <1>1, <2>1, <3>2 DEF Stopping
    <3>4. Held(x)'
      <4>1. \A c \in Children(x) : calls'[c].pc = calls[c].pc /\ calls'[c].out = calls[c].out
        BY <1>2 DEF Children
      <4> QED BY <1>4, <3>1, <3>3, <4>1 DEF Held
    <3> QED BY <1>3, <3>1, <3>3, <3>4 DEF Halted, Swept
  <2>3. CASE Req(x) = q
    <3>1. Clean(q)
      <4>1. "cancelled" \notin ends[q]
        BY <1>1, <1>3, <2>1, <2>3 DEF CallsInv, OutcomeExact
      <4> QED BY <1>3, <1>5, <2>3, <4>1 DEF Undisturbed, Clean
    <3>2. calls[x].pc # "finalize" /\ calls[x] \in CallRecord
      BY <1>1, <1>3, <2>1, <2>3 DEF CallsInv, Ending, Placed
    <3>3. calls[x].pc # "ended" /\ ~(calls[x].pc = "gather" /\ ~Gathered(x)) => calls'[x].cancel
      BY <1>1, <1>2, <2>1, <2>3, <3>1, Reached
    <3>4. Halted(x)'
      BY <1>2, <2>1, <3>2, <3>3 DEF Halted
    <3>5. Held(x)'
      <4> SUFFICES ASSUME calls'[x].pc = "gather", ~calls'[x].cancel
                   PROVE  \E c \in Children(x)' : calls'[c].pc # "ended"
        BY DEF Held
      <4>1. ~Gathered(x)
        BY <1>2, <2>1, <3>3
      <4>2. PICK c \in Children(x) : calls[c].pc # "ended"
        BY <4>1 DEF Gathered, EndedChildren
      <4>3. c \in Children(x)' /\ calls'[c].pc = calls[c].pc
        BY <1>2, <1>4, <4>2 DEF Children
      <4> QED BY <4>2, <4>3
    <3>6. Swept(x)'
      BY <1>2, <2>1, <3>2 DEF Swept
    <3> QED BY <3>4, <3>5, <3>6
  <2> QED BY <2>2, <2>3
<1>6. Causes'
  BY <1>1, <1>3 DEF Causes
<1>7. CancelFinalizes'
  BY <1>1, <1>3 DEF CancelFinalizes
<1> QED BY <1>5, <1>6, <1>7 DEF StopInv, Stopping

LEMMA StopKept ==
  ASSUME StopInv, [Next]_vars
  PROVE  StopInv'
<1>1. CallsInv /\ TreeInv /\ TreeInv'
  BY TreeKept DEF StopInv, TreeInv
<1>2. CASE UNCHANGED vars
  BY <1>1, <1>2 DEF vars, StopInv, Stopping, Causes, CancelFinalizes, Undisturbed, Halted, Held,
                    Swept, Children
<1> QED BY <1>1, <1>2, Steps, StopAfterRequest, StopAfterCancel, StopAfterTurn

\* A cancelled request in which nothing else went wrong leaves no resource
\* open, whichever of its calls opened it.
THEOREM CancelledFinalize == Spec => []CancelFinalizes
<1>1. Init => StopInv
  <2> SUFFICES ASSUME Init PROVE Stopping /\ Causes /\ CancelFinalizes
    BY TreeAtFirst DEF StopInv
  <2>1. DOMAIN calls = {} /\ cancelled = {} /\ \A q \in Requests : outcome[q] = "idle"
    BY DEF Init
  <2> QED BY <2>1 DEF Stopping, Causes, CancelFinalizes
<1>2. StopInv /\ [Next]_vars => StopInv'
  BY StopKept
<1>3. StopInv => CancelFinalizes
  BY DEF StopInv
<1> QED BY <1>1, <1>2, <1>3, PTL DEF Spec

-----------------------------------------------------------------------------
(* Requests one after the other, in which nothing goes wrong *)

Quiet == alone /\ \A q \in Requests : Clean(q)
Works(id) == calls[id].pc \in {"gather", "factory", "open"}
OneRuns ==
  alone => \A p, q \in Requests : outcome[p] = "running" /\ outcome[q] = "running" => p = q
InTurn == \A id \in DOMAIN calls : outcome[Req(id)] = "running"
AsCached == \A k \in Keys : \A o \in handed[k] : o = single[k]
\* Whoever is about to produce a singleton finds none cached.
Unmade == \A id \in DOMAIN calls : Works(id) /\ Key(id) \in Singletons => single[Key(id)] = NoObj
QuietInv == TreeInv /\ OneRuns /\ (Quiet => InTurn /\ AsCached /\ Unmade)

\* A tree has one call at most for a singleton that is not cached.
LEMMA OnePerKey ==
  ASSUME CallsInv, NEW x \in DOMAIN calls, NEW y \in DOMAIN calls, Req(x) = Req(y),
         Key(x) = Key(y), Key(x) \in Singletons, single[Key(x)] = NoObj
  PROVE  x = y
<1>1. /\ Placed(x) /\ Position(x) /\ Key(x) = x[Len(x)] /\ Len(x) \in Nat /\ Len(x) >= 2
      /\ Placed(y) /\ Position(y) /\ Key(y) = y[Len(y)] /\ Len(y) \in Nat /\ Len(y) >= 2
      /\ Req(x) = x[1] /\ Req(y) = y[1] /\ x[2] = y[2]
  BY PositionIs DEF CallsInv, Placed
<1>2. Len(x) \in {2, 3} /\ Len(y) \in {2, 3}
  <2> DEFINE m == Len(x)
             n == Len(y)
  <2>1. ~(m > 3) /\ ~(n > 3) /\ m \in Nat /\ n \in Nat /\ m >= 2 /\ n >= 2
    BY <1>1 DEF Placed
  <2> HIDE DEF m, n
  <2>2. m \in {2, 3} /\ n \in {2, 3}
    BY <2>1
  <2> QED BY <2>2 DEF m, n
<1>3. ASSUME NEW a \in DOMAIN calls, NEW b \in DOMAIN calls, Placed(a), Len(a) = 2, Len(b) = 3,
             Placed(b), a[2] = b[2], Key(a) = a[Len(a)], Key(a) = Key(b)
      PROVE  FALSE
  <2>1. ~IsRoot(b)
    BY <1>3 DEF IsRoot
  <2>2. Key(b) \in Needed[b[2]] /\ ~OnCycle(Key(b))
    BY <1>3, <2>1 DEF Placed
  <2> QED BY <1>3, <2>2 DEF OnCycle
<1>4. Len(x) = Len(y)
  <2>1. ~(Len(x) = 2 /\ Len(y) = 3)
    BY <1>1, <1>3
  <2>2. ~(Len(y) = 2 /\ Len(x) = 3)
    BY <1>1, <1>3
  <2> QED BY <1>2, <2>1, <2>2
<1>5. \A i \in 1..Len(x) : x[i] = y[i]
  <2>1. ASSUME NEW i \in 1..Len(x) PROVE x[i] = y[i]
    <3>1. i = 1 \/ i = 2 \/ i = Len(x)
      <4> DEFINE l == Len(x)
      <4>1. l \in {2, 3} /\ i \in 1..l
        BY <1>2
      <4> HIDE DEF l
      <4>2. i = 1 \/ i = 2 \/ i = l
        BY <4>1
      <4> QED BY <4>2 DEF l
    <3> QED BY <1>1, <1>4, <3>1
  <2> QED BY <2>1
<1> QED BY <1>1, <1>4, <1>5, SeqEqual DEF Position

\* When the first call of a request ends, no call of it is left.
LEMMA RootLeaves ==
  ASSUME TreeInv, NEW id \in DOMAIN calls, IsRoot(id), NEW gone, NEW new, Shape(id, gone, new),
         NEW r \in Results, Ends(id, r), Clean(Req(id))'
  PROVE  \A x \in DOMAIN calls' : Req(x) # Req(id)
<1>1. CallsInv /\ Attached /\ Placed(id) /\ Position(id) /\ Req(id) \in Requests /\ Len(id) = 2
  BY PositionIs DEF TreeInv, CallsInv, Placed, IsRoot
<1>2. ~Awaited(id)
  <2>1. Len(Front(id)) = 1
    <3>1. Len(Front(id)) = Len(id) - 1
      BY <1>1, FrontIs
    <3>2. 2 - 1 = 1
      OBVIOUS
    <3> QED BY <1>1, <3>1, <3>2
  <2>2. ASSUME Front(id) \in DOMAIN calls PROVE FALSE
    <3>1. Position(Front(id))
      BY <1>1, <2>2 DEF CallsInv, Placed
    <3> QED BY <2>1, <3>1 DEF Position
  <2> QED BY <2>2 DEF Awaited
<1>3. Grows(id, EndedChildren(id) \cup {id}, {}) /\ id \notin DOMAIN calls'
  BY <1>1, <1>2, TreeAfterLeave DEF Ends
<1>4. Clean(Req(id)) /\ (calls[id].pc = "gather" => Children(id) = EndedChildren(id))
  <2>1. ~Waits(id)'
    BY <1>3 DEF Waits
  <2> QED BY <1>1, <2>1 DEF Shape, Clean
<1>5. ASSUME NEW x \in DOMAIN calls', Req(x) = Req(id) PROVE FALSE
  <2>1. x \in DOMAIN calls /\ x # id /\ x \notin EndedChildren(id)
    BY <1>3 DEF Grows
  <2>2. Position(x) /\ x[1] = id[1] /\ x[2] = id[2] /\ Len(x) \in Nat /\ Len(x) >= 2
    BY <1>1, <1>5, <2>1, PositionIs DEF CallsInv, Placed
  <2>3. SubSeq(x, 1, 2) = id
    <3> DEFINE p == SubSeq(x, 1, 2)
    <3>1. 2 \in 2..Len(x)
      BY <2>2
    <3>2. Position(p) /\ Len(p) = 2 /\ \A i \in 1..2 : p[i] = x[i]
      BY <2>2, <3>1, PrefixIs
    <3> HIDE DEF p
    <3>3. \A i \in 1..Len(p) : p[i] = id[i]
      BY <2>2, <3>2
    <3>4. p = id
      BY <1>1, <3>2, <3>3, SeqEqual DEF Position
    <3> QED BY <3>4 DEF p
  <2>4. Len(x) # 2
    <3>1. Len(x) = 2 => SubSeq(x, 1, 2) = x
      BY <2>2, SubSeqFull DEF Position
    <3> QED BY <2>1, <2>3, <3>1
  <2>5. 2 \in 2..Len(x) - 1
    <3> DEFINE l == Len(x)
    <3>1. l \in Nat /\ l >= 2 /\ l # 2
      BY <2>2, <2>4
    <3> HIDE DEF l
    <3>2. 2 \in 2..l - 1
      BY <3>1
    <3> QED BY <3>2 DEF l
  <2>6. x \in EndedChildren(id)
    BY <1>1, <1>4, <2>1, <2>3, <2>5, OnlyEndedBelow
  <2> QED BY <2>1, <2>6
<1> QED BY <1>5

\* What a turn does to the cache when requests come one after the other.
LEMMA CacheAfterTurn ==
  ASSUME CallsInv, AsCached, Unmade, NEW id \in DOMAIN calls, Turns(id)
  PROVE  /\ AsCached'
         /\ \/ single' = single
            \/ /\ Key(id) \in Singletons /\ single[Key(id)] = NoObj
               /\ \A k \in Keys : k # Key(id) => single'[k] = single[k]
               /\ id \in DOMAIN calls' => ~Works(id)'
         /\ id \in DOMAIN calls' /\ Works(id)' /\ Key(id) \in Singletons
              => single[Key(id)] = NoObj
<1> DEFINE k == Key(id)
<1>1. /\ Placed(id) /\ Position(id) /\ k \in Keys /\ TypeOK /\ calls[id] \in CallRecord
      /\ stacks \in [Requests -> Seq(Obj \cup {NoObj})]
      /\ single \in [Keys -> Obj \cup {NoObj}] /\ handed \in [Keys -> SUBSET Obj]
  BY PositionIs DEF CallsInv, Placed, TypeOK
<1>2. ASSUME NEW r \in Results, Ends(id, r)
      PROVE  /\ AsCached' /\ (id \in DOMAIN calls' => ~Works(id)')
             /\ \/ single' = single
                \/ /\ k \in Singletons /\ single[k] = NoObj
                   /\ \A j \in Keys : j # k => single'[j] = single[j]
  <2>1. id \in DOMAIN calls' => ~Works(id)'
    <3>1. id \in DOMAIN calls' => calls'[id] = Fin(r)
      BY <1>1, <1>2, TreeAfterLeave DEF Ends
    <3> QED BY <3>1 DEF Works, Fin
  <2>2. CASE Builds(id) /\ k \in Singletons
    <3>1. /\ single' = [single EXCEPT ![k] = NextObj(k)]
          /\ handed' = [handed EXCEPT ![k] = @ \cup {NextObj(k)}]
      BY <2>2 DEF Builds, Store
    <3>2. single[k] = NoObj
      <4>1. calls[id].pc = "ready" => single[k] = NoObj
        BY <2>2 DEF Builds
      <4>2. calls[id].pc # "ready" => Works(id)
        BY <2>2 DEF Builds, Works
      <4> QED BY <2>2, <4>1, <4>2 DEF Unmade
    <3>3. handed[k] = {}
      <4>1. ASSUME NEW o \in handed[k] PROVE FALSE
        <5>1. o = NoObj /\ o \in Obj
          BY <1>1, <3>2 DEF AsCached
        <5>2. NoObj \notin Obj
          BY AsyncAssumption DEF Obj, AsyncAssumption
        <5> QED BY <5>1, <5>2
      <4> QED BY <4>1
    <3>4. AsCached'
      <4>1. ASSUME NEW j \in Keys, NEW o \in handed'[j] PROVE o = single'[j]
        <5>1. CASE j = k
          BY <1>1, <3>1, <3>3, <4>1, <5>1
        <5>2. CASE j # k
          BY <1>1, <3>1, <4>1, <5>2 DEF AsCached
        <5> QED BY <5>1, <5>2
      <4> QED BY <4>1 DEF AsCached
    <3> QED BY <1>1, <2>1, <2>2, <3>1, <3>2, <3>4
  <2>3. CASE Builds(id) /\ k \notin Singletons
    <3>1. single' = single /\ handed' = handed
      BY <2>3 DEF Builds, Store
    <3> QED BY <2>1, <3>1 DEF AsCached
  <2>4. CASE Hits(id)
    <3>1. single' = single /\ handed' = [handed EXCEPT ![k] = @ \cup {single[k]}]
      BY <2>4 DEF Hits
    <3>2. AsCached'
      BY <1>1, <3>1 DEF AsCached
    <3> QED BY <2>1, <3>1, <3>2
  <2>5. CASE FailsWith(id, r)
    <3>1. single' = single /\ handed' = handed
      BY <2>5 DEF FailsWith
    <3> QED BY <2>1, <3>1 DEF AsCached
  <2> QED BY <1>2, <2>2, <2>3, <2>4, <2>5 DEF Ends
<1>3. ASSUME Inside,
             id \in DOMAIN calls' /\ Works(id)' => single[k] = NoObj \/ k \notin Singletons
      PROVE  AsCached' /\ single' = single
  BY <1>3 DEF Inside, AsCached
<1>4. CASE Enter(id)
  <2>1. Inside /\ single[k] = NoObj
    BY <1>1, <1>4, TreeAfterEnter DEF Enter, Inside
  <2> QED BY <1>3, <2>1
<1>5. CASE NextLevel(id) \/ ToFactory(id)
  <2>1. Inside /\ Works(id)
    BY <1>5 DEF NextLevel, ToFactory, At, Works, Inside
  <2> QED BY <1>3, <2>1 DEF Unmade
<1>6. CASE Unwinds(id)
  <2>1. calls'[id] = Unwound(calls[id]) /\ Inside
    BY <1>1, <1>6, TreeAfterUnwinds DEF Unwinds, Finalize, Inside
  <2>2. ~Works(id)'
    BY <2>1 DEF Works, Unwound
  <2> QED BY <1>3, <2>1, <2>2
<1>7. CASE Close(id)
  <2>1. calls'[id].pc = "finalize" /\ Inside
    BY <1>1, <1>7, TreeAfterClose DEF Close, Inside
  <2>2. ~Works(id)'
    BY <2>1 DEF Works
  <2> QED BY <1>3, <2>1, <2>2
<1> QED BY <1>2, <1>4, <1>5, <1>6, <1>7 DEF Turns

LEMMA QuietAfterTurn ==
  ASSUME QuietInv, TreeInv', NEW id \in DOMAIN calls, Turns(id)
  PROVE  QuietInv'
<1> DEFINE q0 == Req(id)
           k == Key(id)
<1>1. CallsInv /\ TreeInv /\ CancelledGather /\ Position(id) /\ q0 \in Requests /\ OneRuns
  BY PositionIs DEF QuietInv, TreeInv, CallsInv, Placed
<1>2. PICK gone \in SUBSET Gone(id) : \E new : Shape(id, gone, new)
  BY <1>1, ShapeOfTurn
<1>3. PICK new : Shape(id, gone, new)
  BY <1>2
<1>4. /\ alone' = alone
      /\ \A q \in Requests : ends[q] \subseteq ends'[q]
      /\ \A q \in Requests : q # q0 => outcome'[q] = outcome[q]
      /\ \A q \in Requests : outcome'[q] \in Results \/ outcome'[q] = outcome[q]
  BY <1>3 DEF Shape
<1>5. Quiet' => Quiet
  BY <1>4 DEF Quiet, Clean
<1>6. OneRuns'
  <2>1. \A q \in Requests : outcome'[q] = "running" => outcome[q] = "running"
    BY <1>4 DEF Results, Errors
  <2> QED BY <1>1, <1>4, <2>1 DEF OneRuns
<1>7. ASSUME Quiet' PROVE InTurn' /\ AsCached' /\ Unmade'
  <2>1. Quiet /\ InTurn /\ AsCached /\ Unmade /\ Clean(q0)'
    BY <1>1, <1>5, <1>7 DEF QuietInv, Quiet
  <2>2. outcome[q0] = "running"
    BY <2>1 DEF InTurn
  <2>3. ASSUME NEW x \in DOMAIN calls PROVE Req(x) = q0
    <3>1. outcome[Req(x)] = "running" /\ Req(x) \in Requests
      BY <1>1, <2>1, PositionIs DEF InTurn, CallsInv, Placed
    <3> QED BY <1>1, <2>1, <2>2, <3>1 DEF OneRuns, Quiet
  <2>4. ASSUME NEW x \in DOMAIN calls' PROVE Req(x) = q0
    <3>1. CASE x = id
      BY <3>1
    <3>2. CASE x \in DOMAIN calls
      BY <2>3, <3>2
    <3>3. CASE x \in new
      BY <1>1, <1>3, <3>3, NewcomersAre
    <3> QED BY <1>3, <3>1, <3>2, <3>3, WhoRemains
  <2>5. InTurn'
    <3>1. CASE outcome'[q0] = outcome[q0]
      BY <2>2, <2>4, <3>1 DEF InTurn
    <3>2. CASE outcome'[q0] # outcome[q0]
      <4>1. PICK r \in Results : Ends(id, r)
        BY <3>2 DEF Turns, Enter, NextLevel, ToFactory, Unwinds, Finalize, Close
      <4>2. IsRoot(id)
        BY <1>1, <3>2, <4>1, EndLeaves
      <4>3. \A x \in DOMAIN calls' : Req(x) # q0
        BY <1>1, <1>3, <2>1, <4>1, <4>2, RootLeaves
      <4> QED BY <2>4, <4>3 DEF InTurn
    <3> QED BY <3>1, <3>2
  <2>6. /\ AsCached'
        /\ \/ single' = single
           \/ /\ k \in Singletons /\ single[k] = NoObj
              /\ \A j \in Keys : j # k => single'[j] = single[j]
              /\ id \in DOMAIN calls' => ~Works(id)'
        /\ id \in DOMAIN calls' /\ Works(id)' /\ k \in Singletons => single[k] = NoObj
    BY <1>1, <2>1, CacheAfterTurn
  <2>7. ASSUME NEW x \in DOMAIN calls', Works(x)', Key(x) \in Singletons
        PROVE  single'[Key(x)] = NoObj
    <3>1. CASE x = id
      BY <2>6, <2>7, <3>1
    <3>2. CASE x # id
      <4>1. x \in DOMAIN calls /\ calls'[x] = calls[x]
        <5>1. calls'[x].pc # "ready"
          BY <2>7 DEF Works
        <5> QED BY <1>3, <3>2, <5>1, WhoRemains, NewCallIs
      <4>2. single[Key(x)] = NoObj /\ Key(x) \in Keys
        BY <1>1, <2>1, <2>7, <4>1, PositionIs DEF Unmade, Works, CallsInv, Placed
      <4>3. Key(x) # k \/ single' = single
        <5>1. ASSUME Key(x) = k PROVE x = id
          BY <1>1, <2>3, <2>7, <4>1, <4>2, <5>1, OnePerKey
        <5> QED BY <3>2, <5>1
      <4> QED BY <2>6, <4>2, <4>3
    <3> QED BY <3>1, <3>2
  <2> QED BY <2>5, <2>6, <2>7 DEF Unmade
<1> QED BY <1>6, <1>7 DEF QuietInv

LEMMA QuietAfterRequest ==
  ASSUME QuietInv, TreeInv', NEW q \in Requests, Request(q)
  PROVE  QuietInv'
<1>1. /\ DOMAIN calls' = DOMAIN calls \cup {<<q, asked[q]>>}
      /\ \A x \in DOMAIN calls' \ DOMAIN calls : calls'[x] = NewCall
      /\ outcome' = [outcome EXCEPT ![q] = "running"]
      /\ alone' = (alone /\ \A p \in Requests : outcome[p] # "running")
      /\ ends' = ends /\ single' = single /\ handed' = handed
  BY DEF Request
<1>2. Req(<<q, asked[q]>>) = q
  BY DEF Req
<1>3. CallsInv /\ outcome \in [Requests -> Results \cup {"idle", "running"}] /\ alone \in BOOLEAN
  BY DEF QuietInv, TreeInv, CallsInv, TypeOK
<1>4. alone' => alone /\ \A p \in Requests : outcome[p] # "running"
  BY <1>1, <1>3
<1>5. OneRuns'
  BY <1>1, <1>3, <1>4 DEF OneRuns
<1>6. ASSUME Quiet' PROVE InTurn' /\ AsCached' /\ Unmade'
  <2>1. Quiet /\ alone'
    BY <1>1, <1>4, <1>6 DEF Quiet, Clean
  <2>2. InTurn /\ AsCached /\ Unmade
    BY <2>1 DEF QuietInv
  <2>3. DOMAIN calls = {}
    <3>1. ASSUME NEW x \in DOMAIN calls PROVE FALSE
      <4>1. Req(x) \in Requests
        BY <1>3, PositionIs DEF CallsInv, Placed
      <4> QED BY <1>4, <2>1, <2>2, <4>1 DEF InTurn
    <3> QED BY <3>1
  <2>4. InTurn'
    BY <1>1, <1>2, <1>3, <2>3 DEF InTurn
  <2>5. AsCached'
    BY <1>1, <2>2 DEF AsCached
  <2>6. Unmade'
    BY <1>1, <2>3, NewCallIs DEF Unmade, Works
  <2> QED BY <2>4, <2>5, <2>6
<1> QED BY <1>5, <1>6 DEF QuietInv

LEMMA QuietAfterCancel ==
  ASSUME QuietInv, TreeInv', NEW q \in Requests, Cancel(q)
  PROVE  QuietInv'
<1>1. DOMAIN calls' = DOMAIN calls /\ \A x \in DOMAIN calls : calls'[x].pc = calls[x].pc
  BY TreeAfterCancel DEF QuietInv, TreeInv
<1>2. UNCHANGED <<single, outcome, handed, ends, alone>>
  BY DEF Cancel
<1>3. OneRuns'
  BY <1>2 DEF QuietInv, OneRuns
<1>4. Quiet' => InTurn' /\ AsCached' /\ Unmade'
  BY <1>1, <1>2 DEF QuietInv, Quiet, Clean, InTurn, AsCached, Unmade, Works
<1> QED BY <1>3, <1>4 DEF QuietInv

LEMMA QuietKept ==
  ASSUME QuietInv, [Next]_vars
  PROVE  QuietInv'
<1>1. CallsInv /\ TreeInv /\ TreeInv'
  BY TreeKept DEF QuietInv, TreeInv
<1>2. CASE UNCHANGED vars
  BY <1>1, <1>2 DEF vars, QuietInv, OneRuns, Quiet, Clean, InTurn, AsCached, Unmade, Works
<1> QED BY <1>1, <1>2, Steps, QuietAfterRequest, QuietAfterCancel, QuietAfterTurn

\* Requests that do not overlap get the same instance of every singleton,
\* however their branches interleave, while nothing fails or is cancelled.
THEOREM SequentialsShare == Spec => []SequentialIdentity
<1>1. Init => QuietInv
  <2> SUFFICES ASSUME Init PROVE OneRuns /\ InTurn /\ AsCached /\ Unmade
    BY TreeAtFirst DEF QuietInv
  <2>1. /\ DOMAIN calls = {} /\ \A q \in Requests : outcome[q] = "idle"
        /\ \A k \in Keys : handed[k] = {}
    BY DEF Init
  <2> QED BY <2>1 DEF OneRuns, InTurn, AsCached, Unmade
<1>2. QuietInv /\ [Next]_vars => QuietInv'
  BY QuietKept
<1>3. QuietInv => SequentialIdentity
  BY DEF QuietInv, Quiet, Clean, AsCached, SequentialIdentity
<1> QED BY <1>1, <1>2, <1>3, PTL DEF Spec
=============================================================================
