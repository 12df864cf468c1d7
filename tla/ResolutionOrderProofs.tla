------------------------ MODULE ResolutionOrderProofs ------------------------
(***************************************************************************)
(* What the algorithms of ResolutionOrder compute, for every finite graph: *)
(* the depth-first search finds what is below the root, Kahn's algorithm   *)
(* puts dependencies first, and the levels hold what does not wait for a   *)
(* cycle.                                                                  *)
(***************************************************************************)
EXTENDS ResolutionOrder, SharedLemmas

-----------------------------------------------------------------------------
(* Filtered sequences *)

\* q holds the items of the first m of s that are in S, found at places f.
FoundAt(q, s, m, S, f) ==
  /\ f \in [1..Len(q) -> 1..m]
  /\ \A i, j \in 1..Len(q) : i < j => f[i] < f[j]
  /\ \A i \in 1..Len(q) : q[i] = s[f[i]] /\ q[i] \in S
  /\ \A n \in 1..m : s[n] \in S => \E i \in 1..Len(q) : f[i] = n

LEMMA OneMoreFound ==
  ASSUME NEW T, NEW s \in Seq(T), NEW S, NEW q \in Seq(T), NEW m \in 1..Len(s),
         NEW f, FoundAt(q, s, m - 1, S, f), s[m] \in S,
         NEW r, r = Append(q, s[m])
  PROVE  r \in Seq(T) /\ \E h : FoundAt(r, s, m, S, h)
<1>1. s[m] \in T /\ m \in Nat /\ m # 0
  BY LenProperties, ElementOfSeq
<1>2. Len(q) \in Nat
  BY LenProperties
<1> DEFINE n == Len(q)
<1>3. r \in Seq(T) /\ Len(r) = n + 1 /\ r[n + 1] = s[m] /\ \A i \in 1..n : r[i] = q[i]
  BY <1>1, AppendProperties
<1> HIDE DEF n
<1>4. /\ n \in Nat /\ f \in [1..n -> 1..m - 1]
      /\ \A i, j \in 1..n : i < j => f[i] < f[j]
      /\ \A i \in 1..n : q[i] = s[f[i]] /\ q[i] \in S
      /\ \A k \in 1..m - 1 : s[k] \in S => \E i \in 1..n : f[i] = k
  BY <1>2 DEF FoundAt, n
<1> DEFINE h == [i \in 1..n + 1 |-> IF i = n + 1 THEN m ELSE f[i]]
<1>5. ASSUME NEW i \in 1..n + 1, i # n + 1 PROVE i \in 1..n
  BY <1>4, <1>5
<1>6. h \in [1..n + 1 -> 1..m] /\ h[n + 1] = m /\ \A i \in 1..n : h[i] = f[i] /\ f[i] \in 1..m - 1
  BY <1>1, <1>4
<1> HIDE DEF h
<1>7. ASSUME NEW i \in 1..n + 1, NEW j \in 1..n + 1, i < j PROVE h[i] < h[j]
  <2>1. i \in 1..n
    BY <1>4, <1>7
  <2>2. CASE j = n + 1
    BY <1>1, <1>6, <2>1, <2>2
  <2>3. CASE j # n + 1
    BY <1>4, <1>5, <1>6, <1>7, <2>1, <2>3
  <2>4. QED
    BY <2>2, <2>3
<1>8. ASSUME NEW i \in 1..n + 1 PROVE r[i] = s[h[i]] /\ r[i] \in S
  BY <1>3, <1>4, <1>5, <1>6
<1>9. ASSUME NEW k \in 1..m, s[k] \in S PROVE \E i \in 1..n + 1 : h[i] = k
  <2>1. CASE k = m
    BY <1>4, <1>6, <2>1
  <2>2. CASE k # m
    <3>1. k \in 1..m - 1
      BY <1>1, <2>2
    <3>2. PICK i \in 1..n : f[i] = k
      BY <1>4, <1>9, <3>1
    <3>3. i \in 1..n + 1
      BY <1>4
    <3>4. QED
      BY <1>6, <3>2, <3>3
  <2>3. QED
    BY <2>1, <2>2
<1>10. FoundAt(r, s, m, S, h)
  BY <1>3, <1>6, <1>7, <1>8, <1>9 DEF FoundAt
<1>11. QED
  BY <1>3, <1>10

LEMMA NotOneMore ==
  ASSUME NEW T, NEW s \in Seq(T), NEW S, NEW q \in Seq(T), NEW m \in 1..Len(s),
         NEW f, FoundAt(q, s, m - 1, S, f), s[m] \notin S
  PROVE  FoundAt(q, s, m, S, f)
<1>1. m \in Nat /\ m # 0 /\ \A k \in 1..m : k # m => k \in 1..m - 1
  BY LenProperties
<1>2. \A k \in 1..m - 1 : k \in 1..m
  BY <1>1
<1>3. f \in [1..Len(q) -> 1..m]
  BY <1>2 DEF FoundAt
<1>4. \A n \in 1..m : s[n] \in S => \E i \in 1..Len(q) : f[i] = n
  BY <1>1 DEF FoundAt
<1>5. QED
  BY <1>3, <1>4 DEF FoundAt

\* Keep gives the items that are in S, in their order.
LEMMA KeepIs ==
  ASSUME NEW T, NEW s \in Seq(T), NEW S
  PROVE  Keep(s, S) \in Seq(T) /\ \E f : FoundAt(Keep(s, S), s, Len(s), S, f)
<1> DEFINE N == Len(s)
           W == CHOOSE h : h = [n \in 0..N |-> IF n = 0 THEN <<>>
                                  ELSE IF s[n] \in S THEN Append(h[n - 1], s[n]) ELSE h[n - 1]]
           F == [n \in 1..N |-> [q \in Seq(T) |-> IF s[n] \in S THEN Append(q, s[n]) ELSE q]]
<1>1. N \in Nat /\ Keep(s, S) = W[N]
  BY LenProperties DEF Keep
<1>2. \A n \in 1..N : s[n] \in T
  BY ElementOfSeq
<1>3. F \in [1..N -> [Seq(T) -> Seq(T)]]
  BY <1>2, AppendProperties
<1>4. \A n \in 1..N, q \in Seq(T) : F[n][q] = IF s[n] \in S THEN Append(q, s[n]) ELSE q
  OBVIOUS
<1> HIDE DEF F, N
<1>5. <<>> \in Seq(T)
  BY EmptySeq
<1>6. PICK f \in [0..N -> Seq(T)] : f[0] = <<>> /\ \A n \in 1..N : f[n] = F[n][f[n - 1]]
  <2> DEFINE Q == Seq(T)
             e == <<>>
  <2>1. e \in Q /\ F \in [1..N -> [Q -> Q]] /\ N \in Nat
    BY <1>1, <1>3, <1>5
  <2> HIDE DEF Q, e
  <2>2. \E f : Runs(Q, e, N, F, f)
    BY <2>1, Iterated
  <2>3. QED
    BY <2>2 DEF Q, e, Runs
<1>7. \A n \in 0..N : n # 0 => n \in 1..N /\ n - 1 \in 0..N
  BY <1>1
<1>8. f = [n \in 0..N |-> IF n = 0 THEN <<>>
             ELSE IF s[n] \in S THEN Append(f[n - 1], s[n]) ELSE f[n - 1]]
  BY <1>4, <1>6, <1>7
<1>9. W = [n \in 0..N |-> IF n = 0 THEN <<>>
             ELSE IF s[n] \in S THEN Append(W[n - 1], s[n]) ELSE W[n - 1]]
  BY <1>8
<1> HIDE DEF W
<1> DEFINE Good == {n \in 0..N : W[n] \in Seq(T) /\ \E h : FoundAt(W[n], s, n, S, h)}
<1>10. 0 \in Good
  <2>1. W[0] = <<>> /\ 0 \in 0..N
    BY <1>1, <1>9
  <2> DEFINE e == [i \in 1..0 |-> 0]
  <2>2. Len(W[0]) = 0 /\ 1..0 = {}
    BY <2>1, <1>5, EmptySeq
  <2>3. FoundAt(W[0], s, 0, S, e)
    BY <2>2 DEF FoundAt
  <2>4. QED
    BY <1>5, <2>1, <2>3
<1>11. ASSUME NEW n \in 1..N, n - 1 \in Good PROVE n \in Good
  <2>1. PICK h : FoundAt(W[n - 1], s, n - 1, S, h)
    BY <1>11
  <2>2. W[n - 1] \in Seq(T) /\ n \in 0..N /\ n # 0 /\ n \in 1..Len(s)
    BY <1>1, <1>11 DEF N
  <2>3. W[n] = IF s[n] \in S THEN Append(W[n - 1], s[n]) ELSE W[n - 1]
    BY <1>9, <2>2
  <2>4. CASE s[n] \in S
    <3>1. W[n] = Append(W[n - 1], s[n])
      BY <2>3, <2>4
    <3>2. W[n] \in Seq(T) /\ \E x : FoundAt(W[n], s, n, S, x)
      BY <2>1, <2>2, <2>4, <3>1, OneMoreFound
    <3>3. QED
      BY <2>2, <3>2
  <2>5. CASE s[n] \notin S
    <3>1. W[n] = W[n - 1]
      BY <2>3, <2>5
    <3>2. FoundAt(W[n], s, n, S, h)
      BY <2>1, <2>2, <2>5, <3>1, NotOneMore
    <3>3. QED
      BY <2>2, <3>1, <3>2
  <2>6. QED
    BY <2>4, <2>5
<1> HIDE DEF Good
<1>12. \A n \in 0..N : n \in Good
  BY <1>1, <1>10, <1>11, UpTo
<1>13. N \in Good
  BY <1>1, <1>12
<1>14. QED
  BY <1>1, <1>13 DEF Good, N

\* What follows for the set of its items; nothing comes twice if it did not before.
LEMMA KeepSet ==
  ASSUME NEW T, NEW s \in Seq(T), NEW S
  PROVE  /\ Keep(s, S) \in Seq(T)
         /\ ToSet(Keep(s, S)) = ToSet(s) \cap S
         /\ IsInjective(s) => IsInjective(Keep(s, S))
<1> DEFINE q == Keep(s, S)
<1>1. PICK f : q \in Seq(T) /\ FoundAt(q, s, Len(s), S, f)
  BY KeepIs
<1> HIDE DEF q
<1>2. /\ DOMAIN q = 1..Len(q) /\ Len(q) \in Nat
      /\ DOMAIN s = 1..Len(s) /\ Len(s) \in Nat
  BY <1>1, LenProperties
<1>3. ToSet(q) = ToSet(s) \cap S
  <2>1. ASSUME NEW x \in ToSet(q) PROVE x \in ToSet(s) \cap S
    BY <1>1, <1>2 DEF ToSet, FoundAt
  <2>2. ASSUME NEW x \in ToSet(s) \cap S PROVE x \in ToSet(q)
    <3>1. PICK n \in 1..Len(s) : x = s[n]
      BY <1>2 DEF ToSet
    <3>2. PICK i \in 1..Len(q) : f[i] = n
      BY <1>1, <3>1 DEF FoundAt
    <3>3. QED
      BY <1>1, <1>2, <3>1, <3>2 DEF ToSet, FoundAt
  <2>3. QED
    BY <2>1, <2>2
<1>4. ASSUME IsInjective(s), NEW i \in 1..Len(q), NEW j \in 1..Len(q), q[i] = q[j]
      PROVE  i = j
  <2>1. f[i] \in 1..Len(s) /\ f[j] \in 1..Len(s) /\ s[f[i]] = s[f[j]]
    BY <1>1, <1>4 DEF FoundAt
  <2>2. f[i] = f[j]
    BY <1>2, <1>4, <2>1 DEF IsInjective
  <2>3. ~(i < j) /\ ~(j < i)
    BY <1>1, <2>1, <2>2 DEF FoundAt
  <2>4. QED
    BY <2>3
<1>5. QED
  BY <1>1, <1>2, <1>3, <1>4 DEF q, IsInjective

-----------------------------------------------------------------------------
(* What is below a key *)

IsGraph(g, keys) ==
  IsFiniteSet(keys) /\ DOMAIN g \subseteq keys /\ \A k \in DOMAIN g : g[k] \in Seq(keys)

LEMMA DepsAre ==
  ASSUME NEW g, NEW keys, IsGraph(g, keys), NEW k
  PROVE  /\ DepsOf(g, k) \in Seq(keys) /\ Len(DepsOf(g, k)) \in Nat
         /\ DOMAIN DepsOf(g, k) = 1..Len(DepsOf(g, k))
         /\ Needs(g, k) \subseteq keys
<1>1. DepsOf(g, k) \in Seq(keys)
  BY EmptySeq DEF IsGraph, DepsOf
<1>2. QED
  BY <1>1, LenProperties DEF Needs, ToSet

Closed(g, S) == \A i \in S : Needs(g, i) \subseteq S
Grown(g, S) == UNION {{j} \cup Needs(g, j) : j \in S}

LEMMA GrownIs ==
  ASSUME NEW g, NEW keys, IsGraph(g, keys), NEW S \in SUBSET keys
  PROVE  /\ S \subseteq Grown(g, S) /\ Grown(g, S) \subseteq keys
         /\ Closed(g, S) => Grown(g, S) = S
         /\ \/ Closed(g, S)
            \/ Cardinality(Grown(g, S)) >= Cardinality(S) + 1
         /\ \A U : S \subseteq U /\ Closed(g, U) => Grown(g, S) \subseteq U
<1>1. S \subseteq Grown(g, S) /\ Grown(g, S) \subseteq keys
  BY DepsAre DEF Grown
<1>2. Closed(g, S) => Grown(g, S) = S
  BY DEF Grown, Closed
<1>3. ASSUME ~Closed(g, S) PROVE Cardinality(Grown(g, S)) >= Cardinality(S) + 1
  <2>1. S # Grown(g, S)
    BY <1>3 DEF Grown, Closed
  <2>2. IsFiniteSet(Grown(g, S)) /\ Cardinality(Grown(g, S)) \in Nat
    BY <1>1, FS_Subset, FS_CardinalityType DEF IsGraph
  <2>3. Cardinality(S) <= Cardinality(Grown(g, S)) /\ Cardinality(S) # Cardinality(Grown(g, S))
    BY <1>1, <2>1, <2>2, FS_Subset
  <2>4. Cardinality(S) \in Nat
    BY <1>1, <2>2, FS_Subset, FS_CardinalityType
  <2>5. QED
    BY <2>2, <2>3, <2>4
<1>4. \A U : S \subseteq U /\ Closed(g, U) => Grown(g, S) \subseteq U
  BY DEF Grown, Closed
<1>5. QED
  BY <1>1, <1>2, <1>3, <1>4

\* What is below a key is the least set that has it and what its members need:
\* in as many rounds as there are keys, a round adds nothing.
LEMMA BelowIs ==
  ASSUME NEW g, NEW keys, IsGraph(g, keys), NEW k \in keys
  PROVE  /\ k \in Below(g, keys, k) /\ Below(g, keys, k) \subseteq keys
         /\ Closed(g, Below(g, keys, k))
         /\ \A S \in SUBSET keys : k \in S /\ Closed(g, S) => Below(g, keys, k) \subseteq S
<1> DEFINE N == Cardinality(keys)
           W == CHOOSE h : h = [n \in 0..N |-> IF n = 0 THEN {k}
                                  ELSE UNION {{j} \cup Needs(g, j) : j \in h[n - 1]}]
           Q == SUBSET keys
           F == [n \in 1..N |-> [S \in Q |-> Grown(g, S)]]
           a == {k}
<1>1. N \in Nat
  BY FS_CardinalityType DEF IsGraph
<1>2. Below(g, keys, k) = W[N]
  BY DEF Below
<1>3. a \in Q /\ F \in [1..N -> [Q -> Q]]
  BY GrownIs
<1>4. \A n \in 1..N, S \in Q : F[n][S] = Grown(g, S)
  OBVIOUS
<1> HIDE DEF F, N, Q, a
<1>5. PICK f \in [0..N -> Q] : f[0] = a /\ \A n \in 1..N : f[n] = F[n][f[n - 1]]
  <2>1. \E f : Runs(Q, a, N, F, f)
    BY <1>1, <1>3, Iterated
  <2>2. QED
    BY <2>1 DEF Runs
<1>6. \A n \in 0..N : n # 0 => n \in 1..N /\ n - 1 \in 0..N
  BY <1>1
<1>7. f = [n \in 0..N |-> IF n = 0 THEN {k} ELSE UNION {{j} \cup Needs(g, j) : j \in f[n - 1]}]
  BY <1>4, <1>5, <1>6 DEF Grown, a
<1>8. W = [n \in 0..N |-> IF n = 0 THEN {k} ELSE UNION {{j} \cup Needs(g, j) : j \in W[n - 1]}]
  BY <1>7
<1> HIDE DEF W
<1>9. W[0] = {k} /\ \A n \in 1..N : W[n] = Grown(g, W[n - 1])
  <2>1. 0 \in 0..N /\ \A n \in 1..N : n \in 0..N /\ n # 0
    BY <1>1
  <2>2. QED
    BY <1>8, <2>1 DEF Grown
<1> DEFINE Good(n) == /\ k \in W[n] /\ W[n] \subseteq keys
                      /\ Closed(g, W[n]) \/ Cardinality(W[n]) >= n + 1
                      /\ \A S \in SUBSET keys : k \in S /\ Closed(g, S) => W[n] \subseteq S
           G == {n \in 0..N : Good(n)}
<1>10. 0 \in G
  <2>1. 0 \in 0..N
    BY <1>1
  <2>2. W[0] = {k}
    BY <1>9
  <2>3. Cardinality(W[0]) >= 0 + 1
    <3>1. Cardinality(W[0]) = 1
      BY <2>2, FS_Singleton
    <3>2. QED
      BY <3>1
  <2>4. Good(0)
    BY <2>2, <2>3
  <2>5. QED
    BY <2>1, <2>4
<1>11. ASSUME NEW n \in 1..N, n - 1 \in G PROVE n \in G
  <2>1. Good(n - 1) /\ W[n] = Grown(g, W[n - 1]) /\ n \in 0..N
    BY <1>1, <1>9, <1>11
  <2> DEFINE S == W[n - 1]
  <2>2. S \in SUBSET keys /\ k \in S /\ (Closed(g, S) \/ Cardinality(S) >= n)
    BY <2>1
  <2>3. /\ S \subseteq W[n] /\ W[n] \subseteq keys
        /\ Closed(g, S) => W[n] = S
        /\ Closed(g, S) \/ Cardinality(W[n]) >= Cardinality(S) + 1
        /\ \A U : S \subseteq U /\ Closed(g, U) => W[n] \subseteq U
    BY <2>1, GrownIs
  <2>4. S \in SUBSET keys /\ k \in S
    BY <2>1
  <2>5. Cardinality(S) \in Nat /\ Cardinality(W[n]) \in Nat
    BY <2>3, <2>4, FS_Subset, FS_CardinalityType DEF IsGraph
  <2>6. \A U \in SUBSET keys : k \in U /\ Closed(g, U) => W[n] \subseteq U
    BY <2>1, <2>3
  <2>7. Closed(g, S) \/ Cardinality(S) >= n
    BY <2>1
  <2> HIDE DEF S
  <2>8. Closed(g, W[n]) \/ Cardinality(W[n]) >= n + 1
    <3>1. CASE Closed(g, S)
      BY <2>3, <3>1
    <3>2. CASE ~Closed(g, S)
      BY <2>3, <2>5, <2>7, <3>2
    <3>3. QED
      BY <3>1, <3>2
  <2>9. QED
    BY <2>1, <2>3, <2>4, <2>6, <2>8
<1> HIDE DEF G
<1>12. \A n \in 1..N : n - 1 \in G => n \in G
  BY <1>11
<1>13. \A n \in 0..N : n \in G
  BY <1>1, <1>10, <1>12, UpTo
<1>14. Good(N)
  BY <1>1, <1>13 DEF G
<1>15. ~(Cardinality(W[N]) >= N + 1)
  <2>1. Cardinality(W[N]) <= N /\ Cardinality(W[N]) \in Nat
    BY <1>14, FS_Subset, FS_CardinalityType DEF IsGraph, N
  <2>2. QED
    BY <1>1, <2>1
<1>16. QED
  BY <1>2, <1>14, <1>15

LEMMA BelowBelow ==
  ASSUME NEW g, NEW keys, IsGraph(g, keys), NEW k \in keys, NEW j \in Below(g, keys, k)
  PROVE  j \in keys /\ Below(g, keys, j) \subseteq Below(g, keys, k)
<1>1. j \in keys
  BY BelowIs
<1>2. QED
  BY <1>1, BelowIs

\* Keys of which each needs another of them wait for a cycle: the one with the
\* least below it is below what it needs.
LEMMA WaitingIsStuck ==
  ASSUME NEW g, NEW keys, IsGraph(g, keys),
         NEW L \in SUBSET keys, \A i \in L : Needs(g, i) \cap L # {}, NEW k \in L
  PROVE  Stuck(g, keys, k)
<1> DEFINE B(j) == Below(g, keys, j)
           C == L \cap B(k)
           Sizes == {Cardinality(B(j)) : j \in C}
<1>1. \A j \in keys : IsFiniteSet(B(j)) /\ Cardinality(B(j)) \in Nat
  BY BelowIs, FS_Subset, FS_CardinalityType DEF IsGraph
<1>2. Sizes \in SUBSET Nat /\ k \in C
  BY <1>1, BelowIs
<1>3. Sizes # {}
  BY <1>2
<1>4. PICK m \in Sizes : \A n \in Sizes : m <= n
  BY <1>2, <1>3, LeastNumber
<1>5. PICK j \in C : m = Cardinality(B(j))
  OBVIOUS
<1>6. PICK d \in Needs(g, j) : d \in L
  OBVIOUS
<1>7. j \in keys /\ d \in keys /\ j \in B(j) /\ d \in B(j) /\ B(j) \subseteq B(k)
  BY <1>6, BelowIs, BelowBelow DEF Closed
<1>8. d \in C /\ B(d) \subseteq B(j)
  BY <1>6, <1>7, BelowBelow
<1>9. Cardinality(B(j)) <= Cardinality(B(d))
  BY <1>4, <1>5, <1>8
<1>10. B(d) = B(j)
  <2>1. Cardinality(B(d)) <= Cardinality(B(j)) /\ (Cardinality(B(d)) = Cardinality(B(j)) => B(d) = B(j))
    BY <1>1, <1>7, <1>8, FS_Subset
  <2>2. Cardinality(B(d)) \in Nat /\ Cardinality(B(j)) \in Nat
    BY <1>1, <1>7
  <2> HIDE DEF B
  <2>3. QED
    BY <1>9, <2>1, <2>2
<1>11. QED
  BY <1>5, <1>6, <1>7, <1>10 DEF Stuck

\* A key does not wait for a cycle if what it needs can be numbered downwards.
LEMMA NumberedIsNotStuck ==
  ASSUME NEW g, NEW keys, IsGraph(g, keys),
         NEW S \in SUBSET keys, Closed(g, S), NEW r \in [S -> Nat],
         \A i \in S : \A d \in Needs(g, i) : r[d] < r[i], NEW k \in S
  PROVE  ~Stuck(g, keys, k)
<1> SUFFICES ASSUME NEW j \in Below(g, keys, k), NEW d \in Needs(g, j), j \in Below(g, keys, d)
             PROVE  FALSE
  BY DEF Stuck
<1>1. j \in S /\ d \in S /\ d \in keys
  BY BelowIs DEF Closed
<1> DEFINE U == {i \in S : r[i] <= r[d]}
<1>2. Closed(g, U)
  <2> SUFFICES ASSUME NEW i \in U, NEW e \in Needs(g, i) PROVE e \in U
    BY DEF Closed
  <2>1. e \in S /\ r[e] < r[i] /\ r[i] <= r[d]
    BY DEF Closed
  <2>2. r[e] \in Nat /\ r[i] \in Nat /\ r[d] \in Nat
    BY <1>1, <2>1
  <2>3. QED
    BY <2>1, <2>2
<1>3. d \in U /\ U \in SUBSET keys
  BY <1>1
<1> HIDE DEF U
<1>4. j \in U
  BY <1>1, <1>2, <1>3, BelowIs
<1>5. r[j] <= r[d] /\ r[d] < r[j] /\ r[j] \in Nat /\ r[d] \in Nat
  BY <1>1, <1>4 DEF U
<1>6. QED
  BY <1>5

-----------------------------------------------------------------------------
(* The depth-first search *)

LEMMA PushesGrow ==
  ASSUME NEW g, NEW keys, IsGraph(g, keys), NEW S \in SUBSET keys
  PROVE  /\ IsFiniteSet(Pushes(g, S)) /\ Cardinality(Pushes(g, S)) \in Nat
         /\ Cardinality(Pushes(g, S)) <= Cardinality(Pushes(g, DOMAIN g))
         /\ \A k \in keys \ S :
              Cardinality(Pushes(g, S \cup {k})) = Cardinality(Pushes(g, S)) + Len(DepsOf(g, k))
<1> DEFINE D == DOMAIN g
           P(k) == {k} \X DOMAIN g[k]
           f == [k \in D |-> P(k)]
           Parts == {P(k) : k \in D}
<1>1. IsFiniteSet(D)
  BY FS_Subset DEF IsGraph
<1>2. ASSUME NEW k \in D
      PROVE  IsFiniteSet(P(k)) /\ Cardinality(P(k)) = Len(DepsOf(g, k))
  <2>1. DOMAIN g[k] = 1..Len(DepsOf(g, k)) /\ Len(DepsOf(g, k)) \in Nat
    BY DepsAre DEF DepsOf
  <2> DEFINE n == Len(DepsOf(g, k))
             I == 1..n
  <2>2. IsFiniteSet(I) /\ Cardinality(I) = n
    <3>1. n \in Nat
      BY <2>1
    <3> HIDE DEF n
    <3>2. IsFiniteSet(1..n) /\ Cardinality(1..n) = IF 1 > n THEN 0 ELSE n - 1 + 1
      BY <3>1, FS_Interval
    <3>3. QED
      BY <3>1, <3>2
  <2> HIDE DEF I
  <2>3. IsFiniteSet({k}) /\ Cardinality({k}) = 1
    BY FS_Singleton
  <2>4. IsFiniteSet({k} \X I) /\ Cardinality({k} \X I) = Cardinality({k}) * Cardinality(I)
    BY <2>2, <2>3, FS_Product
  <2>5. P(k) = {k} \X I
    BY <2>1 DEF I
  <2> HIDE DEF P
  <2>6. Cardinality({k} \X I) = n
    <3>1. n \in Nat
      BY <2>1
    <3> HIDE DEF n
    <3>2. Cardinality({k} \X I) = 1 * n
      BY <2>2, <2>3, <2>4
    <3>3. QED
      BY <3>1, <3>2
  <2>7. QED
    BY <2>4, <2>5, <2>6
<1> HIDE DEF P
<1>3. f \in Surjection(D, Parts)
  BY DEF Surjection
<1> HIDE DEF f
<1>4. IsFiniteSet(Parts)
  BY <1>1, <1>3, FS_Surjection
<1>5. \A U \in Parts : IsFiniteSet(U)
  BY <1>2
<1>6. IsFiniteSet(UNION Parts)
  BY <1>4, <1>5, FS_UNION
<1>7. \A U : Pushes(g, U) = UNION {P(k) : k \in U \cap D}
  BY DEF Pushes, P
<1>8. Pushes(g, D) = UNION Parts
  BY <1>7
<1>9. Pushes(g, S) \subseteq UNION Parts
  BY <1>7
<1>10. /\ IsFiniteSet(Pushes(g, S)) /\ Cardinality(Pushes(g, S)) \in Nat
       /\ Cardinality(Pushes(g, S)) <= Cardinality(Pushes(g, DOMAIN g))
  BY <1>6, <1>8, <1>9, FS_Subset, FS_CardinalityType
<1>11. ASSUME NEW k \in keys \ S
       PROVE  Cardinality(Pushes(g, S \cup {k})) = Cardinality(Pushes(g, S)) + Len(DepsOf(g, k))
  <2>1. CASE k \in D
    <3>1. Pushes(g, S \cup {k}) = Pushes(g, S) \cup P(k)
      BY <1>7, <2>1
    <3>2. Pushes(g, S) \cap P(k) = {}
      BY DEF Pushes, P
    <3>3. IsFiniteSet(P(k)) /\ Cardinality(P(k)) = Len(DepsOf(g, k))
      BY <1>2, <2>1
    <3>4. Cardinality(Pushes(g, S) \cup P(k))
            = Cardinality(Pushes(g, S)) + Cardinality(P(k)) - Cardinality(Pushes(g, S) \cap P(k))
      BY <1>10, <3>3, FS_Union
    <3>5. Cardinality(Pushes(g, S) \cap P(k)) = 0
      BY <3>2, FS_EmptySet
    <3>6. Len(DepsOf(g, k)) \in Nat
      BY DepsAre
    <3> DEFINE a == Cardinality(Pushes(g, S))
               b == Cardinality(P(k))
               c == Cardinality(Pushes(g, S) \cup P(k))
    <3>7. c = a + b - 0 /\ a \in Nat /\ b \in Nat
      BY <1>10, <3>3, <3>4, <3>5, <3>6
    <3> HIDE DEF a, b, c
    <3>8. c = a + b
      BY <3>7
    <3>9. QED
      BY <3>1, <3>3, <3>8 DEF a, b, c
  <2>2. CASE k \notin D
    <3>1. Pushes(g, S \cup {k}) = Pushes(g, S)
      <4>1. (S \cup {k}) \cap D = S \cap D
        BY <2>2
      <4>2. QED
        BY <1>7, <4>1
    <3>2. DepsOf(g, k) = <<>> /\ Len(DepsOf(g, k)) = 0
      BY <2>2, EmptySeq DEF DepsOf
    <3>3. QED
      BY <1>10, <3>1, <3>2
  <2>3. QED
    BY <2>1, <2>2
<1>12. QED
  BY <1>10, <1>11

\* After n pops: what was found is below the root, what it needs has been found or
\* is on the stack, and every pop was of the root or of what a declaration pushed.
Walked(g, keys, root, n, s) ==
  /\ s = [seen |-> s.seen, stack |-> s.stack]
  /\ s.seen \in Seq(keys) /\ s.stack \in Seq(keys)
  /\ IsInjective(s.seen)
  /\ ToSet(s.seen) \cup ToSet(s.stack) \subseteq Below(g, keys, root)
  /\ root \in ToSet(s.seen) \cup ToSet(s.stack)
  /\ \A i \in ToSet(s.seen) : Needs(g, i) \subseteq ToSet(s.seen) \cup ToSet(s.stack)
  /\ s.stack = <<>> \/ n + Len(s.stack) = 1 + Cardinality(Pushes(g, ToSet(s.seen)))

LEMMA VisitWalks ==
  ASSUME NEW g, NEW keys, IsGraph(g, keys), NEW root \in keys, NEW n \in Nat,
         NEW s, Walked(g, keys, root, n, s)
  PROVE  Walked(g, keys, root, n + 1, Visit(g, s))
<1>1. CASE s.stack = <<>>
  BY <1>1 DEF Walked, Visit
<1>2. CASE s.stack # <<>>
  <2> DEFINE k == Last(s.stack)
             rest == Front(s.stack)
             B == Below(g, keys, root)
  <2>1. /\ k \in keys /\ rest \in Seq(keys) /\ Len(rest) = Len(s.stack) - 1
        /\ Len(s.stack) \in Nat \ {0} /\ ToSet(s.stack) = ToSet(rest) \cup {k}
    BY <1>2, LastOff DEF Walked
  <2>2. k \in B /\ Needs(g, k) \subseteq B
    BY <2>1, BelowIs DEF Walked, Closed
  <2>3. Visit(g, s) = IF k \in ToSet(s.seen) THEN [s EXCEPT !.stack = rest]
                      ELSE [seen |-> Append(s.seen, k), stack |-> rest \o DepsOf(g, k)]
    BY <1>2 DEF Visit
  <2>4. ToSet(s.seen) \in SUBSET keys
    BY BelowIs DEF Walked
  <2>5. n + Len(s.stack) = 1 + Cardinality(Pushes(g, ToSet(s.seen)))
    BY <1>2 DEF Walked
  <2>6. Cardinality(Pushes(g, ToSet(s.seen))) \in Nat
    BY <2>4, PushesGrow
  <2> HIDE DEF k, rest
  <2>7. CASE k \in ToSet(s.seen)
    <3>1. Visit(g, s).seen = s.seen /\ Visit(g, s).stack = rest
          /\ Visit(g, s) = [seen |-> s.seen, stack |-> rest]
      BY <2>3, <2>7 DEF Walked
    <3>2. n + 1 + Len(rest) = 1 + Cardinality(Pushes(g, ToSet(s.seen)))
      <4> DEFINE c == Cardinality(Pushes(g, ToSet(s.seen)))
                 m == Len(rest)
                 p == Len(s.stack)
      <4>1. m = p - 1 /\ p \in Nat /\ n + p = 1 + c /\ c \in Nat
        BY <2>1, <2>5, <2>6
      <4> HIDE DEF c, m, p
      <4>2. n + 1 + m = 1 + c
        BY <4>1
      <4>3. QED
        BY <4>2 DEF c, m
    <3>3. QED
      BY <2>1, <2>7, <3>1, <3>2 DEF Walked
  <2>8. CASE k \notin ToSet(s.seen)
    <3> DEFINE seen == Append(s.seen, k)
               stack == rest \o DepsOf(g, k)
    <3>1. Visit(g, s) = [seen |-> seen, stack |-> stack]
      BY <2>3, <2>8
    <3>9. seen = Append(s.seen, k) /\ stack = rest \o DepsOf(g, k)
      OBVIOUS
    <3> HIDE DEF seen, stack
    <3>10. Visit(g, s).seen = seen /\ Visit(g, s).stack = stack
      BY <3>1
    <3>2. /\ seen \in Seq(keys) /\ ToSet(seen) = ToSet(s.seen) \cup {k} /\ IsInjective(seen)
      <4> DEFINE x == s.seen
      <4>1. x \in Seq(keys) /\ IsInjective(x) /\ k \notin ToSet(x) /\ Appended(seen, x, k)
        BY <2>8, <3>9 DEF Walked, Appended
      <4> HIDE DEF x
      <4>2. seen \in Seq(keys) /\ ToSet(seen) = ToSet(x) \cup {k} /\ IsInjective(seen)
        BY <2>1, <4>1, ItemsAppended
      <4>3. QED
        BY <4>2 DEF x
    <3>3. DepsOf(g, k) \in Seq(keys) /\ ToSet(DepsOf(g, k)) = Needs(g, k)
      BY DepsAre DEF Needs
    <3>4. /\ stack \in Seq(keys) /\ Len(stack) = Len(rest) + Len(DepsOf(g, k))
          /\ Len(rest) \in Nat /\ Len(DepsOf(g, k)) \in Nat
          /\ ToSet(stack) = ToSet(rest) \cup Needs(g, k)
      <4> DEFINE t == DepsOf(g, k)
      <4>1. t \in Seq(keys) /\ Joined(stack, rest, t) /\ ToSet(t) = Needs(g, k)
        BY <3>3, <3>9 DEF Joined
      <4> HIDE DEF t
      <4>2. /\ stack \in Seq(keys) /\ Len(stack) = Len(rest) + Len(t) /\ Len(rest) \in Nat
            /\ Len(t) \in Nat /\ ToSet(stack) = ToSet(rest) \cup ToSet(t)
        BY <2>1, <4>1, ItemsJoined
      <4>3. QED
        BY <4>1, <4>2 DEF t
    <3>5. Cardinality(Pushes(g, ToSet(seen)))
            = Cardinality(Pushes(g, ToSet(s.seen))) + Len(DepsOf(g, k))
      BY <2>1, <2>4, <2>8, <3>2, PushesGrow
    <3>6. n + 1 + Len(stack) = 1 + Cardinality(Pushes(g, ToSet(seen)))
      <4> DEFINE c == Cardinality(Pushes(g, ToSet(s.seen)))
                 e == Cardinality(Pushes(g, ToSet(seen)))
                 l == Len(DepsOf(g, k))
                 m == Len(rest)
                 p == Len(s.stack)
                 q == Len(stack)
      <4>1. /\ e = c + l /\ q = m + l /\ m = p - 1 /\ n + p = 1 + c
            /\ c \in Nat /\ l \in Nat /\ m \in Nat /\ p \in Nat
        BY <2>1, <2>5, <2>6, <3>4, <3>5
      <4> HIDE DEF c, e, l, m, p, q
      <4>2. n + 1 + q = 1 + e
        BY <4>1
      <4>3. QED
        BY <4>2 DEF q, e
    <3>7. /\ ToSet(seen) \cup ToSet(stack) \subseteq B
          /\ root \in ToSet(seen) \cup ToSet(stack)
          /\ \A i \in ToSet(seen) : Needs(g, i) \subseteq ToSet(seen) \cup ToSet(stack)
      BY <2>1, <2>2, <3>2, <3>4 DEF Walked
    <3>8. QED
      BY <3>1, <3>2, <3>4, <3>6, <3>7, <3>10 DEF Walked
  <2>9. QED
    BY <2>7, <2>8
<1>3. QED
  BY <1>1, <1>2

\* The search finds what is below the root, each key once.
LEMMA ReachableIs ==
  ASSUME NEW g, NEW keys, IsGraph(g, keys), NEW root \in keys
  PROVE  /\ Reachable(g, root) \in Seq(keys) /\ IsInjective(Reachable(g, root))
         /\ ToSet(Reachable(g, root)) = Below(g, keys, root)
<1> DEFINE N == 1 + Cardinality(Pushes(g, DOMAIN g))
           a == [seen |-> <<>>, stack |-> <<root>>]
           W == CHOOSE h : h = [n \in 0..N |-> IF n = 0 THEN [seen |-> <<>>, stack |-> <<root>>]
                                               ELSE Visit(g, h[n - 1])]
           States == [seen : Seq(keys), stack : Seq(keys)]
           Q == {s \in States : \E n \in Nat : Walked(g, keys, root, n, s)}
           F == [n \in 1..N |-> [s \in Q |-> Visit(g, s)]]
<1>1. N \in Nat
  <2>1. Cardinality(Pushes(g, DOMAIN g)) \in Nat
    BY PushesGrow DEF IsGraph
  <2>2. QED
    BY <2>1
<1>2. Reachable(g, root) = W[N].seen
  BY DEF Reachable
<1>3. ASSUME NEW n \in Nat, NEW s, Walked(g, keys, root, n, s) PROVE s \in Q
  BY <1>3 DEF Walked
<1>4. Walked(g, keys, root, 0, a)
  <2> DEFINE e == <<>>
             r == <<root>>
  <2>1. e \in Seq(keys) /\ Len(e) = 0 /\ DOMAIN e = {} /\ ToSet(e) = {} /\ IsInjective(e)
    BY EmptySeq, LenProperties DEF ToSet, IsInjective
  <2>2. r \in Seq(keys) /\ Len(r) = 1 /\ ToSet(r) = {root}
    <3>1. r \in Seq(keys) /\ Len(r) = 1 /\ DOMAIN r = {1} /\ r[1] = root
      OBVIOUS
    <3> HIDE DEF r
    <3>2. QED
      BY <3>1 DEF ToSet
  <2>3. a.seen = e /\ a.stack = r /\ a = [seen |-> e, stack |-> r]
    OBVIOUS
  <2> HIDE DEF e, r, a
  <2>4. Pushes(g, ToSet(e)) = {}
    BY <2>1 DEF Pushes
  <2>5. Cardinality(Pushes(g, ToSet(e))) = 0
    BY <2>4, FS_EmptySet
  <2>6. root \in Below(g, keys, root)
    BY BelowIs
  <2>7. 0 + Len(r) = 1 + Cardinality(Pushes(g, ToSet(e)))
    BY <2>2, <2>5
  <2>8. QED
    BY <2>1, <2>2, <2>3, <2>6, <2>7 DEF Walked
<1>5. \A s \in Q : Visit(g, s) \in Q
  <2> SUFFICES ASSUME NEW s \in Q PROVE Visit(g, s) \in Q
    OBVIOUS
  <2>1. PICK n \in Nat : Walked(g, keys, root, n, s)
    OBVIOUS
  <2> HIDE DEF Q
  <2>2. n + 1 \in Nat /\ Walked(g, keys, root, n + 1, Visit(g, s))
    BY <2>1, VisitWalks
  <2>3. QED
    BY <1>3, <2>2
<1>6. a \in Q
  BY <1>3, <1>4
<1> HIDE DEF Q
<1>7. F \in [1..N -> [Q -> Q]]
  BY <1>5
<1>24. \A n \in 1..N, s \in Q : F[n][s] = Visit(g, s)
  OBVIOUS
<1> HIDE DEF F, N, a
<1>8. PICK f \in [0..N -> Q] : f[0] = a /\ \A n \in 1..N : f[n] = F[n][f[n - 1]]
  <2>1. \E f : Runs(Q, a, N, F, f)
    BY <1>1, <1>6, <1>7, Iterated
  <2>2. QED
    BY <2>1 DEF Runs
<1>9. \A n \in 0..N : n # 0 => n \in 1..N /\ n - 1 \in 0..N
  BY <1>1
<1>10. f = [n \in 0..N |-> IF n = 0 THEN [seen |-> <<>>, stack |-> <<root>>]
                           ELSE Visit(g, f[n - 1])]
  BY <1>8, <1>9, <1>24 DEF a
<1>11. W = [n \in 0..N |-> IF n = 0 THEN [seen |-> <<>>, stack |-> <<root>>]
                           ELSE Visit(g, W[n - 1])]
  BY <1>10
<1> HIDE DEF W
<1>12. W[0] = a /\ \A n \in 1..N : W[n] = Visit(g, W[n - 1])
  <2>1. 0 \in 0..N /\ \A n \in 1..N : n \in 0..N /\ n # 0
    BY <1>1
  <2>2. QED
    BY <1>11, <2>1 DEF a
<1> DEFINE G == {n \in 0..N : Walked(g, keys, root, n, W[n])}
<1>13. 0 \in G
  BY <1>1, <1>4, <1>12
<1>14. ASSUME NEW n \in 1..N, n - 1 \in G PROVE n \in G
  <2> DEFINE m == n - 1
  <2>1. m \in Nat /\ m + 1 = n /\ Walked(g, keys, root, m, W[m]) /\ n \in 0..N
        /\ W[n] = Visit(g, W[m])
    BY <1>1, <1>12, <1>14
  <2> HIDE DEF m
  <2>2. Walked(g, keys, root, m + 1, Visit(g, W[m]))
    BY <2>1, VisitWalks
  <2>3. QED
    BY <2>1, <2>2
<1> HIDE DEF G
<1>15. \A n \in 1..N : n - 1 \in G => n \in G
  BY <1>14
<1>16. \A n \in 0..N : n \in G
  BY <1>1, <1>13, <1>15, UpTo
<1>17. Walked(g, keys, root, N, W[N])
  BY <1>1, <1>16 DEF G
<1> DEFINE seen == W[N].seen
           stack == W[N].stack
<1>18. seen \in Seq(keys) /\ stack \in Seq(keys) /\ IsInjective(seen)
       /\ ToSet(seen) \cup ToSet(stack) \subseteq Below(g, keys, root)
       /\ root \in ToSet(seen) \cup ToSet(stack)
       /\ \A i \in ToSet(seen) : Needs(g, i) \subseteq ToSet(seen) \cup ToSet(stack)
  BY <1>17 DEF Walked
<1>25. stack = <<>> \/ N + Len(stack) = 1 + Cardinality(Pushes(g, ToSet(seen)))
  BY <1>17 DEF Walked
<1> HIDE DEF seen, stack
<1>19. ToSet(seen) \in SUBSET keys
  BY <1>18, BelowIs
<1>20. stack = <<>>
  <2>1. Cardinality(Pushes(g, ToSet(seen))) \in Nat /\ Cardinality(Pushes(g, DOMAIN g)) \in Nat
        /\ Cardinality(Pushes(g, ToSet(seen))) <= Cardinality(Pushes(g, DOMAIN g))
    BY <1>19, PushesGrow DEF IsGraph
  <2>2. SUFFICES ASSUME stack # <<>> PROVE FALSE
    OBVIOUS
  <2>3. Len(stack) \in Nat \ {0}
    BY <1>18, <2>2, LastOff
  <2> DEFINE c == Cardinality(Pushes(g, ToSet(seen)))
             d == Cardinality(Pushes(g, DOMAIN g))
             l == Len(stack)
  <2>6. N = 1 + d
    BY DEF N
  <2>7. N + l = 1 + c
    BY <1>25, <2>2
  <2>4. 1 + d + l = 1 + c /\ c <= d /\ c \in Nat /\ d \in Nat /\ l \in Nat \ {0}
    BY <2>1, <2>3, <2>6, <2>7
  <2> HIDE DEF c, d, l
  <2>5. QED
    BY <2>4
<1>21. ToSet(stack) = {}
  BY <1>20, EmptySeq, LenProperties DEF ToSet
<1>22. Below(g, keys, root) \subseteq ToSet(seen)
  BY <1>18, <1>19, <1>21, BelowIs DEF Closed
<1>23. QED
  BY <1>2, <1>18, <1>22 DEF seen

-----------------------------------------------------------------------------
(* Kahn's algorithm *)

LEMMA DeclaresIs ==
  ASSUME NEW g, NEW keys, IsGraph(g, keys), NEW k, NEW S
  PROVE  /\ Declares(g, k, S) \in Nat
         /\ Declares(g, k, S) = 0 <=> Needs(g, k) \cap S = {}
<1> DEFINE q == DepsOf(g, k)
           D == {i \in DOMAIN q : q[i] \in S}
<1>1. DOMAIN q = 1..Len(q) /\ Len(q) \in Nat
  BY DepsAre
<1>2. IsFiniteSet(DOMAIN q)
  <2> DEFINE n == Len(q)
  <2>1. n \in Nat
    BY <1>1
  <2> HIDE DEF n
  <2>2. IsFiniteSet(1..n)
    BY <2>1, FS_Interval
  <2>3. QED
    BY <1>1, <2>2 DEF n
<1> HIDE DEF q
<1>3. IsFiniteSet(D) /\ Cardinality(D) \in Nat
  BY <1>2, FS_Subset, FS_CardinalityType
<1>4. Cardinality(D) = 0 <=> D = {}
  BY <1>3, FS_EmptySet
<1>5. D = {} <=> ToSet(q) \cap S = {}
  BY DEF ToSet
<1>6. Declares(g, k, S) = Cardinality(D)
  BY DEF Declares, q
<1> HIDE DEF D
<1>7. QED
  BY <1>3, <1>4, <1>5, <1>6 DEF Needs, q

\* Without one of the keys, by as much as that one is declared.
LEMMA DeclaresLess ==
  ASSUME NEW g, NEW keys, IsGraph(g, keys), NEW k, NEW S, NEW x \in S
  PROVE  Declares(g, k, S \ {x}) = Declares(g, k, S) - Declares(g, k, {x})
<1> DEFINE q == DepsOf(g, k)
           A == {i \in DOMAIN q : q[i] \in S}
           B == {i \in DOMAIN q : q[i] \in S \ {x}}
           C == {i \in DOMAIN q : q[i] \in {x}}
<1>1. DOMAIN q = 1..Len(q) /\ Len(q) \in Nat
  BY DepsAre
<1>2. IsFiniteSet(DOMAIN q)
  <2> DEFINE n == Len(q)
  <2>1. n \in Nat
    BY <1>1
  <2> HIDE DEF n
  <2>2. IsFiniteSet(1..n)
    BY <2>1, FS_Interval
  <2>3. QED
    BY <1>1, <2>2 DEF n
<1> HIDE DEF q
<1>3. IsFiniteSet(B) /\ IsFiniteSet(C)
  BY <1>2, FS_Subset
<1>4. A = B \cup C /\ B \cap C = {}
  OBVIOUS
<1>5. /\ Declares(g, k, S) = Cardinality(A)
      /\ Declares(g, k, S \ {x}) = Cardinality(B)
      /\ Declares(g, k, {x}) = Cardinality(C)
  BY DEF Declares, q
<1> HIDE DEF A, B, C
<1>6. Cardinality(B \cup C) = Cardinality(B) + Cardinality(C) - Cardinality(B \cap C)
  BY <1>3, FS_Union
<1>7. Cardinality(B \cap C) = 0
  BY <1>4, FS_EmptySet
<1>8. Cardinality(B) \in Nat /\ Cardinality(C) \in Nat
  BY <1>3, FS_CardinalityType
<1> DEFINE a == Cardinality(A)
           b == Cardinality(B)
           c == Cardinality(C)
<1>9. a = b + c - 0 /\ b \in Nat /\ c \in Nat
  BY <1>4, <1>6, <1>7, <1>8
<1> HIDE DEF a, b, c
<1>10. b = a - c
  BY <1>9
<1>11. QED
  BY <1>5, <1>10 DEF a, b, c

\* Whatever of T an item of q needs stands before it.
DepsFirst(g, T, q) ==
  \A i \in 1..Len(q) : \A d \in Needs(g, q[i]) \cap T : \E j \in 1..i - 1 : q[j] = d

\* After n rounds: who is in the order or ready does not wait for what is not in
\* the order, and each round has added a key unless none was ready.
Sorted(g, keys, scope, n, s) ==
  /\ s = [order |-> s.order, indegree |-> s.indegree, ready |-> s.ready]
  /\ s.order \in Seq(keys) /\ s.ready \in Seq(keys) /\ s.indegree \in [ToSet(scope) -> Nat]
  /\ IsInjective(s.order) /\ IsInjective(s.ready)
  /\ ToSet(s.order) \cap ToSet(s.ready) = {}
  /\ ToSet(s.order) \cup ToSet(s.ready) = {k \in ToSet(scope) : s.indegree[k] = 0}
  /\ \A k \in ToSet(scope) : s.indegree[k] = Declares(g, k, ToSet(scope) \ ToSet(s.order))
  /\ DepsFirst(g, ToSet(scope), s.order)
  /\ s.ready = <<>> \/ Len(s.order) = n

LEMMA ReleaseSorts ==
  ASSUME NEW g, NEW keys, IsGraph(g, keys), NEW scope \in Seq(keys), IsInjective(scope),
         NEW n \in Nat, NEW s, Sorted(g, keys, scope, n, s)
  PROVE  Sorted(g, keys, scope, n + 1, Release(g, scope, s))
<1>1. CASE s.ready = <<>>
  BY <1>1 DEF Sorted, Release
<1>2. CASE s.ready # <<>>
  <2> DEFINE T == ToSet(scope)
             O == ToSet(s.order)
             node == Head(s.ready)
             rest == Tail(s.ready)
             left == [k \in T |-> s.indegree[k] - Declares(g, k, {node})]
             New == {k \in T : left[k] = 0 /\ s.indegree[k] > 0}
             order == Append(s.order, node)
             ready == rest \o Keep(scope, New)
             r == Release(g, scope, s)
  <2>1. r = [order |-> order, indegree |-> left, ready |-> ready]
    BY <1>2 DEF Release
  <2>2. /\ node \in keys /\ rest \in Seq(keys) /\ IsInjective(rest)
        /\ ToSet(s.ready) = ToSet(rest) \cup {node} /\ node \notin ToSet(rest)
    BY <1>2, FirstOff DEF Sorted
  <2>3. /\ order = Append(s.order, node) /\ ready = rest \o Keep(scope, New)
        /\ \A k \in T : left[k] = s.indegree[k] - Declares(g, k, {node})
        /\ DOMAIN left = T
        /\ left = [k \in T |-> left[k]]
    OBVIOUS
  <2>4. New = {k \in T : left[k] = 0 /\ s.indegree[k] > 0}
    OBVIOUS
  <2> HIDE DEF node, rest, left, New, order, ready, r
  <2>5. /\ s.order \in Seq(keys) /\ s.ready \in Seq(keys) /\ s.indegree \in [T -> Nat]
        /\ IsInjective(s.order) /\ O \cap ToSet(s.ready) = {}
        /\ O \cup ToSet(s.ready) = {k \in T : s.indegree[k] = 0}
        /\ \A k \in T : s.indegree[k] = Declares(g, k, T \ O)
        /\ DepsFirst(g, T, s.order) /\ Len(s.order) = n
    BY <1>2 DEF Sorted
  <2>6. node \in T \ O /\ s.indegree[node] = 0
    BY <2>2, <2>5
  <2>7. order \in Seq(keys) /\ ToSet(order) = O \cup {node} /\ IsInjective(order)
        /\ Len(order) = n + 1
    <3> DEFINE x == s.order
    <3>1. x \in Seq(keys) /\ IsInjective(x) /\ node \notin ToSet(x) /\ Appended(order, x, node)
          /\ Len(x) = n
      BY <2>3, <2>5, <2>6 DEF Appended
    <3> HIDE DEF x
    <3>2. order \in Seq(keys) /\ ToSet(order) = ToSet(x) \cup {node} /\ IsInjective(order)
          /\ Len(order) = Len(x) + 1
      BY <2>2, <3>1, ItemsAppended
    <3>3. QED
      BY <3>1, <3>2 DEF x
  <2>8. \A k \in T : left[k] = Declares(g, k, T \ ToSet(order)) /\ left[k] \in Nat
    <3> SUFFICES ASSUME NEW k \in T
                 PROVE  left[k] = Declares(g, k, T \ ToSet(order)) /\ left[k] \in Nat
      OBVIOUS
    <3> DEFINE S == T \ O
    <3>1. T \ ToSet(order) = S \ {node} /\ node \in S
      BY <2>6, <2>7
    <3> HIDE DEF S
    <3>2. Declares(g, k, S \ {node}) = Declares(g, k, S) - Declares(g, k, {node})
      BY <3>1, DeclaresLess
    <3>3. s.indegree[k] = Declares(g, k, S)
      BY <2>5 DEF S
    <3>4. left[k] = Declares(g, k, T \ ToSet(order))
      BY <2>3, <3>1, <3>2, <3>3
    <3>5. QED
      BY <3>4, DeclaresIs
  <2>9. left \in [T -> Nat]
    BY <2>3, <2>8
  <2>10. /\ Keep(scope, New) \in Seq(keys) /\ IsInjective(Keep(scope, New))
         /\ ToSet(Keep(scope, New)) = New
    BY <2>4, KeepSet
  <2>11. New \cap (O \cup ToSet(s.ready)) = {}
    BY <2>4, <2>5
  <2>12. /\ ready \in Seq(keys) /\ ToSet(ready) = ToSet(rest) \cup New /\ IsInjective(ready)
    <3> DEFINE x == Keep(scope, New)
    <3>1. /\ x \in Seq(keys) /\ IsInjective(x) /\ ToSet(rest) \cap ToSet(x) = {}
          /\ ToSet(x) = New /\ Joined(ready, rest, x)
      BY <2>2, <2>3, <2>10, <2>11 DEF Joined
    <3> HIDE DEF x
    <3>2. ready \in Seq(keys) /\ ToSet(ready) = ToSet(rest) \cup ToSet(x) /\ IsInjective(ready)
      BY <2>2, <3>1, ItemsJoined
    <3>3. QED
      BY <3>1, <3>2
  <2>13. ToSet(order) \cap ToSet(ready) = {}
    BY <2>2, <2>5, <2>7, <2>11, <2>12
  <2>14. ToSet(order) \cup ToSet(ready) = {k \in T : left[k] = 0}
    <3>1. ToSet(order) \cup ToSet(ready) = (O \cup ToSet(s.ready)) \cup New
      BY <2>2, <2>7, <2>12
    <3>2. ASSUME NEW k \in T, s.indegree[k] = 0 PROVE left[k] = 0
      <4>1. Needs(g, k) \cap (T \ O) = {}
        BY <2>5, <3>2, DeclaresIs
      <4>2. Needs(g, k) \cap (T \ ToSet(order)) = {}
        BY <2>7, <4>1
      <4>3. QED
        BY <2>8, <4>2, DeclaresIs
    <3>3. ASSUME NEW k \in T, s.indegree[k] # 0 PROVE s.indegree[k] > 0
      BY <2>5, <3>3
    <3>4. QED
      BY <2>4, <2>5, <3>1, <3>2, <3>3
  <2>15. DepsFirst(g, T, order)
    <3>1. /\ order[n + 1] = node /\ \A i \in 1..n : order[i] = s.order[i]
          /\ ToSet(s.order) = {s.order[i] : i \in 1..n}
      <4>1. s.order \in Seq(keys) /\ Len(s.order) = n /\ DOMAIN s.order = 1..n
        BY <2>5, LenProperties
      <4>2. order[n + 1] = node /\ \A i \in 1..n : order[i] = s.order[i]
        BY <2>2, <2>3, <4>1, AppendProperties
      <4>3. ToSet(s.order) = {s.order[i] : i \in 1..n}
        BY <4>1 DEF ToSet
      <4>4. QED
        BY <4>2, <4>3
    <3>2. ASSUME NEW i \in 1..n + 1, NEW d \in Needs(g, order[i]) \cap T
          PROVE  \E j \in 1..i - 1 : order[j] = d
      <4>1. CASE i = n + 1
        <5>1. Needs(g, node) \cap (T \ O) = {}
          BY <2>5, <2>6, DeclaresIs
        <5>2. d \in O
          BY <3>1, <3>2, <4>1, <5>1
        <5>3. PICK j \in 1..n : s.order[j] = d
          BY <3>1, <5>2
        <5>4. j \in 1..i - 1 /\ order[j] = d
          BY <3>1, <4>1, <5>3
        <5>5. QED
          BY <5>4
      <4>2. CASE i # n + 1
        <5>1. i \in 1..n
          BY <4>2
        <5>2. d \in Needs(g, s.order[i]) \cap T
          BY <3>1, <3>2, <5>1
        <5>3. PICK j \in 1..i - 1 : s.order[j] = d
          BY <2>5, <5>1, <5>2 DEF DepsFirst
        <5>4. j \in 1..n
          BY <5>1, <5>3
        <5>5. QED
          BY <3>1, <5>3, <5>4
      <4>3. QED
        BY <4>1, <4>2
    <3>3. QED
      BY <2>7, <3>2 DEF DepsFirst
  <2>16. r.order = order /\ r.indegree = left /\ r.ready = ready
    BY <2>1
  <2>17. IsInjective(order) /\ IsInjective(ready) /\ Len(order) = n + 1
    BY <2>7, <2>12
  <2>18. \A k \in T : left[k] = Declares(g, k, T \ ToSet(order))
    BY <2>8
  <2>19. QED
    BY <2>1, <2>7, <2>9, <2>12, <2>13, <2>14, <2>15, <2>16, <2>17, <2>18 DEF Sorted, r
<1>3. QED
  BY <1>1, <1>2

\* A subset of keys listed in a sequence is listed in full if the sequence is as
\* long as the subset is large.
LEMMA AllListed ==
  ASSUME NEW T, NEW s \in Seq(T), IsInjective(s), NEW U, IsFiniteSet(U), ToSet(s) \subseteq U,
         Len(s) = Cardinality(U)
  PROVE  ToSet(s) = U
<1>1. Cardinality(ToSet(s)) = Cardinality(U)
  BY AsManyItems
<1>2. QED
  BY <1>1, FS_Subset

\* The sorted sequence has the keys of scope, each once; a key that waits for no
\* cycle comes after whatever of scope it needs.
LEMMA TopologicalIs ==
  ASSUME NEW g, NEW keys, IsGraph(g, keys), NEW scope \in Seq(keys), IsInjective(scope)
  PROVE  /\ Topological(g, scope) \in Seq(keys) /\ IsInjective(Topological(g, scope))
         /\ ToSet(Topological(g, scope)) = ToSet(scope)
         /\ \A i \in 1..Len(Topological(g, scope)) :
              ~Stuck(g, keys, Topological(g, scope)[i]) =>
                \A d \in Needs(g, Topological(g, scope)[i]) \cap ToSet(scope) :
                  \E j \in 1..i - 1 : Topological(g, scope)[j] = d
<1> DEFINE T == ToSet(scope)
           N == Len(scope)
           ind == [k \in T |-> Declares(g, k, T)]
           a == [order |-> <<>>, indegree |-> ind,
                 ready |-> Keep(scope, {k \in T : ind[k] = 0})]
           W == CHOOSE h : h = [n \in 0..N |->
                  IF n = 0
                  THEN [order |-> <<>>, indegree |-> ind,
                        ready |-> Keep(scope, {k \in T : ind[k] = 0})]
                  ELSE Release(g, scope, h[n - 1])]
           order == W[N].order
           q == order \o Keep(scope, T \ ToSet(order))
           States == [order : Seq(keys), indegree : [T -> Nat], ready : Seq(keys)]
           Q == {s \in States : \E n \in Nat : Sorted(g, keys, scope, n, s)}
           F == [n \in 1..N |-> [s \in Q |-> Release(g, scope, s)]]
<1>1. N \in Nat /\ T \in SUBSET keys /\ IsFiniteSet(T) /\ Cardinality(T) = N
  <2>1. N \in Nat /\ DOMAIN scope = 1..N /\ \A i \in 1..N : scope[i] \in keys
    BY LenProperties, ElementOfSeq
  <2>2. T \in SUBSET keys
    BY <2>1 DEF ToSet
  <2>3. QED
    BY <2>1, <2>2, AsManyItems
<1>2. Topological(g, scope) = q
  BY DEF Topological
<1>3. ASSUME NEW n \in Nat, NEW s, Sorted(g, keys, scope, n, s) PROVE s \in Q
  BY <1>3 DEF Sorted
<1>4. Sorted(g, keys, scope, 0, a)
  <2> DEFINE e == <<>>
             R == {k \in T : ind[k] = 0}
             r == Keep(scope, R)
  <2>1. e \in Seq(keys) /\ Len(e) = 0 /\ ToSet(e) = {} /\ IsInjective(e)
    <3>1. e \in Seq(keys) /\ Len(e) = 0 /\ DOMAIN e = {}
      BY EmptySeq, LenProperties
    <3>2. QED
      BY <3>1 DEF ToSet, IsInjective
  <2>2. r \in Seq(keys) /\ ToSet(r) = R /\ IsInjective(r)
    BY KeepSet
  <2>3. \A k \in T : ind[k] = Declares(g, k, T) /\ ind[k] \in Nat
    BY DeclaresIs
  <2>4. ind \in [T -> Nat]
    BY <2>3
  <2>5. a = [order |-> e, indegree |-> ind, ready |-> r]
    OBVIOUS
  <2>6. R = {k \in T : ind[k] = 0}
    OBVIOUS
  <2> HIDE DEF e, R, r, ind, a
  <2>7. a.order = e /\ a.indegree = ind /\ a.ready = r
    BY <2>5
  <2>8. T \ ToSet(e) = T
    BY <2>1
  <2>9. \A k \in T : ind[k] = Declares(g, k, T \ ToSet(e))
    BY <2>3, <2>8
  <2>10. DepsFirst(g, T, e)
    BY <2>1 DEF DepsFirst
  <2>11. ToSet(e) \cap ToSet(r) = {} /\ ToSet(e) \cup ToSet(r) = {k \in T : ind[k] = 0}
    BY <2>1, <2>2, <2>6
  <2>12. QED
    BY <2>1, <2>2, <2>4, <2>5, <2>7, <2>9, <2>10, <2>11 DEF Sorted
<1>5. \A s \in Q : Release(g, scope, s) \in Q
  <2> SUFFICES ASSUME NEW s \in Q PROVE Release(g, scope, s) \in Q
    OBVIOUS
  <2>1. PICK n \in Nat : Sorted(g, keys, scope, n, s)
    OBVIOUS
  <2> HIDE DEF Q
  <2>2. n + 1 \in Nat /\ Sorted(g, keys, scope, n + 1, Release(g, scope, s))
    BY <2>1, ReleaseSorts
  <2>3. QED
    BY <1>3, <2>2
<1>6. a \in Q
  BY <1>3, <1>4
<1> HIDE DEF Q
<1>7. F \in [1..N -> [Q -> Q]]
  BY <1>5
<1>8. \A n \in 1..N, s \in Q : F[n][s] = Release(g, scope, s)
  OBVIOUS
<1> HIDE DEF F, N, a, ind
<1>9. PICK f \in [0..N -> Q] : f[0] = a /\ \A n \in 1..N : f[n] = F[n][f[n - 1]]
  <2>1. \E f : Runs(Q, a, N, F, f)
    BY <1>1, <1>6, <1>7, Iterated
  <2>2. QED
    BY <2>1 DEF Runs
<1>10. \A n \in 0..N : n # 0 => n \in 1..N /\ n - 1 \in 0..N
  BY <1>1
<1>11. f = [n \in 0..N |-> IF n = 0
                           THEN [order |-> <<>>, indegree |-> ind,
                                 ready |-> Keep(scope, {k \in T : ind[k] = 0})]
                           ELSE Release(g, scope, f[n - 1])]
  <2>1. \A n \in 1..N : f[n] = Release(g, scope, f[n - 1])
    BY <1>8, <1>9, <1>10
  <2>2. f[0] = a /\ f = [n \in 0..N |-> f[n]]
    BY <1>9
  <2> HIDE DEF T
  <2>3. QED
    BY <1>10, <2>1, <2>2 DEF a
<1>12. W = [n \in 0..N |-> IF n = 0
                           THEN [order |-> <<>>, indegree |-> ind,
                                 ready |-> Keep(scope, {k \in T : ind[k] = 0})]
                           ELSE Release(g, scope, W[n - 1])]
  BY <1>11
<1> HIDE DEF W
<1>13. W[0] = a /\ \A n \in 1..N : W[n] = Release(g, scope, W[n - 1])
  <2>1. 0 \in 0..N /\ \A n \in 1..N : n \in 0..N /\ n # 0
    BY <1>1
  <2>2. QED
    BY <1>12, <2>1 DEF a
<1> DEFINE G == {n \in 0..N : Sorted(g, keys, scope, n, W[n])}
<1>14. 0 \in G
  BY <1>1, <1>4, <1>13
<1>15. ASSUME NEW n \in 1..N, n - 1 \in G PROVE n \in G
  <2> DEFINE m == n - 1
  <2>1. m \in Nat /\ m + 1 = n /\ Sorted(g, keys, scope, m, W[m]) /\ n \in 0..N
        /\ W[n] = Release(g, scope, W[m])
    BY <1>1, <1>13, <1>15
  <2> HIDE DEF m
  <2>2. Sorted(g, keys, scope, m + 1, Release(g, scope, W[m]))
    BY <2>1, ReleaseSorts
  <2>3. QED
    BY <2>1, <2>2
<1> HIDE DEF G
<1>16. \A n \in 1..N : n - 1 \in G => n \in G
  BY <1>15
<1>17. \A n \in 0..N : n \in G
  BY <1>1, <1>14, <1>16, UpTo
<1>18. Sorted(g, keys, scope, N, W[N])
  BY <1>1, <1>17 DEF G
<1> DEFINE ready == W[N].ready
           O == ToSet(order)
           left == W[N].indegree
<1>19. /\ order \in Seq(keys) /\ ready \in Seq(keys)
       /\ IsInjective(order) /\ O \cap ToSet(ready) = {}
       /\ O \cup ToSet(ready) = {k \in T : left[k] = 0}
       /\ \A k \in T : left[k] = Declares(g, k, T \ O)
       /\ DepsFirst(g, T, order)
  BY <1>18 DEF Sorted
<1>20. ready = <<>> \/ Len(order) = N
  BY <1>18 DEF Sorted
<1>21. q = order \o Keep(scope, T \ O) /\ O = ToSet(order)
  OBVIOUS
<1> HIDE DEF order, ready, O, left, q
<1>22. O \subseteq T
  BY <1>19
<1>23. ready = <<>>
  <2>1. SUFFICES ASSUME ready # <<>> PROVE FALSE
    OBVIOUS
  <2>2. Len(order) = Cardinality(T)
    BY <1>1, <1>20, <2>1
  <2>3. O = T
    BY <1>1, <1>19, <1>21, <1>22, <2>2, AllListed
  <2>4. ToSet(ready) = {}
    BY <1>19, <2>3
  <2>5. Last(ready) \in ToSet(ready)
    <3>1. ready \in Seq(keys)
      BY <1>19
    <3>2. ToSet(ready) = ToSet(Front(ready)) \cup {Last(ready)}
      BY <2>1, <3>1, LastOff
    <3>3. QED
      BY <3>2
  <2>6. QED
    BY <2>4, <2>5
<1>24. ToSet(ready) = {}
  <2>1. ready \in Seq(keys) /\ Len(ready) = 0
    BY <1>23, EmptySeq
  <2>2. DOMAIN ready = {}
    BY <2>1, LenProperties
  <2>3. QED
    BY <2>2 DEF ToSet
\* The keys left over wait for one another.
<1>25. \A k \in T \ O : Stuck(g, keys, k)
  <2> DEFINE L == T \ O
  <2>1. \A i \in L : Needs(g, i) \cap L # {}
    <3> SUFFICES ASSUME NEW i \in L PROVE Needs(g, i) \cap L # {}
      OBVIOUS
    <3>1. left[i] # 0 /\ left[i] = Declares(g, i, L)
      BY <1>19, <1>24
    <3> HIDE DEF L
    <3>2. QED
      BY <3>1, DeclaresIs
  <2>2. L \in SUBSET keys
    BY <1>1
  <2> HIDE DEF L
  <2>3. \A k \in L : Stuck(g, keys, k)
    BY <2>1, <2>2, WaitingIsStuck
  <2>4. QED
    BY <2>3 DEF L
<1> DEFINE K == Keep(scope, T \ O)
<1>26. K \in Seq(keys) /\ IsInjective(K) /\ ToSet(K) = T \ O
  BY KeepSet
<1>27. Joined(q, order, K)
  BY <1>21 DEF Joined
<1> HIDE DEF K
<1>28. /\ q \in Seq(keys) /\ Len(q) = Len(order) + Len(K) /\ Len(order) \in Nat /\ Len(K) \in Nat
       /\ ToSet(q) = O \cup ToSet(K)
       /\ (IsInjective(order) /\ IsInjective(K) /\ O \cap ToSet(K) = {} => IsInjective(q))
  <2>1. order \in Seq(keys) /\ K \in Seq(keys)
    BY <1>19, <1>26
  <2>2. O = ToSet(order)
    BY <1>21
  <2>3. QED
    BY <1>27, <2>1, <2>2, ItemsJoined
<1>29. IsInjective(q) /\ ToSet(q) = T
  BY <1>19, <1>22, <1>26, <1>28
<1>30. ASSUME NEW i \in 1..Len(q), ~Stuck(g, keys, q[i]), NEW d \in Needs(g, q[i]) \cap T
       PROVE  \E j \in 1..i - 1 : q[j] = d
  <2>1. \A j \in 1..Len(order) + Len(K) :
          q[j] = IF j <= Len(order) THEN order[j] ELSE K[j - Len(order)]
    BY <1>19, <1>26, <1>27, ConcatProperties DEF Joined
  <2>2. i \in 1..Len(order)
    <3>1. SUFFICES ASSUME i \notin 1..Len(order) PROVE FALSE
      OBVIOUS
    <3> DEFINE j == i - Len(order)
    <3>2. j \in 1..Len(K) /\ ~(i <= Len(order))
      BY <1>28, <1>30, <3>1
    <3>3. q[i] = K[j]
      BY <1>28, <1>30, <2>1, <3>2
    <3> HIDE DEF j
    <3>4. DOMAIN K = 1..Len(K)
      BY <1>26, LenProperties
    <3>5. K[j] \in T \ O
      BY <1>26, <3>2, <3>4 DEF ToSet
    <3>6. QED
      BY <1>25, <1>30, <3>3, <3>5
  <2>3. \A j \in 1..Len(order) : q[j] = order[j]
    BY <1>28, <2>1
  <2>4. PICK j \in 1..i - 1 : order[j] = d
    BY <1>19, <1>30, <2>2, <2>3 DEF DepsFirst
  <2>5. j \in 1..Len(order)
    BY <1>28, <2>2, <2>4
  <2>6. QED
    BY <2>3, <2>4, <2>5
<1>31. QED
  BY <1>2, <1>28, <1>29, <1>30

-----------------------------------------------------------------------------
(* The levels *)

\* L climbs from nothing, each time to the keys of S that need no others than those
\* before, as often as S has keys.
Climbs(g, S, N, L) ==
  /\ N = Cardinality(S)
  /\ L \in [0..N -> SUBSET S] /\ L[0] = {}
  /\ \A n \in 1..N : L[n] = {k \in S : Needs(g, k) \subseteq L[n - 1]}

LEMMA ClimbsUp ==
  ASSUME NEW g, NEW S, NEW N \in Nat, NEW L, Climbs(g, S, N, L)
  PROVE  /\ \A n \in 1..N : L[n - 1] \subseteq L[n]
         /\ \A m \in 0..N, n \in 0..N : m <= n => L[m] \subseteq L[n]
         /\ \A k \in L[N] : \E n \in 1..N : k \in L[n] \ L[n - 1]
<1>1. \A n \in 1..N : L[n - 1] \subseteq L[n]
  <2> DEFINE G == {n \in 0..N : n # 0 => L[n - 1] \subseteq L[n]}
  <2>1. 0 \in G
    OBVIOUS
  <2>2. ASSUME NEW n \in 1..N, n - 1 \in G PROVE n \in G
    <3>1. CASE n = 1
      BY <3>1 DEF Climbs
    <3>2. CASE n # 1
      <4> DEFINE m == n - 1
      <4>1. m \in 1..N /\ L[m - 1] \subseteq L[m] /\ n \in 0..N
        BY <2>2, <3>2
      <4>2. L[n] = {k \in S : Needs(g, k) \subseteq L[m]}
            /\ L[m] = {k \in S : Needs(g, k) \subseteq L[m - 1]}
        BY <4>1 DEF Climbs
      <4> HIDE DEF m
      <4>3. L[m] \subseteq L[n]
        BY <4>1, <4>2
      <4>4. QED
        BY <4>1, <4>3 DEF m
    <3>3. QED
      BY <3>1, <3>2
  <2>3. \A n \in 1..N : n - 1 \in G => n \in G
    BY <2>2
  <2> HIDE DEF G
  <2>4. \A n \in 0..N : n \in G
    BY <2>1, <2>3, UpTo
  <2>5. QED
    BY <2>4 DEF G
<1>2. ASSUME NEW m \in 0..N PROVE \A n \in 0..N : m <= n => L[m] \subseteq L[n]
  <2> DEFINE G == {n \in 0..N : m <= n => L[m] \subseteq L[n]}
  <2>1. 0 \in G
    OBVIOUS
  <2>2. ASSUME NEW n \in 1..N, n - 1 \in G PROVE n \in G
    <3>1. L[n - 1] \subseteq L[n] /\ n \in 0..N
      BY <1>1
    <3>2. (m <= n - 1 => L[m] \subseteq L[n - 1]) /\ (m <= n => m <= n - 1 \/ m = n)
      BY <2>2
    <3>3. QED
      BY <3>1, <3>2
  <2>3. \A n \in 1..N : n - 1 \in G => n \in G
    BY <2>2
  <2> HIDE DEF G
  <2>4. \A n \in 0..N : n \in G
    BY <2>1, <2>3, UpTo
  <2>5. QED
    BY <2>4 DEF G
<1>3. ASSUME NEW k \in L[N] PROVE \E n \in 1..N : k \in L[n] \ L[n - 1]
  <2> DEFINE A == {n \in 0..N : k \in L[n]}
  <2>1. A \in SUBSET Nat /\ N \in A
    BY <1>3
  <2>2. PICK n \in A : \A i \in A : n <= i
    BY <2>1, LeastNumber
  <2>3. n # 0 /\ n \in 0..N /\ k \in L[n]
    BY <2>2 DEF Climbs
  <2>4. n \in 1..N /\ n - 1 \in 0..N /\ ~(n <= n - 1)
    BY <2>3
  <2>5. k \notin L[n - 1]
    BY <2>2, <2>4
  <2>6. QED
    BY <2>3, <2>4, <2>5
<1>4. QED
  BY <1>1, <1>2, <1>3

\* Levels have nothing in common, and what a key needs is on a lower one.
LEMMA LevelsApart ==
  ASSUME NEW g, NEW S, NEW N \in Nat, NEW L, Climbs(g, S, N, L), NEW m \in 1..N, NEW n \in 1..N
  PROVE  /\ m # n => (L[m] \ L[m - 1]) \cap (L[n] \ L[n - 1]) = {}
         /\ \A k \in L[m] \ L[m - 1], d \in L[n] \ L[n - 1] : d \in Needs(g, k) => n < m
<1>1. m - 1 \in 0..N /\ n - 1 \in 0..N /\ m \in 0..N /\ n \in 0..N
  OBVIOUS
<1>2. CASE m < n
  <2>1. L[m] \subseteq L[n - 1]
    <3> DEFINE p == n - 1
    <3>1. m <= p /\ m \in 0..N /\ p \in 0..N
      BY <1>1, <1>2
    <3> HIDE DEF p
    <3>2. L[m] \subseteq L[p]
      BY <3>1, ClimbsUp
    <3>3. QED
      BY <3>2 DEF p
  <2>2. L[m - 1] \subseteq L[m]
    BY ClimbsUp
  <2>3. L[m] = {k \in S : Needs(g, k) \subseteq L[m - 1]}
    BY DEF Climbs
  <2>4. QED
    BY <2>1, <2>2, <2>3
<1>3. CASE n < m
  <2>1. L[n] \subseteq L[m - 1]
    <3> DEFINE p == m - 1
    <3>1. n <= p /\ n \in 0..N /\ p \in 0..N
      BY <1>1, <1>3
    <3> HIDE DEF p
    <3>2. L[n] \subseteq L[p]
      BY <3>1, ClimbsUp
    <3>3. QED
      BY <3>2 DEF p
  <2>2. QED
    BY <1>3, <2>1
<1>4. CASE m = n
  <2>3. L[m] = {k \in S : Needs(g, k) \subseteq L[m - 1]}
    BY DEF Climbs
  <2>4. QED
    BY <1>4, <2>3
<1>5. m < n \/ n < m \/ m = n
  OBVIOUS
<1>6. QED
  BY <1>2, <1>3, <1>4, <1>5

\* At the top it is where it stays: with the keys that do not wait for a cycle.
LEMMA ClimbsToTheTop ==
  ASSUME NEW g, NEW keys, IsGraph(g, keys), NEW S \in SUBSET keys, Closed(g, S),
         NEW N \in Nat, NEW L, Climbs(g, S, N, L)
  PROVE  L[N] = {k \in S : ~Stuck(g, keys, k)}
<1> DEFINE Up(X) == {k \in S : Needs(g, k) \subseteq X}
<1>1. IsFiniteSet(S) /\ \A n \in 0..N : L[n] \subseteq S
  BY FS_Subset DEF Climbs, IsGraph
<1>2. \A n \in 0..N : IsFiniteSet(L[n]) /\ Cardinality(L[n]) \in Nat
  BY <1>1, FS_Subset, FS_CardinalityType
<1>3. Up(L[N]) = L[N]
  <2> DEFINE G == {n \in 0..N : L[n] \subseteq Up(L[n]) /\ (Up(L[n]) = L[n] \/ Cardinality(L[n]) >= n)}
  <2>1. 0 \in G
    <3>1. L[0] = {} /\ Cardinality(L[0]) = 0 /\ 0 \in 0..N
      BY FS_EmptySet DEF Climbs
    <3>2. QED
      BY <3>1
  <2>2. ASSUME NEW n \in 1..N, n - 1 \in G PROVE n \in G
    <3> DEFINE m == n - 1
    <3>1. /\ L[m] \subseteq Up(L[m]) /\ (Up(L[m]) = L[m] \/ Cardinality(L[m]) >= m)
          /\ L[n] = Up(L[m]) /\ m \in 0..N /\ n \in 0..N /\ n = m + 1
      BY <2>2 DEF Climbs
    <3> HIDE DEF m
    <3>2. L[n] \subseteq Up(L[n])
      BY <3>1
    <3>3. CASE Up(L[m]) = L[m]
      BY <3>1, <3>2, <3>3
    <3>4. CASE Up(L[m]) # L[m]
      <4>1. Cardinality(L[m]) >= m /\ L[m] \subseteq L[n] /\ L[m] # L[n]
        BY <3>1, <3>4
      <4>2. Cardinality(L[m]) <= Cardinality(L[n]) /\ Cardinality(L[m]) # Cardinality(L[n])
        BY <1>2, <3>1, <4>1, FS_Subset
      <4> HIDE DEF Up
      <4> DEFINE a == Cardinality(L[m])
                 b == Cardinality(L[n])
      <4>3. a \in Nat /\ b \in Nat /\ a >= m /\ a <= b /\ a # b /\ m \in Nat
        BY <1>2, <3>1, <4>1, <4>2
      <4> HIDE DEF a, b
      <4>4. b >= m + 1
        BY <4>3
      <4>5. QED
        BY <3>1, <3>2, <4>4 DEF b
    <3>5. QED
      BY <3>3, <3>4
  <2>3. \A n \in 1..N : n - 1 \in G => n \in G
    BY <2>2
  <2> HIDE DEF G
  <2>4. N \in G
    BY <2>1, <2>3, UpTo
  <2>5. L[N] \subseteq Up(L[N]) /\ (Up(L[N]) = L[N] \/ Cardinality(L[N]) >= N)
    BY <2>4 DEF G
  <2>6. ASSUME Cardinality(L[N]) >= N PROVE L[N] = S
    <3>1. N \in 0..N
      OBVIOUS
    <3>2. Cardinality(L[N]) <= Cardinality(S) /\ Cardinality(S) = N
      BY <1>1, <3>1, FS_Subset DEF Climbs
    <3>3. Cardinality(L[N]) = Cardinality(S)
      BY <1>2, <2>6, <3>1, <3>2
    <3>4. QED
      BY <1>1, <3>1, <3>3, FS_Subset
  <2>7. QED
    BY <2>5, <2>6
<1>4. L[N] \subseteq S /\ Closed(g, L[N])
  BY <1>1, <1>3 DEF Closed
\* What did not get there waits for more of the kind.
<1>5. ASSUME NEW k \in S, k \notin L[N] PROVE Stuck(g, keys, k)
  <2> DEFINE R == S \ L[N]
  <2>1. \A i \in R : Needs(g, i) \cap R # {}
    BY <1>3 DEF Closed
  <2>2. R \in SUBSET keys /\ k \in R
    BY <1>5
  <2> HIDE DEF R
  <2>3. QED
    BY <2>1, <2>2, WaitingIsStuck
\* What did is numbered by its level.
<1>6. ASSUME NEW k \in L[N] PROVE ~Stuck(g, keys, k)
  <2> DEFINE P == L[N]
             r == [i \in P |-> CHOOSE n \in 1..N : i \in L[n] \ L[n - 1]]
  <2>6. \A i \in P : \E n \in 1..N : i \in L[n] \ L[n - 1]
    <3> SUFFICES ASSUME NEW i \in L[N] PROVE \E n \in 1..N : i \in L[n] \ L[n - 1]
      OBVIOUS
    <3> HIDE DEF P, r
    <3>1. QED
      BY ClimbsUp
  <2>1. \A i \in P : r[i] \in 1..N /\ i \in L[r[i]] \ L[r[i] - 1]
    <3> SUFFICES ASSUME NEW i \in P PROVE r[i] \in 1..N /\ i \in L[r[i]] \ L[r[i] - 1]
      OBVIOUS
    <3>1. r[i] = CHOOSE n \in 1..N : i \in L[n] \ L[n - 1]
      OBVIOUS
    <3> HIDE DEF P, r
    <3>2. \E n \in 1..N : i \in L[n] \ L[n - 1]
      BY <2>6
    <3>3. QED
      BY <3>1, <3>2
  <2>7. r = [i \in P |-> r[i]]
    OBVIOUS
  <2>2. r \in [P -> Nat]
    <3> HIDE DEF P, r
    <3>1. \A i \in P : r[i] \in Nat
      BY <2>1
    <3>2. QED
      BY <2>7, <3>1
  <2>3. P \in SUBSET keys /\ Closed(g, P) /\ k \in P
    BY <1>4, <1>6
  <2> HIDE DEF P, r
  <2>4. \A i \in P : \A d \in Needs(g, i) : r[d] < r[i]
    <3> SUFFICES ASSUME NEW i \in P, NEW d \in Needs(g, i) PROVE r[d] < r[i]
      OBVIOUS
    <3>1. d \in P
      BY <2>3 DEF Closed
    <3>2. r[i] \in 1..N /\ i \in L[r[i]] \ L[r[i] - 1] /\ r[d] \in 1..N /\ d \in L[r[d]] \ L[r[d] - 1]
      BY <2>1, <3>1
    <3>3. QED
      BY <3>2, LevelsApart
  <2>5. QED
    BY <2>2, <2>3, <2>4, NumberedIsNotStuck
<1>7. QED
  BY <1>4, <1>5, <1>6

LEMMA OnALevel ==
  ASSUME NEW g, NEW S, NEW N \in Nat, NEW L, Climbs(g, S, N, L), NEW k, k \in L[N]
  PROVE  \E n \in 1..N : k \in L[n] \ L[n - 1]
BY ClimbsUp

\* The climb that the levels come from.
Climb(g, S) ==
  CHOOSE h : h = [n \in 0..Cardinality(S) |->
    IF n = 0 THEN {} ELSE {k \in S : Needs(g, k) \subseteq h[n - 1]}]

LEMMA ClimbClimbs ==
  ASSUME NEW g, NEW S, NEW N \in Nat, N = Cardinality(S)
  PROVE  Climbs(g, S, N, Climb(g, S))
<1> DEFINE Q == SUBSET S
           a == {}
           F == [n \in 1..N |-> [X \in Q |-> {k \in S : Needs(g, k) \subseteq X}]]
           L == Climb(g, S)
<1>1. F \in [1..N -> [Q -> Q]] /\ a \in Q
  OBVIOUS
<1>2. \A n \in 1..N, X \in Q : F[n][X] = {k \in S : Needs(g, k) \subseteq X}
  OBVIOUS
<1> HIDE DEF F, a, Q
<1>3. PICK f \in [0..N -> Q] : f[0] = a /\ \A n \in 1..N : f[n] = F[n][f[n - 1]]
  <2>1. \E f : Runs(Q, a, N, F, f)
    BY <1>1, Iterated
  <2>2. QED
    BY <2>1 DEF Runs
<1>4. \A n \in 0..N : n # 0 => n \in 1..N /\ n - 1 \in 0..N
  OBVIOUS
<1>5. \A n \in 1..N : f[n] = {k \in S : Needs(g, k) \subseteq f[n - 1]}
  BY <1>2, <1>3, <1>4
<1>6. f = [n \in 0..N |-> f[n]] /\ f[0] = {}
  BY <1>3 DEF a
<1>7. f = [n \in 0..N |-> IF n = 0 THEN {} ELSE {k \in S : Needs(g, k) \subseteq f[n - 1]}]
  BY <1>4, <1>5, <1>6
<1>8. L = [n \in 0..N |-> IF n = 0 THEN {} ELSE {k \in S : Needs(g, k) \subseteq L[n - 1]}]
  BY <1>7 DEF Climb
<1> HIDE DEF L
<1>9. 0 \in 0..N /\ \A n \in 1..N : n \in 0..N /\ n # 0 /\ n - 1 \in 0..N
  OBVIOUS
<1>10. L[0] = {} /\ \A n \in 1..N : L[n] = {k \in S : Needs(g, k) \subseteq L[n - 1]}
  BY <1>8, <1>9
<1>11. \A n \in 0..N : L[n] \in SUBSET S
  BY <1>8, <1>9
<1>12. L = [n \in 0..N |-> L[n]]
  BY <1>8
<1>13. L \in [0..N -> SUBSET S]
  BY <1>11, <1>12
<1>14. QED
  BY <1>10, <1>13 DEF Climbs, L

\* The levels are sets of keys, none twice, on which what waits for no cycle stands
\* above what it needs.
LEMMA LevelsAre ==
  ASSUME NEW g, NEW keys, IsGraph(g, keys), NEW S \in SUBSET keys, Closed(g, S)
  PROVE  /\ Levels(g, S) \in Seq(SUBSET keys)
         /\ UNION ToSet(Levels(g, S)) = {k \in S : ~Stuck(g, keys, k)}
         /\ \A i, j \in 1..Len(Levels(g, S)) :
              /\ i # j => Levels(g, S)[i] \cap Levels(g, S)[j] = {}
              /\ \A k \in Levels(g, S)[i], d \in Levels(g, S)[j] : d \in Needs(g, k) => j < i
<1> DEFINE N == Cardinality(S)
           L == Climb(g, S)
           level == [n \in 1..N |-> L[n] \ L[n - 1]]
           Kept == (SUBSET S) \ {{}}
           q == Keep(level, Kept)
<1>1. N \in Nat
  BY FS_Subset, FS_CardinalityType DEF IsGraph
<1>2. Levels(g, S) = q
  BY DEF Levels, Climb
<1> HIDE DEF L, N
<1>11. Climbs(g, S, N, L)
  BY <1>1, ClimbClimbs DEF L, N
<1>12. L[N] = {k \in S : ~Stuck(g, keys, k)}
  BY <1>1, <1>11, ClimbsToTheTop
<1>13. \A n \in 1..N : level[n] = L[n] \ L[n - 1] /\ level[n] \in SUBSET S
  <2>1. \A n \in 1..N : L[n] \in SUBSET S
    BY <1>1, <1>11 DEF Climbs
  <2>2. QED
    BY <2>1
<1>14. level \in Seq(SUBSET keys) /\ Len(level) = N
  <2>1. level \in [1..N -> SUBSET keys]
    BY <1>13
  <2> HIDE DEF level
  <2>2. DOMAIN level = 1..N
    BY <2>1
  <2>3. QED
    BY <1>1, <2>1, <2>2
<1> HIDE DEF level
<1>15. PICK h : q \in Seq(SUBSET keys) /\ FoundAt(q, level, N, Kept, h)
  BY <1>14, KeepIs
<1> HIDE DEF q
<1>16. DOMAIN q = 1..Len(q) /\ Len(q) \in Nat
  BY <1>15, LenProperties
<1>17. \A i \in 1..Len(q) : h[i] \in 1..N /\ q[i] = L[h[i]] \ L[h[i] - 1]
  BY <1>13, <1>15 DEF FoundAt
<1>18. UNION ToSet(q) = {k \in S : ~Stuck(g, keys, k)}
  <2>1. ASSUME NEW k \in L[N] PROVE k \in UNION ToSet(q)
    <3>1. PICK n \in 1..N : k \in L[n] \ L[n - 1]
      BY <1>1, <1>11, <2>1, OnALevel
    <3>2. level[n] \in Kept
      <4>1. level[n] \in SUBSET S /\ k \in level[n]
        BY <1>13, <3>1
      <4>2. QED
        BY <4>1
    <3>3. PICK i \in 1..Len(q) : h[i] = n
      BY <1>15, <3>2 DEF FoundAt
    <3>4. k \in q[i]
      BY <1>17, <3>1, <3>3
    <3>5. QED
      BY <1>16, <3>4 DEF ToSet
  <2>2. ASSUME NEW k \in UNION ToSet(q) PROVE k \in L[N]
    <3>1. PICK i \in 1..Len(q) : k \in q[i]
      BY <1>16 DEF ToSet
    <3>2. k \in L[h[i]] /\ h[i] \in 1..N
      BY <1>17, <3>1
    <3> DEFINE m == h[i]
    <3>3. m \in 0..N /\ N \in 0..N /\ m <= N /\ k \in L[m]
      BY <1>1, <3>2
    <3> HIDE DEF m
    <3>4. L[m] \subseteq L[N]
      BY <1>1, <1>11, <3>3, ClimbsUp
    <3>5. QED
      BY <3>3, <3>4
  <2>3. QED
    BY <1>12, <2>1, <2>2
<1>19. ASSUME NEW i \in 1..Len(q), NEW j \in 1..Len(q)
       PROVE  /\ i # j => q[i] \cap q[j] = {}
              /\ \A k \in q[i], d \in q[j] : d \in Needs(g, k) => j < i
  <2>1. \A x, y \in 1..Len(q) : x < y => h[x] < h[y]
    BY <1>15 DEF FoundAt
  <2>2. i \in Int /\ j \in Int
    BY <1>16
  <2> DEFINE m == h[i]
             n == h[j]
  <2>3. m \in 1..N /\ n \in 1..N /\ q[i] = L[m] \ L[m - 1] /\ q[j] = L[n] \ L[n - 1]
    BY <1>17
  <2>4. (i < j => m < n) /\ (j < i => n < m) /\ (i = j => m = n)
    BY <2>1
  <2> HIDE DEF m, n
  <2>5. (m # n => q[i] \cap q[j] = {}) /\ \A k \in q[i], d \in q[j] : d \in Needs(g, k) => n < m
    BY <1>1, <1>11, <2>3, LevelsApart
  <2>6. i # j => m # n
    BY <1>1, <2>2, <2>3, <2>4
  <2>7. n < m => j < i
    BY <1>1, <2>2, <2>3, <2>4
  <2>8. QED
    BY <2>5, <2>6, <2>7
<1>20. QED
  BY <1>2, <1>15, <1>18, <1>19

-----------------------------------------------------------------------------
(* The policies' orders *)

\* q has the keys of T, each once, and what waits for no cycle after what it needs.
Arranged(g, keys, T, q) ==
  /\ q \in Seq(keys) /\ IsInjective(q) /\ ToSet(q) = T
  /\ \A i, j \in 1..Len(q) : q[j] \in Needs(g, q[i]) /\ ~Stuck(g, keys, q[i]) => j < i

LEMMA TopologicalArranges ==
  ASSUME NEW g, NEW keys, IsGraph(g, keys), NEW scope \in Seq(keys), IsInjective(scope)
  PROVE  Arranged(g, keys, ToSet(scope), Topological(g, scope))
<1> DEFINE q == Topological(g, scope)
<1>1. q \in Seq(keys) /\ IsInjective(q) /\ ToSet(q) = ToSet(scope)
  BY TopologicalIs
<1>2. \A i \in 1..Len(q) : ~Stuck(g, keys, q[i]) =>
        \A d \in Needs(g, q[i]) \cap ToSet(scope) : \E j \in 1..i - 1 : q[j] = d
  BY TopologicalIs
<1> HIDE DEF q
<1>3. DOMAIN q = 1..Len(q) /\ Len(q) \in Nat
  BY <1>1, LenProperties
<1>4. ASSUME NEW i \in 1..Len(q), NEW j \in 1..Len(q), q[j] \in Needs(g, q[i]), ~Stuck(g, keys, q[i])
      PROVE  j < i
  <2>1. q[j] \in ToSet(scope)
    BY <1>1, <1>3 DEF ToSet
  <2>2. PICK l \in 1..i - 1 : q[l] = q[j]
    BY <1>2, <1>4, <2>1
  <2>3. l \in 1..Len(q)
    BY <1>3, <2>2
  <2>4. l = j
    BY <1>1, <1>3, <2>2, <2>3 DEF IsInjective
  <2>5. QED
    BY <2>2, <2>4
<1>5. QED
  BY <1>1, <1>4 DEF Arranged, q

LEMMA ReverseIs ==
  ASSUME NEW T, NEW q \in Seq(T), IsInjective(q)
  PROVE  /\ Reverse(q) \in Seq(T) /\ Len(Reverse(q)) = Len(q) /\ Len(q) \in Nat
         /\ IsInjective(Reverse(q)) /\ ToSet(Reverse(q)) = ToSet(q)
         /\ \A i \in 1..Len(q) : Len(q) - i + 1 \in 1..Len(q)
                                 /\ Reverse(q)[i] = q[Len(q) - i + 1]
<1> DEFINE n == Len(q)
           r == Reverse(q)
<1>1. DOMAIN q = 1..n /\ n \in Nat /\ \A i \in 1..n : q[i] \in T
  BY LenProperties, ElementOfSeq
<1>2. r = [i \in 1..n |-> q[(n - i) + 1]]
  BY DEF Reverse
<1> HIDE DEF n, r
<1>3. \A i \in 1..n : n - i + 1 \in 1..n /\ r[i] = q[n - i + 1]
  BY <1>1, <1>2
<1>4. r \in [1..n -> T] /\ DOMAIN r = 1..n
  BY <1>1, <1>2, <1>3
<1>5. r \in Seq(T) /\ Len(r) = n
  BY <1>1, <1>4
<1>6. ASSUME NEW i \in 1..n, NEW j \in 1..n, r[i] = r[j] PROVE i = j
  <2>1. n - i + 1 = n - j + 1
    BY <1>1, <1>3, <1>6 DEF IsInjective
  <2>2. QED
    BY <1>1, <2>1
<1>7. IsInjective(r)
  BY <1>4, <1>6 DEF IsInjective
<1>8. ToSet(r) = ToSet(q)
  <2>1. ToSet(r) \subseteq ToSet(q)
    BY <1>1, <1>3, <1>4 DEF ToSet
  <2>2. ASSUME NEW i \in 1..n PROVE q[i] \in ToSet(r)
    <3> DEFINE j == n - i + 1
    <3>1. j \in 1..n /\ n - j + 1 = i
      BY <1>1
    <3> HIDE DEF j
    <3>2. r[j] = q[i]
      BY <1>3, <3>1
    <3>3. QED
      BY <1>4, <3>1, <3>2 DEF ToSet
  <2>3. QED
    BY <1>1, <2>1, <2>2 DEF ToSet
<1>9. QED
  BY <1>1, <1>3, <1>5, <1>7, <1>8 DEF n, r

LEMMA OneByOneIs ==
  ASSUME NEW T, NEW q \in Seq(T), IsInjective(q)
  PROVE  /\ OneByOne(q) \in Seq(SUBSET T) /\ DOMAIN OneByOne(q) = 1..Len(q)
         /\ \A i \in 1..Len(q) : OneByOne(q)[i] = {q[i]}
         /\ UNION ToSet(OneByOne(q)) = ToSet(q)
         /\ \A i, j \in 1..Len(q) : i # j => OneByOne(q)[i] \cap OneByOne(q)[j] = {}
<1> DEFINE n == Len(q)
           b == OneByOne(q)
<1>1. DOMAIN q = 1..n /\ n \in Nat /\ \A i \in 1..n : q[i] \in T
  BY LenProperties, ElementOfSeq
<1>2. b = [i \in 1..n |-> {q[i]}]
  BY <1>1 DEF OneByOne
<1> HIDE DEF n, b
<1>3. b \in [1..n -> SUBSET T] /\ DOMAIN b = 1..n /\ \A i \in 1..n : b[i] = {q[i]}
  BY <1>1, <1>2
<1>4. b \in Seq(SUBSET T)
  BY <1>1, <1>3
<1>5. UNION ToSet(b) = ToSet(q)
  BY <1>1, <1>3 DEF ToSet
<1>6. \A i, j \in 1..n : i # j => b[i] \cap b[j] = {}
  BY <1>1, <1>3 DEF IsInjective
<1>7. QED
  BY <1>3, <1>4, <1>5, <1>6 DEF n, b

LEMMA ArrangedIsSound ==
  ASSUME NEW g, NEW keys, NEW policy, policy # "parent", NEW root, NEW q,
         Arranged(g, keys, Covered(policy, g, keys, root), q)
  PROVE  /\ OneByOne(q) \in Seq(SUBSET keys)
         /\ SoundOrder(policy, g, keys, root, OneByOne(q))
<1> DEFINE b == OneByOne(q)
<1>1. q \in Seq(keys) /\ IsInjective(q) /\ ToSet(q) = Covered(policy, g, keys, root)
  BY DEF Arranged
<1>2. /\ b \in Seq(SUBSET keys) /\ DOMAIN b = 1..Len(q)
      /\ \A i \in 1..Len(q) : b[i] = {q[i]}
      /\ UNION ToSet(b) = ToSet(q)
      /\ \A i, j \in 1..Len(q) : i # j => b[i] \cap b[j] = {}
  BY <1>1, OneByOneIs
<1> HIDE DEF b
<1>3. ASSUME NEW i \in DOMAIN b, NEW j \in DOMAIN b, NEW k \in b[i], NEW d \in b[j],
             d \in Needs(g, k), ~Stuck(g, keys, k)
      PROVE  j < i
  <2>1. i \in 1..Len(q) /\ j \in 1..Len(q) /\ k = q[i] /\ d = q[j]
    BY <1>2
  <2>2. QED
    BY <1>3, <2>1 DEF Arranged
<1>4. QED
  BY <1>1, <1>2, <1>3 DEF SoundOrder, b

LEMMA ReversedIsSound ==
  ASSUME NEW g, NEW keys, NEW root, NEW q,
         Arranged(g, keys, Covered("parent", g, keys, root), q)
  PROVE  /\ OneByOne(Reverse(q)) \in Seq(SUBSET keys)
         /\ SoundOrder("parent", g, keys, root, OneByOne(Reverse(q)))
<1> DEFINE r == Reverse(q)
           n == Len(q)
           b == OneByOne(r)
<1>1. q \in Seq(keys) /\ IsInjective(q) /\ ToSet(q) = Covered("parent", g, keys, root)
  BY DEF Arranged
<1>2. /\ r \in Seq(keys) /\ Len(r) = n /\ n \in Nat
      /\ IsInjective(r) /\ ToSet(r) = ToSet(q)
      /\ \A i \in 1..n : n - i + 1 \in 1..n /\ r[i] = q[n - i + 1]
  BY <1>1, ReverseIs
<1> HIDE DEF r, n
<1>3. /\ b \in Seq(SUBSET keys) /\ DOMAIN b = 1..n
      /\ \A i \in 1..n : b[i] = {r[i]}
      /\ UNION ToSet(b) = ToSet(r)
      /\ \A i, j \in 1..n : i # j => b[i] \cap b[j] = {}
  BY <1>2, OneByOneIs
<1> HIDE DEF b
<1>4. ASSUME NEW i \in DOMAIN b, NEW j \in DOMAIN b, NEW k \in b[i], NEW d \in b[j],
             d \in Needs(g, k), ~Stuck(g, keys, k)
      PROVE  i < j
  <2> DEFINE x == n - i + 1
             y == n - j + 1
  <2>1. i \in 1..n /\ j \in 1..n /\ k = q[x] /\ d = q[y] /\ x \in 1..n /\ y \in 1..n
    BY <1>2, <1>3
  <2>2. y < x => i < j
    BY <1>2, <2>1
  <2> HIDE DEF x, y
  <2>3. \A u, v \in 1..n : q[v] \in Needs(g, q[u]) /\ ~Stuck(g, keys, q[u]) => v < u
    BY DEF Arranged, n
  <2>4. y < x
    BY <1>4, <2>1, <2>3
  <2>5. QED
    BY <2>2, <2>4
<1>5. QED
  BY <1>1, <1>2, <1>3, <1>4 DEF SoundOrder, b, r

\* Every policy gives an order as it has to be, for every finite graph, with cycles
\* and missing rules or without: what it covers, each key once, and no key that can
\* be resolved before (for ParentFirstPolicy, after) one of its dependencies.
THEOREM BatchesAreSound ==
  ASSUME NEW g, NEW keys, IsGraph(g, keys),
         NEW listed \in Seq(keys), IsInjective(listed), ToSet(listed) = DOMAIN g,
         NEW root \in keys,
         NEW policy \in {"none", "lazy", "children", "parent", "eager", "parallel"}
  PROVE  /\ Batches(policy, g, listed, root) \in Seq(SUBSET keys)
         /\ SoundOrder(policy, g, keys, root, Batches(policy, g, listed, root))
<1> DEFINE B == Below(g, keys, root)
           R == Reachable(g, root)
           q == Topological(g, R)
<1>1. B \in SUBSET keys /\ Closed(g, B) /\ root \in B
  BY BelowIs
<1>2. R \in Seq(keys) /\ IsInjective(R) /\ ToSet(R) = B
  BY ReachableIs
<1> HIDE DEF B, R
<1>3. Arranged(g, keys, B, q)
  BY <1>2, TopologicalArranges
<1>4. CASE policy \in {"none", "lazy"}
  <2> DEFINE b == <<{root}>>
  <2>1. Batches(policy, g, listed, root) = b
    BY <1>4 DEF Batches
  <2>2. Covered(policy, g, keys, root) = {root}
    BY <1>4 DEF Covered
  <2>3. b \in Seq(SUBSET keys) /\ DOMAIN b = {1} /\ b[1] = {root}
    OBVIOUS
  <2> HIDE DEF b
  <2>4. UNION ToSet(b) = {root}
    BY <2>3 DEF ToSet
  <2>5. root \in Needs(g, root) => Stuck(g, keys, root)
    BY <1>1 DEF Stuck, B
  <2>6. QED
    BY <2>1, <2>2, <2>3, <2>4, <2>5 DEF SoundOrder
<1>5. CASE policy = "children"
  <2>1. Batches(policy, g, listed, root) = OneByOne(q)
    BY <1>5 DEF Batches, R
  <2>2. Covered(policy, g, keys, root) = B
    BY <1>5 DEF Covered, B
  <2> HIDE DEF q
  <2>3. QED
    <3>1. Arranged(g, keys, Covered(policy, g, keys, root), q)
      BY <1>3, <2>2
    <3>2. policy # "parent"
      BY <1>5
    <3>3. /\ OneByOne(q) \in Seq(SUBSET keys)
          /\ SoundOrder(policy, g, keys, root, OneByOne(q))
      BY ONLY <3>1, <3>2, ArrangedIsSound
    <3>4. QED
      BY <2>1, <3>2, <3>3
<1>6. CASE policy = "parent"
  <2>1. Batches(policy, g, listed, root) = OneByOne(Reverse(q))
    BY <1>6 DEF Batches, R
  <2>2. Covered("parent", g, keys, root) = B
    BY DEF Covered, B
  <2> HIDE DEF q
  <2>3. QED
    <3>1. Arranged(g, keys, Covered("parent", g, keys, root), q)
      BY <1>3, <2>2
    <3>2. policy = "parent"
      BY <1>6
    <3>3. /\ OneByOne(Reverse(q)) \in Seq(SUBSET keys)
          /\ SoundOrder("parent", g, keys, root, OneByOne(Reverse(q)))
      BY ONLY <3>1, <3>2, ReversedIsSound
    <3>4. QED
      BY <2>1, <3>2, <3>3
<1>7. CASE policy = "eager"
  <2> DEFINE p == Topological(g, listed)
  <2>1. Batches(policy, g, listed, root) = OneByOne(p)
    BY <1>7 DEF Batches
  <2>2. Covered(policy, g, keys, root) = ToSet(listed)
    BY <1>7 DEF Covered
  <2>3. Arranged(g, keys, ToSet(listed), p)
    BY TopologicalArranges
  <2> HIDE DEF p
  <2>4. QED
    <3>1. Arranged(g, keys, Covered(policy, g, keys, root), p)
      BY <2>2, <2>3
    <3>2. policy # "parent"
      BY <1>7
    <3>3. /\ OneByOne(p) \in Seq(SUBSET keys)
          /\ SoundOrder(policy, g, keys, root, OneByOne(p))
      BY ONLY <3>1, <3>2, ArrangedIsSound
    <3>4. QED
      BY <2>1, <3>2, <3>3
<1>8. CASE policy = "parallel"
  <2> DEFINE b == Levels(g, B)
  <2>1. Batches(policy, g, listed, root) = b
    <3>1. ToSet(q) = B
      BY <1>3 DEF Arranged
    <3>2. Batches(policy, g, listed, root) = Levels(g, ToSet(q))
      BY <1>8 DEF Batches, R
    <3> HIDE DEF q
    <3>3. QED
      BY <3>1, <3>2
  <2>2. Covered(policy, g, keys, root) = {k \in B : ~Stuck(g, keys, k)}
    BY <1>8 DEF Covered, B
  <2>3. /\ b \in Seq(SUBSET keys)
        /\ UNION ToSet(b) = {k \in B : ~Stuck(g, keys, k)}
        /\ \A i, j \in 1..Len(b) :
             /\ i # j => b[i] \cap b[j] = {}
             /\ \A k \in b[i], d \in b[j] : d \in Needs(g, k) => j < i
    BY <1>1, LevelsAre
  <2> HIDE DEF b
  <2>4. DOMAIN b = 1..Len(b)
    BY <2>3, LenProperties
  <2>5. QED
    BY <1>8, <2>1, <2>2, <2>3, <2>4 DEF SoundOrder
<1>9. QED
  BY <1>4, <1>5, <1>6, <1>7, <1>8
=============================================================================
