----------------------------- MODULE SharedLemmas -----------------------------
(***************************************************************************)
(* What the proofs of several modules need about numbers, functions that   *)
(* are defined step by step, and the items of sequences.                   *)
(***************************************************************************)
EXTENDS Integers, SequencesExt, FiniteSetTheorems, SequenceTheorems, WellFoundedInduction, TLAPS

-----------------------------------------------------------------------------
(* Numbers and recursion *)

\* Every set of numbers that is not empty has a least one.
LEMMA LeastNumber ==
  ASSUME NEW S \in SUBSET Nat, S # {}
  PROVE  \E m \in S : \A n \in S : m <= n
<1>1. \E m \in S : \A n \in S : ~(<<n, m>> \in OpToRel(<, Nat))
  BY NatLessThanWellFounded, WFMin
<1>2. PICK m \in S : \A n \in S : ~(<<n, m>> \in OpToRel(<, Nat))
  BY <1>1
<1>3. ASSUME NEW n \in S PROVE m <= n
  <2>1. ~(<<n, m>> \in {ss \in Nat \X Nat : ss[1] < ss[2]})
    BY <1>2 DEF OpToRel
  <2>2. <<n, m>> \in Nat \X Nat
    OBVIOUS
  <2>3. ~(n < m)
    BY <2>1, <2>2
  <2> QED BY <2>3
<1> QED BY <1>3

\* What holds of 0, and of n if it does of n - 1, holds up to any number.
LEMMA UpTo ==
  ASSUME NEW N \in Nat, NEW S, 0 \in S, \A n \in 1..N : n - 1 \in S => n \in S
  PROVE  \A n \in 0..N : n \in S
<1> DEFINE Bad == {n \in 0..N : n \notin S}
<1> SUFFICES ASSUME Bad # {} PROVE FALSE
  OBVIOUS
<1>1. Bad \in SUBSET Nat
  OBVIOUS
<1>2. PICK m \in Bad : \A n \in Bad : m <= n
  BY <1>1, LeastNumber
<1>3. m \in 1..N /\ m - 1 \in 0..N /\ ~(m <= m - 1)
  BY <1>2
<1>4. m - 1 \in S
  BY <1>2, <1>3
<1>5. QED
  BY <1>2, <1>3, <1>4

\* f starts from a, and its n-th step is that of F.
Runs(T, a, N, F, f) ==
  f \in [0..N -> T] /\ f[0] = a /\ \A n \in 1..N : f[n] = F[n][f[n - 1]]

\* Steps that lead from any value of T to one of T can be made one after the other.
LEMMA Iterated ==
  ASSUME NEW T, NEW a, a \in T, NEW N \in Nat, NEW F, F \in [1..N -> [T -> T]]
  PROVE  \E f : Runs(T, a, N, F, f)
<1> DEFINE S == {m \in 0..N : \E f : Runs(T, a, m, F, f)}
<1>1. 0 \in S
  <2> DEFINE f == [n \in 0..0 |-> a]
  <2>1. Runs(T, a, 0, F, f)
    BY DEF Runs
  <2> HIDE DEF f
  <2>2. QED
    BY <2>1
<1>2. ASSUME NEW n \in 1..N, n - 1 \in S PROVE n \in S
  <2>1. PICK f : Runs(T, a, n - 1, F, f)
    BY <1>2
  <2> DEFINE h == [i \in 0..n |-> IF i = n THEN F[n][f[n - 1]] ELSE f[i]]
  <2>2. f[n - 1] \in T /\ F[n][f[n - 1]] \in T
    BY <2>1 DEF Runs
  <2>3. h \in [0..n -> T] /\ h[0] = a /\ h[n] = F[n][f[n - 1]]
        /\ \A i \in 0..n - 1 : h[i] = f[i]
    BY <2>1, <2>2 DEF Runs
  <2> HIDE DEF h
  <2>4. ASSUME NEW i \in 1..n PROVE h[i] = F[i][h[i - 1]]
    <3>1. CASE i = n
      BY <2>3, <3>1
    <3>2. CASE i # n
      <4>1. i \in 1..n - 1 /\ i \in 0..n - 1 /\ i - 1 \in 0..n - 1
        BY <3>2
      <4>2. QED
        BY <2>1, <2>3, <4>1 DEF Runs
    <3>3. QED
      BY <3>1, <3>2
  <2>5. Runs(T, a, n, F, h)
    BY <2>3, <2>4 DEF Runs
  <2>6. QED
    BY <2>5
<1> HIDE DEF S
<1>3. \A n \in 1..N : n - 1 \in S => n \in S
  BY <1>2
<1>4. \A n \in 0..N : n \in S
  BY <1>1, <1>3, UpTo
<1>5. N \in S
  BY <1>4
<1>6. QED
  BY <1>5 DEF S

-----------------------------------------------------------------------------
(* Items of sequences *)

\* r is s with x at the end; r is s with t after it.
Appended(r, s, x) == r = Append(s, x)
Joined(r, s, t) == r = s \o t

LEMMA ItemsAppended ==
  ASSUME NEW T, NEW s \in Seq(T), NEW x \in T, NEW r, Appended(r, s, x)
  PROVE  /\ r \in Seq(T) /\ Len(r) = Len(s) + 1 /\ Len(s) \in Nat
         /\ ToSet(r) = ToSet(s) \cup {x}
         /\ IsInjective(s) /\ x \notin ToSet(s) => IsInjective(r)
<1> DEFINE n == Len(s)
<1>1. /\ r \in Seq(T) /\ Len(r) = n + 1 /\ r[n + 1] = x /\ \A i \in 1..n : r[i] = s[i]
      /\ n \in Nat /\ DOMAIN s = 1..n
  BY AppendProperties, LenProperties DEF Appended
<1>2. DOMAIN r = 1..n + 1
  BY <1>1, LenProperties
<1> HIDE DEF n
<1>3. \A i \in 1..n + 1 : i = n + 1 \/ i \in 1..n
  BY <1>1
<1>4. \A i \in 1..n : i \in 1..n + 1
  BY <1>1
<1>5. n + 1 \in 1..n + 1
  BY <1>1
<1>6. ToSet(r) = ToSet(s) \cup {x}
  <2>1. ToSet(r) \subseteq ToSet(s) \cup {x}
    BY <1>1, <1>2, <1>3 DEF ToSet
  <2>2. ToSet(s) \cup {x} \subseteq ToSet(r)
    BY <1>1, <1>2, <1>4, <1>5 DEF ToSet
  <2>3. QED
    BY <2>1, <2>2
<1>7. ASSUME IsInjective(s), x \notin ToSet(s), NEW i \in 1..n + 1, NEW j \in 1..n + 1, r[i] = r[j]
      PROVE  i = j
  <2>1. \A a \in 1..n : s[a] \in ToSet(s) /\ s[a] # x
    BY <1>1, <1>7 DEF ToSet
  <2>2. \A a, b \in 1..n : s[a] = s[b] => a = b
    BY <1>1, <1>7 DEF IsInjective
  <2>3. QED
    BY <1>1, <1>3, <1>7, <2>1, <2>2
<1>8. QED
  BY <1>1, <1>2, <1>6, <1>7 DEF IsInjective, n

LEMMA ItemsJoined ==
  ASSUME NEW T, NEW s \in Seq(T), NEW t \in Seq(T), NEW r, Joined(r, s, t)
  PROVE  /\ r \in Seq(T) /\ Len(r) = Len(s) + Len(t) /\ Len(s) \in Nat /\ Len(t) \in Nat
         /\ ToSet(r) = ToSet(s) \cup ToSet(t)
         /\ IsInjective(s) /\ IsInjective(t) /\ ToSet(s) \cap ToSet(t) = {} => IsInjective(r)
<1> DEFINE m == Len(s)
           n == Len(t)
<1>1. /\ m \in Nat /\ DOMAIN s = 1..m /\ n \in Nat /\ DOMAIN t = 1..n
  BY LenProperties
<1>2. /\ r \in Seq(T) /\ Len(r) = m + n
      /\ \A i \in 1..m + n : r[i] = IF i <= m THEN s[i] ELSE t[i - m]
  BY ConcatProperties DEF Joined
<1>3. DOMAIN r = 1..m + n
  BY <1>2, LenProperties
<1> HIDE DEF m, n
<1>4. \A i \in 1..m + n : (i \in 1..m /\ r[i] = s[i]) \/ (i - m \in 1..n /\ ~(i <= m) /\ r[i] = t[i - m])
  BY <1>1, <1>2
<1>5. \A i \in 1..m : i \in 1..m + n /\ r[i] = s[i]
  BY <1>1, <1>2
<1>6. ASSUME NEW i \in 1..n PROVE i + m \in 1..m + n /\ r[i + m] = t[i]
  <2> DEFINE a == i + m
  <2>1. a \in 1..m + n /\ ~(a <= m) /\ a - m = i
    BY <1>1
  <2> HIDE DEF a
  <2>2. a \in 1..m + n /\ r[a] = t[i]
    BY <1>2, <2>1
  <2>3. QED
    BY <2>2 DEF a
<1>7. ToSet(r) = ToSet(s) \cup ToSet(t)
  <2>1. ToSet(r) \subseteq ToSet(s) \cup ToSet(t)
    BY <1>1, <1>3, <1>4 DEF ToSet
  <2>2. ToSet(s) \subseteq ToSet(r)
    BY <1>1, <1>3, <1>5 DEF ToSet
  <2>3. ToSet(t) \subseteq ToSet(r)
    BY <1>1, <1>3, <1>6 DEF ToSet
  <2>4. QED
    BY <2>1, <2>2, <2>3
<1>8. ASSUME IsInjective(s), IsInjective(t), ToSet(s) \cap ToSet(t) = {},
             NEW i \in 1..m + n, NEW j \in 1..m + n, r[i] = r[j]
      PROVE  i = j
  <2>1. \A a, b \in 1..m : s[a] = s[b] => a = b
    BY <1>1, <1>8 DEF IsInjective
  <2>2. \A a, b \in 1..n : t[a] = t[b] => a = b
    BY <1>1, <1>8 DEF IsInjective
  <2>3. \A a \in 1..m, b \in 1..n : s[a] # t[b]
    BY <1>1, <1>8 DEF ToSet
  <2>4. i \in Int /\ j \in Int /\ m \in Int
    BY <1>1
  <2>5. CASE i \in 1..m /\ r[i] = s[i] /\ j \in 1..m /\ r[j] = s[j]
    BY <1>8, <2>1, <2>5
  <2>6. CASE i - m \in 1..n /\ r[i] = t[i - m] /\ j - m \in 1..n /\ r[j] = t[j - m]
    <3>1. i - m = j - m
      BY <1>8, <2>2, <2>6
    <3>2. QED
      BY <2>4, <3>1
  <2>7. CASE i \in 1..m /\ r[i] = s[i] /\ j - m \in 1..n /\ r[j] = t[j - m]
    BY <1>8, <2>3, <2>7
  <2>8. CASE i - m \in 1..n /\ r[i] = t[i - m] /\ j \in 1..m /\ r[j] = s[j]
    BY <1>8, <2>3, <2>8
  <2>9. QED
    BY <1>4, <2>5, <2>6, <2>7, <2>8
<1>9. QED
  BY <1>1, <1>2, <1>3, <1>7, <1>8 DEF IsInjective, m, n

LEMMA LastOff ==
  ASSUME NEW T, NEW s \in Seq(T), s # <<>>
  PROVE  /\ Last(s) \in T /\ Front(s) \in Seq(T)
         /\ Len(s) \in Nat \ {0} /\ Len(Front(s)) = Len(s) - 1
         /\ ToSet(s) = ToSet(Front(s)) \cup {Last(s)}
<1> DEFINE n == Len(s)
           r == Front(s)
<1>1. n \in Nat \ {0} /\ DOMAIN s = 1..n /\ \A i \in 1..n : s[i] \in T
  BY LenProperties, EmptySeq, ElementOfSeq
<1>2. \A i \in 1..n - 1 : i \in 1..n
  BY <1>1
<1>3. r \in Seq(T) /\ Len(r) = n - 1 /\ \A i \in 1..n - 1 : r[i] = s[i]
  <2>1. /\ SubSeq(s, 1, n - 1) \in Seq(T)
        /\ Len(SubSeq(s, 1, n - 1)) = IF 1 <= n - 1 THEN n - 1 - 1 + 1 ELSE 0
        /\ \A i \in 1..n - 1 - 1 + 1 : SubSeq(s, 1, n - 1)[i] = s[1 + i - 1]
    BY <1>1, <1>2, SubSeqProperties
  <2>2. r = SubSeq(s, 1, n - 1)
    BY DEF Front
  <2> HIDE DEF r, n
  <2>3. n - 1 - 1 + 1 = n - 1 /\ \A i \in 1..n - 1 : 1 + i - 1 = i
    BY <1>1
  <2>4. (IF 1 <= n - 1 THEN n - 1 - 1 + 1 ELSE 0) = n - 1
    BY <1>1
  <2>5. QED
    BY <2>1, <2>2, <2>3, <2>4
<1>4. DOMAIN r = 1..n - 1
  BY <1>3, LenProperties
<1>6. Last(s) = s[n]
  BY DEF Last
<1> HIDE DEF n, r
<1>5. n \in 1..n /\ \A i \in 1..n : i = n \/ i \in 1..n - 1
  BY <1>1
<1>7. ToSet(s) = ToSet(r) \cup {s[n]}
  <2>1. ToSet(s) \subseteq ToSet(r) \cup {s[n]}
    BY <1>1, <1>3, <1>4, <1>5 DEF ToSet
  <2>2. ToSet(r) \cup {s[n]} \subseteq ToSet(s)
    BY <1>1, <1>2, <1>3, <1>4, <1>5 DEF ToSet
  <2>3. QED
    BY <2>1, <2>2
<1>8. QED
  BY <1>1, <1>3, <1>5, <1>6, <1>7 DEF n, r

\* A sequence that repeats nothing is as long as the set of its items.
LEMMA AsManyItems ==
  ASSUME NEW T, NEW s \in Seq(T), IsInjective(s)
  PROVE  IsFiniteSet(ToSet(s)) /\ Cardinality(ToSet(s)) = Len(s)
<1> DEFINE n == Len(s)
<1>1. DOMAIN s = 1..n /\ n \in Nat /\ s \in [1..n -> T]
  BY LenProperties
<1> HIDE DEF n
<1>2. s \in Bijection(1..n, ToSet(s))
  <2>1. \A i \in 1..n : s[i] \in ToSet(s)
    BY <1>1 DEF ToSet
  <2>2. s \in [1..n -> ToSet(s)]
    BY <1>1, <2>1
  <2>3. \A y \in ToSet(s) : \E i \in 1..n : s[i] = y
    BY <1>1 DEF ToSet
  <2>4. \A i, j \in 1..n : s[i] = s[j] => i = j
    BY <1>1 DEF IsInjective
  <2>5. QED
    BY <2>2, <2>3, <2>4 DEF Bijection, Injection, Surjection
<1>3. IsFiniteSet(1..n) /\ Cardinality(1..n) = n
  <2>1. IsFiniteSet(1..n) /\ Cardinality(1..n) = IF 1 > n THEN 0 ELSE n - 1 + 1
    BY <1>1, FS_Interval
  <2>2. QED
    BY <1>1, <2>1
<1> DEFINE I == 1..n
           U == ToSet(s)
<1>4. s \in Bijection(I, U) /\ IsFiniteSet(I) /\ Cardinality(I) = n
  BY <1>2, <1>3
<1> HIDE DEF I, U
<1>5. ExistsBijection(I, U)
  BY <1>4 DEF ExistsBijection
<1>6. IsFiniteSet(U) /\ Cardinality(U) = Cardinality(I)
  BY <1>4, <1>5, FS_Bijection
<1>7. QED
  BY <1>4, <1>6 DEF n, U

LEMMA FirstOff ==
  ASSUME NEW T, NEW s \in Seq(T), s # <<>>, IsInjective(s)
  PROVE  /\ Head(s) \in T /\ Tail(s) \in Seq(T) /\ IsInjective(Tail(s))
         /\ ToSet(s) = ToSet(Tail(s)) \cup {Head(s)} /\ Head(s) \notin ToSet(Tail(s))
<1> DEFINE n == Len(s)
           r == Tail(s)
           x == Head(s)
<1>1. n \in Nat \ {0} /\ DOMAIN s = 1..n /\ \A i \in 1..n : s[i] \in T
  BY LenProperties, EmptySeq, ElementOfSeq
<1>2. x = s[1] /\ r \in Seq(T) /\ Len(r) = n - 1 /\ \A i \in 1..n - 1 : r[i] = s[i + 1]
  BY HeadTailProperties
<1>3. DOMAIN r = 1..n - 1
  BY <1>2, LenProperties
<1> HIDE DEF n, r, x
<1>4. 1 \in 1..n /\ \A i \in 1..n - 1 : i + 1 \in 1..n /\ i + 1 # 1
  BY <1>1
<1>5. \A i \in 1..n : i = 1 \/ (i - 1 \in 1..n - 1 /\ i = (i - 1) + 1)
  BY <1>1
<1>6. \A i, j \in 1..n : s[i] = s[j] => i = j
  BY <1>1 DEF IsInjective
<1>7. ToSet(s) = ToSet(r) \cup {x}
  <2>1. ToSet(r) \cup {x} \subseteq ToSet(s)
    BY <1>1, <1>2, <1>3, <1>4 DEF ToSet
  <2>2. ASSUME NEW i \in 1..n PROVE s[i] \in ToSet(r) \cup {x}
    <3>1. CASE i = 1
      BY <1>2, <3>1
    <3>2. CASE i # 1
      <4> DEFINE j == i - 1
      <4>1. j \in 1..n - 1 /\ i = j + 1
        BY <1>5, <3>2
      <4> HIDE DEF j
      <4>2. s[i] = r[j]
        BY <1>2, <4>1
      <4>3. QED
        BY <1>3, <4>1, <4>2 DEF ToSet
    <3>3. QED
      BY <3>1, <3>2
  <2>3. QED
    BY <1>1, <2>1, <2>2 DEF ToSet
<1>8. x \notin ToSet(r)
  <2>1. ASSUME NEW i \in 1..n - 1 PROVE r[i] # x
    BY <1>2, <1>4, <1>6
  <2>2. QED
    BY <1>3, <2>1 DEF ToSet
<1>9. ASSUME NEW i \in 1..n - 1, NEW j \in 1..n - 1, r[i] = r[j] PROVE i = j
  <2>1. i + 1 = j + 1
    BY <1>2, <1>4, <1>6, <1>9
  <2>2. QED
    BY <2>1
<1>10. IsInjective(r)
  BY <1>3, <1>9 DEF IsInjective
<1>11. QED
  BY <1>1, <1>2, <1>4, <1>7, <1>8, <1>10 DEF r, x
=============================================================================
