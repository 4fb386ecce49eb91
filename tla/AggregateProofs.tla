--------------------------- MODULE AggregateProofs ---------------------------
(* Lemmas about the operators of TransactionAggregate, for every log and    *)
(* every command; the proofs about the other modules rest on them.  The     *)
(* induction theorems of the library take a predicate as a parameter; those *)
(* of Part 1 take a set, and first-order facts about it, instead.           *)
EXTENDS TransactionAggregate, FiniteSetTheorems, SequenceTheorems, WellFoundedInduction, TLAPS

(***************************************************************************)
(* Part 1: induction, folds and sums.                                      *)
(***************************************************************************)

\* A non-empty set of naturals has a minimum.
LEMMA MinOfNats ==
    ASSUME NEW S \in SUBSET Nat, S # {}
    PROVE  Min(S) \in S /\ \A n \in S : Min(S) <= n
<1>1. IsWellFoundedOn(OpToRel(<, Nat), Nat)
  BY NatLessThanWellFounded
<1>2. \E x \in S : \A y \in S : ~ (<<y, x>> \in OpToRel(<, Nat))
  BY <1>1, WFMin, Zenon
<1>3. PICK x \in S : \A y \in S : ~ (<<y, x>> \in OpToRel(<, Nat))
  BY <1>2
<1>4. \A y \in S : x <= y
  <2> TAKE y \in S
  <2>1. ~ (y < x)
    BY <1>3 DEF OpToRel
  <2> QED
    BY <2>1
<1> QED
  BY <1>4 DEF Min

\* A non-empty set of naturals up to n has a maximum.
LEMMA MaxOfNats ==
    ASSUME NEW n \in Nat, NEW S \in SUBSET (0..n), S # {}
    PROVE  Max(S) \in S /\ \A i \in S : i <= Max(S)
<1> DEFINE T == {n - i : i \in S}
<1>1. T \in SUBSET Nat /\ T # {}
  <2>1. \A i \in S : n - i \in Nat
    OBVIOUS
  <2>2. PICK i \in S : TRUE
    OBVIOUS
  <2>3. n - i \in T
    OBVIOUS
  <2> QED
    BY <2>1, <2>3, Zenon
<1>2. Min(T) \in T /\ \A m \in T : Min(T) <= m
  BY <1>1, MinOfNats
<1>3. PICK x \in S : Min(T) = n - x
  BY <1>2
<1>4. \A i \in S : x >= i
  <2> TAKE i \in S
  <2>1. n - x <= n - i
    BY <1>2, <1>3
  <2> QED
    BY <2>1
<1> QED
  BY <1>3, <1>4 DEF Max

\* Induction, for a set of numbers instead of a predicate.
LEMMA NatSetInduction ==
    ASSUME NEW S, 0 \in S, \A n \in Nat : n \in S => n + 1 \in S
    PROVE  Nat \subseteq S
<1> SUFFICES ASSUME Nat \ S # {} PROVE FALSE
  OBVIOUS
<1>1. Min(Nat \ S) \in Nat \ S /\ \A n \in Nat \ S : Min(Nat \ S) <= n
  BY MinOfNats
<1> DEFINE m == Min(Nat \ S)
<1>2. m \in Nat /\ m # 0 /\ m \notin S /\ \A n \in Nat \ S : m <= n
  BY <1>1
<1> HIDE DEF m
<1>3. m - 1 \in Nat /\ (m - 1) + 1 = m /\ ~ (m <= m - 1)
  BY <1>2
<1>4. m - 1 \in S
  BY <1>2, <1>3
<1> QED
  BY <1>2, <1>3, <1>4

\* A rule that takes an element of every set.
Takes(c, D) == \A s \in SUBSET D : s # {} => c[s] \in s

\* h folds the elements of the subsets of D, in the order in which c takes them.
Folds(h, D, V, base, c, g) ==
    /\ h \in [SUBSET D -> V]
    /\ \A s \in SUBSET D : h[s] = IF s = {} THEN base ELSE g[<<c[s], h[s \ {c[s]}]>>]

\* The function that a fold computes exists, on every finite set.
LEMMA FoldExists ==
    ASSUME NEW D, IsFiniteSet(D), NEW V, NEW base \in V, NEW c, Takes(c, D),
           NEW g \in [D \X V -> V]
    PROVE  \E h : Folds(h, D, V, base, c, g)
<1> DEFINE Upto(n) == {s \in SUBSET D : Cardinality(s) <= n}
           Fold(n, h) == \A s \in Upto(n) :
                            h[s] = IF s = {} THEN base ELSE g[<<c[s], h[s \ {c[s]}]>>]
           N == {n \in Nat : \E h \in [SUBSET D -> V] : Fold(n, h)}
<1>f. \A s \in SUBSET D : IsFiniteSet(s) /\ Cardinality(s) \in Nat /\ Cardinality(s) <= Cardinality(D)
  BY FS_Subset, FS_CardinalityType
<1>c. \A s \in SUBSET D : s # {} => /\ Cardinality(s \ {c[s]}) = Cardinality(s) - 1
                                    /\ s \ {c[s]} \in SUBSET D
  BY <1>f, FS_RemoveElement DEF Takes
<1>e. \A s \in SUBSET D : Cardinality(s) = 0 <=> s = {}
  BY <1>f, FS_EmptySet
<1>0. 0 \in N
  <2> DEFINE h == [s \in SUBSET D |-> base]
  <2>1. h \in [SUBSET D -> V]
    OBVIOUS
  <2>2. \A s \in Upto(0) : s = {}
    BY <1>e, <1>f
  <2>3. Fold(0, h)
    BY <2>2
  <2> QED
    BY <2>1, <2>3
<1>1. ASSUME NEW n \in Nat, n \in N PROVE n + 1 \in N
  <2>1. PICK h \in [SUBSET D -> V] : Fold(n, h)
    BY <1>1
  <2> DEFINE k == [s \in SUBSET D |-> IF s = {} THEN base ELSE
                     IF Cardinality(s) <= n THEN h[s] ELSE g[<<c[s], h[s \ {c[s]}]>>]]
  <2>2. ASSUME NEW s \in SUBSET D, s # {} PROVE g[<<c[s], h[s \ {c[s]}]>>] \in V
    <3>1. c[s] \in D /\ h[s \ {c[s]}] \in V
      BY <1>c, <2>1, <2>2 DEF Takes
    <3> QED
      BY <3>1
  <2>3. k \in [SUBSET D -> V]
    BY <2>1, <2>2
  <2>4. \A s \in Upto(n) : k[s] = h[s]
    BY <2>1
  <2>5. ASSUME NEW s \in Upto(n + 1)
        PROVE  k[s] = IF s = {} THEN base ELSE g[<<c[s], k[s \ {c[s]}]>>]
    <3>1. CASE s = {}
      BY <3>1
    <3>2. CASE s # {}
      <4>1. s \ {c[s]} \in Upto(n)
        <5> HIDE DEF k
        <5>1. Cardinality(s) <= n + 1 /\ s \in SUBSET D
          OBVIOUS
        <5> QED
          BY <5>1, <3>2, <1>c, <1>f
      <4>2. k[s] = g[<<c[s], h[s \ {c[s]}]>>]
        BY <2>1, <3>2
      <4>3. k[s \ {c[s]}] = h[s \ {c[s]}]
        BY <2>4, <4>1
      <4> HIDE DEF k
      <4> QED
        BY <3>2, <4>2, <4>3
    <3> QED
      BY <3>1, <3>2
  <2>6. Fold(n + 1, k)
    BY <2>5
  <2> HIDE DEF k, Fold
  <2> QED
    BY <2>3, <2>6
<1> HIDE DEF N
<1>2. Nat \subseteq N
  BY <1>0, <1>1, NatSetInduction
<1>3. Cardinality(D) \in N
  BY <1>2, <1>f
<1>4. PICK h \in [SUBSET D -> V] : Fold(Cardinality(D), h)
  BY <1>3 DEF N
<1>5. \A s \in SUBSET D : s \in Upto(Cardinality(D))
  BY <1>f
<1> QED
  BY <1>4, <1>5 DEF Folds

\* Induction over the subsets of a finite set, each from one with an element less.
Inductive(P, S) ==
    /\ {} \in P
    /\ \A t \in SUBSET S : t # {} => \E x \in t : t \ {x} \in P => t \in P

\* What holds of {} and of one element more holds of every finite subset.
LEMMA SubsetInduction ==
    ASSUME NEW S, IsFiniteSet(S), NEW P, Inductive(P, S)
    PROVE  SUBSET S \subseteq P
<1> DEFINE N == {n \in Nat : \A t \in SUBSET S : Cardinality(t) = n => t \in P}
<1>f. \A t \in SUBSET S : IsFiniteSet(t) /\ Cardinality(t) \in Nat
  BY FS_Subset, FS_CardinalityType
<1>1. 0 \in N
  <2>1. \A t \in SUBSET S : Cardinality(t) = 0 => t = {}
    BY <1>f, FS_EmptySet
  <2> QED
    BY <2>1 DEF Inductive
<1>2. ASSUME NEW n \in Nat, n \in N PROVE n + 1 \in N
  <2> SUFFICES ASSUME NEW t \in SUBSET S, Cardinality(t) = n + 1 PROVE t \in P
    OBVIOUS
  <2>1. t # {}
    BY <1>f, FS_EmptySet
  <2>2. PICK x \in t : t \ {x} \in P => t \in P
    BY <2>1 DEF Inductive
  <2>3. IsFiniteSet(t)
    BY <1>f
  <2>4. Cardinality(t \ {x}) = Cardinality(t) - 1
    BY <2>3, FS_RemoveElement
  <2>5. Cardinality(t \ {x}) = n
    BY <2>4
  <2>6. t \ {x} \in P
    BY <1>2, <2>5
  <2> QED
    BY <2>2, <2>6
<1> HIDE DEF N
<1>3. Nat \subseteq N
  BY <1>1, <1>2, NatSetInduction
<1> QED
  BY <1>3, <1>f DEF N

\* The element of a set that a sum takes first.
First(t) == CHOOSE x \in t : TRUE

\* it holds the sum of f over each subset of S.
Sums(it, f, S) ==
    /\ it \in [SUBSET S -> Int]
    /\ \A t \in SUBSET S : it[t] = IF t = {} THEN 0 ELSE f[First(t)] + it[t \ {First(t)}]

\* The element a sum takes first is one of its set.
LEMMA FirstIsElement == ASSUME NEW t, t # {} PROVE First(t) \in t
BY DEF First

\* A sum is the value at S of a function that satisfies its recursion.
LEMMA SumUnfolded ==
    ASSUME NEW S, IsFiniteSet(S), NEW f, \A x \in S : f[x] \in Int
    PROVE  \E it : Sums(it, f, S) /\ SumFunctionOnSet(f, S) = it[S]
<1> DEFINE c == [t \in SUBSET S |-> First(t)]
           g == [p \in S \X Int |-> f[p[1]] + p[2]]
           F(k) == [t \in SUBSET S |-> IF t = {} THEN 0 ELSE f[First(t)] + k[t \ {First(t)}]]
<1>1. g \in [S \X Int -> Int]
  OBVIOUS
<1>2. \A t \in SUBSET S : c[t] = First(t)
  OBVIOUS
<1>3. \A t \in SUBSET S : t # {} => c[t] \in t
  BY FirstIsElement
<1> HIDE DEF c, g
<1>4. Takes(c, S) /\ 0 \in Int
  BY <1>3 DEF Takes
<1>5. PICK h : Folds(h, S, Int, 0, c, g)
  BY <1>1, <1>4, FoldExists
<1>6. \A s \in SUBSET S : s # {} => c[s] \in S /\ h[s \ {c[s]}] \in Int
  BY <1>3, <1>5 DEF Folds
<1>7. \A s \in SUBSET S : h[s] = IF s = {} THEN 0 ELSE f[c[s]] + h[s \ {c[s]}]
  BY <1>5, <1>6 DEF Folds, g
<1>8. \A t \in SUBSET S : h[t] = IF t = {} THEN 0 ELSE f[First(t)] + h[t \ {First(t)}]
  BY <1>2, <1>7
<1>9. h = F(h)
  BY <1>5, <1>8 DEF Folds
<1> DEFINE it == CHOOSE k : k = F(k)
<1>10. it = F(it)
  BY <1>9
<1>11. SumFunctionOnSet(f, S) = it[S]
  BY DEF SumFunctionOnSet, FoldFunctionOnSet, MapThenFoldSet, First
<1> HIDE DEF it
<1>12. \A t \in SUBSET S : it[t] = IF t = {} THEN 0 ELSE f[First(t)] + it[t \ {First(t)}]
  BY <1>10
<1> DEFINE P == {t \in SUBSET S : it[t] \in Int}
<1>13. {} \in P
  <2>1. it[{}] = 0
    BY <1>12
  <2> QED
    BY <2>1
<1>14. ASSUME NEW t \in SUBSET S, t # {}, t \ {First(t)} \in P PROVE t \in P
  <2>1. First(t) \in S
    BY <1>14, FirstIsElement
  <2>2. f[First(t)] \in Int /\ it[t \ {First(t)}] \in Int
    BY <1>14, <2>1
  <2>3. it[t] = f[First(t)] + it[t \ {First(t)}]
    BY <1>12, <1>14
  <2> QED
    BY <2>2, <2>3
<1> HIDE DEF P
<1>15. SUBSET S \subseteq P
  <2>1. \A t \in SUBSET S : t # {} => \E x \in t : t \ {x} \in P => t \in P
    BY <1>14, FirstIsElement
  <2>2. Inductive(P, S)
    BY <1>13, <2>1 DEF Inductive
  <2> QED
    BY <2>2, SubsetInduction
<1>16. it \in [SUBSET S -> Int]
  BY <1>10, <1>15 DEF P
<1> QED
  BY <1>11, <1>12, <1>16 DEF Sums

\* Two such functions agree where their summands do.
LEMMA SumsCongruent ==
    ASSUME NEW S, IsFiniteSet(S), NEW T \in SUBSET S, NEW f, NEW g,
           \A x \in T : g[x] = f[x], NEW it, Sums(it, f, S), NEW jt, Sums(jt, g, T)
    PROVE  jt[T] = it[T]
<1> DEFINE P == {t \in SUBSET T : jt[t] = it[t]}
<1>1. /\ \A t \in SUBSET S : it[t] = IF t = {} THEN 0 ELSE f[First(t)] + it[t \ {First(t)}]
      /\ \A t \in SUBSET T : jt[t] = IF t = {} THEN 0 ELSE g[First(t)] + jt[t \ {First(t)}]
  BY DEF Sums
<1>2. {} \in P
  BY <1>1
<1>3. ASSUME NEW t \in SUBSET T, t # {}, t \ {First(t)} \in P PROVE t \in P
  <2>1. First(t) \in T
    BY <1>3, FirstIsElement
  <2>2. t \in SUBSET S /\ g[First(t)] = f[First(t)] /\ jt[t \ {First(t)}] = it[t \ {First(t)}]
    BY <1>3, <2>1
  <2>3. it[t] = f[First(t)] + it[t \ {First(t)}] /\ jt[t] = g[First(t)] + jt[t \ {First(t)}]
    BY <1>1, <1>3, <2>2
  <2> QED
    BY <2>2, <2>3
<1> HIDE DEF P
<1>4. \A t \in SUBSET T : t # {} => \E x \in t : t \ {x} \in P => t \in P
  BY <1>3, FirstIsElement
<1>5. IsFiniteSet(T)
  BY FS_Subset
<1>6. Inductive(P, T)
  BY <1>2, <1>4 DEF Inductive
<1>7. SUBSET T \subseteq P
  BY <1>5, <1>6, SubsetInduction
<1> QED
  BY <1>7 DEF P

\* A sum over nothing.
LEMMA SumOfEmpty == ASSUME NEW f PROVE SumFunctionOnSet(f, {}) = 0
<1>1. IsFiniteSet({}) /\ \A x \in {} : f[x] \in Int
  BY FS_EmptySet
<1>2. PICK it : Sums(it, f, {}) /\ SumFunctionOnSet(f, {}) = it[{}]
  BY <1>1, SumUnfolded
<1> QED
  BY <1>2 DEF Sums

\* The sum is an integer, and depends on the values for the elements only.
LEMMA SumSame ==
    ASSUME NEW S, IsFiniteSet(S), NEW f, NEW g, \A x \in S : f[x] \in Int /\ g[x] = f[x]
    PROVE  SumFunctionOnSet(g, S) = SumFunctionOnSet(f, S) /\ SumFunctionOnSet(f, S) \in Int
<1>1. PICK it : Sums(it, f, S) /\ SumFunctionOnSet(f, S) = it[S]
  BY SumUnfolded
<1>2. PICK jt : Sums(jt, g, S) /\ SumFunctionOnSet(g, S) = jt[S]
  BY SumUnfolded
<1>3. S \in SUBSET S
  OBVIOUS
<1>4. jt[S] = it[S]
  BY <1>1, <1>2, <1>3, SumsCongruent
<1>5. it[S] \in Int
  BY <1>1, <1>3 DEF Sums
<1> QED
  BY <1>1, <1>2, <1>4, <1>5

\* A sum is the element taken first and the sum of the rest.
LEMMA SumFirst ==
    ASSUME NEW S, IsFiniteSet(S), S # {}, NEW f, \A x \in S : f[x] \in Int
    PROVE  SumFunctionOnSet(f, S) = f[First(S)] + SumFunctionOnSet(f, S \ {First(S)})
<1>1. PICK it : Sums(it, f, S) /\ SumFunctionOnSet(f, S) = it[S]
  BY SumUnfolded
<1> DEFINE T == S \ {First(S)}
<1>2. T \in SUBSET S /\ IsFiniteSet(T) /\ \A x \in T : f[x] \in Int
  BY FS_Subset
<1>3. it[S] = f[First(S)] + it[T]
  BY <1>1 DEF Sums
<1> HIDE DEF T
<1>4. PICK jt : Sums(jt, f, T) /\ SumFunctionOnSet(f, T) = jt[T]
  BY <1>2, SumUnfolded
<1>5. jt[T] = it[T]
  BY <1>1, <1>2, <1>4, SumsCongruent
<1> QED
  BY <1>1, <1>3, <1>4, <1>5 DEF T

\* One more element adds its value to the sum, whatever the order of summation.
LEMMA SumAdd ==
    ASSUME NEW S, IsFiniteSet(S), NEW e, e \notin S, NEW f, \A x \in S \cup {e} : f[x] \in Int
    PROVE  SumFunctionOnSet(f, S \cup {e}) = f[e] + SumFunctionOnSet(f, S)
<1> DEFINE Sum(T) == SumFunctionOnSet(f, T)
           D == S \cup {e}
           N == {n \in Nat : \A T \in SUBSET D : \A y \in D \ T :
                    Cardinality(T) = n => Sum(T \cup {y}) = f[y] + Sum(T)}
<1>d. IsFiniteSet(D) /\ \A T \in SUBSET D : IsFiniteSet(T) /\ Cardinality(T) \in Nat
  BY FS_AddElement, FS_Subset, FS_CardinalityType
<1>s. \A T \in SUBSET D : Sum(T) \in Int
  BY <1>d, SumSame
<1>1. ASSUME NEW T \in SUBSET D, NEW y \in D \ T,
             \A U \in SUBSET D : \A z \in D \ U :
                Cardinality(U) = Cardinality(T) - 1 => Sum(U \cup {z}) = f[z] + Sum(U)
      PROVE  Sum(T \cup {y}) = f[y] + Sum(T)
  <2> DEFINE x == First(T \cup {y})
  <2>1. x \in T \cup {y}
    BY FirstIsElement
  <2>2. Sum(T \cup {y}) = f[x] + Sum((T \cup {y}) \ {x})
    <3>1. T \cup {y} \in SUBSET D
      OBVIOUS
    <3>2. IsFiniteSet(T \cup {y}) /\ \A z \in T \cup {y} : f[z] \in Int
      BY <3>1, <1>d
    <3>3. T \cup {y} # {}
      OBVIOUS
    <3> HIDE DEF D
    <3> QED
      BY <3>2, <3>3, SumFirst
  <2> HIDE DEF x, Sum
  <2>3. CASE x = y
    <3>1. (T \cup {y}) \ {x} = T
      BY <2>3
    <3> QED
      BY <2>2, <2>3, <3>1
  <2>4. CASE x # y
    <3>1. /\ x \in T /\ T \ {x} \in SUBSET D /\ y \in D \ (T \ {x}) /\ x \in D \ (T \ {x})
          /\ (T \cup {y}) \ {x} = (T \ {x}) \cup {y}
          /\ (T \ {x}) \cup {x} = T
      BY <2>1, <2>4
    <3>2. Cardinality(T \ {x}) = Cardinality(T) - 1
      BY <1>d, <3>1, FS_RemoveElement
    <3>3. Sum((T \ {x}) \cup {y}) = f[y] + Sum(T \ {x})
      BY <1>1, <3>1, <3>2
    <3>4. Sum(T) = f[x] + Sum(T \ {x})
      BY <1>1, <3>1, <3>2
    <3>5. f[x] \in Int /\ f[y] \in Int /\ Sum(T \ {x}) \in Int
      BY <3>1, <1>s
    <3>6. Sum(T \cup {y}) = f[x] + (f[y] + Sum(T \ {x}))
      BY <2>2, <3>1, <3>3
    <3> QED
      BY <3>4, <3>5, <3>6
  <2> QED
    BY <2>3, <2>4
<1> HIDE DEF Sum, D
<1>2. 0 \in N
  <2> SUFFICES ASSUME NEW T \in SUBSET D, NEW y \in D \ T, Cardinality(T) = 0
               PROVE  Sum(T \cup {y}) = f[y] + Sum(T)
    OBVIOUS
  <2>1. \A U \in SUBSET D : Cardinality(U) # Cardinality(T) - 1
    BY <1>d
  <2> QED
    BY <1>1, <2>1
<1>3. ASSUME NEW n \in Nat, n \in N PROVE n + 1 \in N
  <2> SUFFICES ASSUME NEW T \in SUBSET D, NEW y \in D \ T, Cardinality(T) = n + 1
               PROVE  Sum(T \cup {y}) = f[y] + Sum(T)
    OBVIOUS
  <2>1. Cardinality(T) - 1 = n
    OBVIOUS
  <2> QED
    BY <1>1, <1>3, <2>1
<1> HIDE DEF N
<1>4. Nat \subseteq N
  BY <1>2, <1>3, NatSetInduction
<1>5. S \in SUBSET D /\ e \in D \ S
  BY DEF D
<1>6. Sum(S \cup {e}) = f[e] + Sum(S)
  BY <1>4, <1>5, <1>d DEF N
<1> QED
  BY <1>6 DEF Sum

\* A sum of naturals is no more than its largest term for each of them.
LEMMA SumBounded ==
    ASSUME NEW S, IsFiniteSet(S), NEW f, NEW m \in Nat, \A x \in S : f[x] \in 0..m
    PROVE  SumFunctionOnSet(f, S) \in 0..(Cardinality(S) * m)
<1> DEFINE P == {t \in SUBSET S : SumFunctionOnSet(f, t) \in 0..(Cardinality(t) * m)}
<1>1. {} \in P
  <2>1. Cardinality({}) * m = 0
    BY FS_EmptySet
  <2> QED
    BY <2>1, SumOfEmpty
<1>2. ASSUME NEW t \in SUBSET S, NEW x \in t, t \ {x} \in P PROVE t \in P
  <2> DEFINE u == t \ {x}
             k == Cardinality(u)
             s == SumFunctionOnSet(f, u)
  <2>1. IsFiniteSet(t) /\ IsFiniteSet(u)
    BY FS_Subset
  <2>2. k \in Nat /\ Cardinality(t) = k + 1
    BY <2>1, FS_RemoveElement, FS_CardinalityType
  <2>3. SumFunctionOnSet(f, t) = f[x] + s
    <3>1. u \cup {x} = t /\ x \notin u /\ \A y \in u \cup {x} : f[y] \in Int
      OBVIOUS
    <3>2. SumFunctionOnSet(f, u \cup {x}) = f[x] + SumFunctionOnSet(f, u)
      BY <2>1, <3>1, SumAdd
    <3> QED
      BY <3>1, <3>2
  <2>4. s \in 0..(k * m) /\ f[x] \in 0..m
    BY <1>2
  <2> HIDE DEF u, k, s
  <2>5. k * m \in Nat /\ (k + 1) * m = k * m + m
    BY <2>2
  <2>6. f[x] + s \in 0..((k + 1) * m)
    BY <2>4, <2>5
  <2> QED
    BY <2>2, <2>3, <2>6
<1> HIDE DEF P
<1>3. Inductive(P, S)
  BY <1>1, <1>2 DEF Inductive
<1>4. S \in P
  BY <1>3, SubsetInduction
<1> QED
  BY <1>4 DEF P

\* Sums over intervals: one more at the end, a place further, and in two parts.
LEMMA SumPush ==
    ASSUME NEW a \in Int, NEW b \in Int, a <= b + 1, NEW f, \A i \in a..(b + 1) : f[i] \in Int
    PROVE  SumFunctionOnSet(f, a..(b + 1)) = f[b + 1] + SumFunctionOnSet(f, a..b)
<1>1. IsFiniteSet(a..b)
  BY FS_Interval
<1>2. /\ b + 1 \notin a..b
      /\ \A i : i \in a..(b + 1) <=> i \in a..b \/ i = b + 1
  OBVIOUS
<1>3. (a..b) \cup {b + 1} = a..(b + 1)
  BY <1>2, Zenon
<1>4. \A i \in (a..b) \cup {b + 1} : f[i] \in Int
  BY <1>3
<1>5. SumFunctionOnSet(f, (a..b) \cup {b + 1}) = f[b + 1] + SumFunctionOnSet(f, a..b)
  BY <1>1, <1>2, <1>4, SumAdd
<1> QED
  BY <1>3, <1>5

\* A sum over the places of a sequence, moved by one.
LEMMA SumShift ==
    ASSUME NEW n \in Nat, NEW f, NEW g, \A i \in 1..n : f[i + 1] \in Int /\ g[i] = f[i + 1]
    PROVE  SumFunctionOnSet(f, 2..(n + 1)) = SumFunctionOnSet(g, 1..n)
<1> DEFINE N == {k \in Nat : k <= n => SumFunctionOnSet(f, 2..(k + 1)) = SumFunctionOnSet(g, 1..k)}
<1>1. 0 \in N
  <2>1. 2..(0 + 1) = {} /\ 1..0 = {}
    OBVIOUS
  <2> QED
    BY <2>1, SumOfEmpty
<1>2. ASSUME NEW k \in Nat, k \in N PROVE k + 1 \in N
  <2> SUFFICES ASSUME k + 1 <= n
               PROVE  SumFunctionOnSet(f, 2..((k + 1) + 1)) = SumFunctionOnSet(g, 1..(k + 1))
    OBVIOUS
  <2>1. SumFunctionOnSet(f, 2..(k + 1)) = SumFunctionOnSet(g, 1..k)
    BY <1>2
  <2>2. \A i \in 2..((k + 1) + 1) : f[i] \in Int
    <3> TAKE i \in 2..((k + 1) + 1)
    <3>1. i - 1 \in 1..n /\ (i - 1) + 1 = i
      OBVIOUS
    <3> QED
      BY <3>1
  <2>3. k + 1 \in Int /\ k \in Int /\ 2 <= (k + 1) + 1 /\ 1 <= k + 1
    OBVIOUS
  <2>4. \A i \in 1..(k + 1) : g[i] \in Int
    OBVIOUS
  <2>5. SumFunctionOnSet(f, 2..((k + 1) + 1)) = f[(k + 1) + 1] + SumFunctionOnSet(f, 2..(k + 1))
    BY <2>2, <2>3, SumPush
  <2>6. SumFunctionOnSet(g, 1..(k + 1)) = g[k + 1] + SumFunctionOnSet(g, 1..k)
    BY <2>3, <2>4, SumPush
  <2>7. g[k + 1] = f[(k + 1) + 1]
    BY <2>3
  <2> QED
    BY <2>1, <2>5, <2>6, <2>7
<1> HIDE DEF N
<1>3. n \in N
  BY <1>1, <1>2, NatSetInduction
<1> QED
  BY <1>3 DEF N

\* A sum over the places of a sequence, in two parts.
LEMMA SumSplit ==
    ASSUME NEW n \in Nat, NEW j \in 0..n, NEW f, \A i \in 1..n : f[i] \in Int
    PROVE  SumFunctionOnSet(f, 1..n) = SumFunctionOnSet(f, 1..j) + SumFunctionOnSet(f, (j + 1)..n)
<1> DEFINE N == {k \in Nat : j + k <= n =>
                    SumFunctionOnSet(f, 1..(j + k))
                      = SumFunctionOnSet(f, 1..j) + SumFunctionOnSet(f, (j + 1)..(j + k))}
<1>i. \A a, b \in Int : a >= 1 /\ b <= n => SumFunctionOnSet(f, a..b) \in Int
  <2> SUFFICES ASSUME NEW a \in Int, NEW b \in Int, a >= 1, b <= n
               PROVE  SumFunctionOnSet(f, a..b) \in Int
    OBVIOUS
  <2>1. IsFiniteSet(a..b) /\ \A i \in a..b : f[i] \in Int /\ f[i] = f[i]
    BY FS_Interval
  <2> QED
    BY <2>1, SumSame
<1>1. 0 \in N
  <2>1. (j + 1)..(j + 0) = {} /\ j + 0 = j /\ j \in Int /\ j <= n
    OBVIOUS
  <2>2. SumFunctionOnSet(f, 1..j) \in Int
    BY <1>i, <2>1
  <2> QED
    BY <2>1, <2>2, SumOfEmpty
<1>2. ASSUME NEW k \in Nat, k \in N PROVE k + 1 \in N
  <2> DEFINE m == j + k
  <2> SUFFICES ASSUME m + 1 <= n
               PROVE  SumFunctionOnSet(f, 1..(m + 1))
                        = SumFunctionOnSet(f, 1..j) + SumFunctionOnSet(f, (j + 1)..(m + 1))
    <3>1. j + (k + 1) = m + 1
      OBVIOUS
    <3> QED
      BY <3>1
  <2>1. /\ m \in Int /\ 1 <= m + 1 /\ j + 1 <= m + 1 /\ j + 1 \in Int /\ m <= n /\ j <= n
        /\ \A i \in 1..(m + 1) : f[i] \in Int
        /\ \A i \in (j + 1)..(m + 1) : f[i] \in Int
    OBVIOUS
  <2>2. SumFunctionOnSet(f, 1..m) = SumFunctionOnSet(f, 1..j) + SumFunctionOnSet(f, (j + 1)..m)
    BY <1>2, <2>1
  <2> HIDE DEF m
  <2>3. SumFunctionOnSet(f, 1..(m + 1)) = f[m + 1] + SumFunctionOnSet(f, 1..m)
    BY <2>1, SumPush
  <2>4. SumFunctionOnSet(f, (j + 1)..(m + 1)) = f[m + 1] + SumFunctionOnSet(f, (j + 1)..m)
    BY <2>1, SumPush
  <2>5. SumFunctionOnSet(f, 1..j) \in Int /\ SumFunctionOnSet(f, (j + 1)..m) \in Int /\ f[m + 1] \in Int
    BY <1>i, <2>1
  <2> QED
    BY <2>2, <2>3, <2>4, <2>5
<1> HIDE DEF N
<1>3. n - j \in N
  BY <1>1, <1>2, NatSetInduction
<1>4. j + (n - j) = n
  OBVIOUS
<1> QED
  BY <1>3, <1>4 DEF N

(***************************************************************************)
(* Part 2: Int arithmetic.                                                 *)
(***************************************************************************)

\* Scala's integers are integers.
LEMMA ScalaIntIsInt == ScalaInt \subseteq Int
BY IntHalfAssumption DEF ScalaInt

\* An Int stands for all numbers a multiple of the range away.
LEMMA WrapOf ==
    ASSUME NEW n \in Int
    PROVE  Wrap(n) \in ScalaInt /\ \E k \in Int : n = Wrap(n) + k * (2 * IntHalf)
<1> DEFINE m == 2 * IntHalf
           q == (n + IntHalf) \div m
           r == (n + IntHalf) % m
<1>1. m \in Nat \ {0} /\ n + IntHalf \in Int /\ IntHalf \in Int
  BY IntHalfAssumption
<1>2. q \in Int /\ r \in 0..(m - 1) /\ n + IntHalf = m * q + r
  <2> DEFINE p == n + IntHalf
  <2>1. p \in Int
    BY <1>1
  <2> HIDE DEF p, m
  <2>2. p \div m \in Int /\ p % m \in 0..(m - 1) /\ p = m * (p \div m) + (p % m)
    BY <1>1, <2>1
  <2> QED
    BY <2>2 DEF p
<1>3. Wrap(n) = r - IntHalf
  BY DEF Wrap
<1> HIDE DEF q, r
<1>4. n = (r - IntHalf) + q * m
  <2> HIDE DEF m
  <2> QED
    BY <1>1, <1>2
<1>5. Wrap(n) \in ScalaInt
  BY <1>2, <1>3, IntHalfAssumption DEF ScalaInt
<1> QED
  BY <1>2, <1>3, <1>4, <1>5

\* Two Ints are not such a multiple apart.
LEMMA WrapUnique ==
    ASSUME NEW x \in ScalaInt, NEW y \in ScalaInt, NEW k \in Int, x = y + k * (2 * IntHalf)
    PROVE  x = y
<1> DEFINE m == 2 * IntHalf
<1>1. m \in Nat \ {0} /\ x \in Int /\ y \in Int /\ x - y < m /\ y - x < m
  BY IntHalfAssumption DEF ScalaInt
<1>2. x - y = k * m
  BY <1>1
<1> HIDE DEF m
<1>3. k < 1
  <2> SUFFICES ASSUME k >= 1 PROVE FALSE
    OBVIOUS
  <2>1. k * m >= m
    BY <1>1
  <2> QED
    BY <1>1, <1>2, <2>1
<1>4. k > -1
  <2> SUFFICES ASSUME k <= -1 PROVE FALSE
    OBVIOUS
  <2>1. k * m <= - m
    BY <1>1
  <2> QED
    BY <1>1, <1>2, <2>1
<1>5. k = 0
  BY <1>3, <1>4
<1>6. k * m = 0
  BY <1>1, <1>5
<1>7. x - y = 0
  BY <1>2, <1>6, Zenon
<1> QED
  BY <1>1, <1>7

\* Numbers a multiple of the range apart wrap to the same Int, and only those.
LEMMA WrapSame ==
    ASSUME NEW x \in Int, NEW y \in Int, NEW k \in Int, x = y + k * (2 * IntHalf)
    PROVE  Wrap(x) = Wrap(y)
<1> DEFINE m == 2 * IntHalf
<1>1. PICK i \in Int : x = Wrap(x) + i * m
  BY WrapOf
<1>2. PICK j \in Int : y = Wrap(y) + j * m
  BY WrapOf
<1>3. Wrap(x) \in ScalaInt /\ Wrap(y) \in ScalaInt /\ m \in Int
  BY WrapOf, IntHalfAssumption
<1>4. Wrap(x) \in Int /\ Wrap(y) \in Int
  BY <1>3, IntHalfAssumption DEF ScalaInt
<1> HIDE DEF m
<1>5. Wrap(x) = Wrap(y) + (k + j - i) * m /\ k + j - i \in Int
  <2>1. x = y + k * m
    BY DEF m
  <2> QED
    BY <1>1, <1>2, <1>3, <1>4, <2>1
<1> QED
  BY <1>3, <1>5, WrapUnique DEF m

\* What fits is not changed by wrapping.
LEMMA WrapInRange == ASSUME NEW n \in ScalaInt PROVE Wrap(n) = n
<1>1. n \in Int /\ Wrap(n) \in ScalaInt
  BY WrapOf, IntHalfAssumption DEF ScalaInt
<1>2. PICK k \in Int : n = Wrap(n) + k * (2 * IntHalf)
  BY <1>1, WrapOf
<1>3. n = Wrap(n)
  BY <1>1, <1>2, WrapUnique, Zenon
<1> QED
  BY <1>3, Zenon

\* A sum or difference may be wrapped once at the end instead of after each step.
LEMMA WrapSums ==
    ASSUME NEW x \in Int, NEW y \in Int
    PROVE  /\ Wrap(Wrap(x) + y) = Wrap(x + y)
           /\ Wrap(Wrap(x) - y) = Wrap(x - y)
           /\ Wrap(x + Wrap(y)) = Wrap(x + y)
           /\ Wrap(x - Wrap(y)) = Wrap(x - y)
<1> DEFINE m == 2 * IntHalf
<1>1. PICK i \in Int : x = Wrap(x) + i * m
  BY WrapOf
<1>2. PICK j \in Int : y = Wrap(y) + j * m
  BY WrapOf
<1>3. Wrap(x) \in Int /\ Wrap(y) \in Int /\ m \in Int
  BY WrapOf, IntHalfAssumption DEF ScalaInt
<1> HIDE DEF m
<1>4. /\ Wrap(x) + y = (x + y) + (- i) * m
      /\ Wrap(x) - y = (x - y) + (- i) * m
      /\ x + Wrap(y) = (x + y) + (- j) * m
      /\ x - Wrap(y) = (x - y) + j * m
  BY <1>1, <1>2, <1>3
<1>5. - i \in Int /\ - j \in Int
  OBVIOUS
<1> QED
  BY <1>3, <1>4, <1>5, WrapSame DEF m

(***************************************************************************)
(* Part 3: commands and the events they produce.                           *)
(***************************************************************************)

\* What a sequence holds is of its element type.
LEMMA ElementOfDomain ==
    ASSUME NEW S, NEW seq \in Seq(S), NEW i \in DOMAIN seq
    PROVE  seq[i] \in S
BY ElementOfSeq, LenProperties

\* clearTransactions looks at a decision of the account on the transaction.
LEMMA AuthedTransactionIsDecision ==
    ASSUME NEW events \in Seq(EventType), NEW item \in CommandType,
           Recorded(events, item.account, "decisioned", item.ref)
    PROVE  \E i \in DOMAIN events : /\ AuthedTransaction(events, item) = events[i]
                                    /\ events[i].account = item.account
                                    /\ events[i].type = "decisioned"
                                    /\ events[i].ref = item.ref
<1> DEFINE I == {i \in 1..Len(events) : /\ events[i].account = item.account
                                        /\ events[i].type = "decisioned"
                                        /\ events[i].ref = item.ref}
<1>1. DOMAIN events = 1..Len(events) /\ Len(events) \in Nat
  BY LenProperties
<1>2. I # {} /\ I \in SUBSET Nat
  BY <1>1 DEF Recorded
<1>3. Min(I) \in I
  BY <1>2, MinOfNats
<1>4. AuthedTransaction(events, item) = events[Min(I)]
  BY <1>2 DEF AuthedTransaction, SelectInSeq
<1> QED
  BY <1>1, <1>3, <1>4

\* What a handler stores is an event of the type its command asks for, about
\* the command's account and transaction or payment.
LEMMA ResultOfCommand ==
    ASSUME NEW events \in Seq(EventType), NEW command \in CommandType,
           command.kind # "limitUpdated", Accepts(command, events)
    PROVE  /\ ResultOf(command, events) \in EventType
           /\ ResultOf(command, events).type = TypeFor[command.kind]
           /\ ResultOf(command, events).account = command.account
           /\ ResultOf(command, events).ref = command.ref
<1>e. \A i \in DOMAIN events : events[i] \in EventType
  BY ElementOfDomain
<1> USE DEF EventType, CommandType, Event, TypeFor, EventTypes, Outcomes, OutcomesOf, Kinds
<1>1. CASE command.kind = "authorize"
  <2>1. ResultOf(command, events) = ProcessAuthorization(command, events)
    BY <1>1 DEF ResultOf
  <2>2. Decision(command, TransactionBalance(events, command.account)) \in {"approved", "declined"}
    BY DEF Decision
  <2> QED
    BY <1>1, <2>1, <2>2 DEF ProcessAuthorization
<1>2. CASE command.kind = "clear"
  <2>1. ResultOf(command, events) = ClearTransaction(command, events)
    BY <1>2 DEF ResultOf
  <2>2. Recorded(events, command.account, "decisioned", command.ref)
    BY <1>2 DEF Accepts
  <2>3. AuthedTransaction(events, command).amount \in Int
    BY <1>e, <2>2, AuthedTransactionIsDecision
  <2>4. SettlementCode(AuthedTransaction(events, command), command) \in {"CLEAN", "BAD"}
    BY DEF SettlementCode
  <2> QED
    BY <1>2, <2>1, <2>3, <2>4 DEF ClearTransaction
<1>3. CASE command.kind = "submitted"
  BY <1>3 DEF ResultOf, ApplyPayment
<1>4. CASE command.kind = "returned"
  BY <1>4 DEF ResultOf, ApplyReturnedPayment
<1> QED
  BY <1>1, <1>2, <1>3, <1>4

\* A clearing has the amount of a decision on its transaction.
LEMMA ClearingOfDecision ==
    ASSUME NEW events \in Seq(EventType), NEW item \in CommandType,
           item.kind = "clear", Accepts(item, events)
    PROVE  \E i \in DOMAIN events : /\ events[i].type = "decisioned"
                                    /\ events[i].account = item.account
                                    /\ events[i].ref = item.ref
                                    /\ events[i].amount = ResultOf(item, events).amount
<1>1. ResultOf(item, events) = ClearTransaction(item, events)
  BY DEF ResultOf
<1>2. Recorded(events, item.account, "decisioned", item.ref)
  BY DEF Accepts
<1>3. ResultOf(item, events).amount = AuthedTransaction(events, item).amount
  BY <1>1 DEF ClearTransaction, Event
<1> QED
  BY <1>2, <1>3, AuthedTransactionIsDecision

\* An appended event becomes the last, and the others stay where they are.
LEMMA AppendedEvent ==
    ASSUME NEW S, NEW seq \in Seq(S), NEW e \in S
    PROVE  /\ Append(seq, e) \in Seq(S)
           /\ Len(seq) \in Nat
           /\ DOMAIN seq = 1..Len(seq)
           /\ DOMAIN Append(seq, e) = 1..(Len(seq) + 1)
           /\ Append(seq, e)[Len(seq) + 1] = e
           /\ \A i \in 1..Len(seq) : Append(seq, e)[i] = seq[i]
<1>1. /\ Append(seq, e) \in Seq(S)
      /\ Len(Append(seq, e)) = Len(seq) + 1
      /\ \A i \in 1..Len(seq) : Append(seq, e)[i] = seq[i]
      /\ Append(seq, e)[Len(seq) + 1] = e
  BY AppendProperties
<1> QED
  BY <1>1, LenProperties

(***************************************************************************)
(* Part 4: the balance projection.                                         *)
(***************************************************************************)

BalanceType == [balance : ScalaInt, pending : ScalaInt]

\* What an event does to the balance of account a.
Applied(state, e, a) == IF e.account = a THEN ApplyEvent(state, e) ELSE state

\* The balance of an account without events.
LEMMA NoBalanceType == NoBalance \in BalanceType
<1>1. 0 \in ScalaInt
  BY IntHalfAssumption DEF ScalaInt
<1> QED
  BY <1>1 DEF NoBalance, BalanceType

\* Applying an event gives a balance.
LEMMA AppliedType ==
    ASSUME NEW state \in BalanceType, NEW e \in EventType, NEW a
    PROVE  Applied(state, e, a) \in BalanceType
<1>1. \A n \in Int : Wrap(n) \in ScalaInt
  BY WrapOf
<1>2. e.amount \in Int /\ state.balance \in Int /\ state.pending \in Int
  BY ScalaIntIsInt DEF EventType, BalanceType
<1>3. /\ state.balance + e.amount \in Int /\ state.balance - e.amount \in Int
      /\ state.pending + e.amount \in Int /\ state.pending - e.amount \in Int
  BY <1>2
<1> QED
  BY <1>1, <1>3 DEF Applied, ApplyEvent, BalanceType

\* The largest place of a sequence is its length.
LEMMA MaxOfInterval == ASSUME NEW k \in Nat, k # 0 PROVE Max(1..k) = k
BY DEF Max

\* f[k] is the balance of account a after the first k events.
RunsThrough(f, log, a) ==
    /\ f[0] = NoBalance
    /\ \A k \in 1..Len(log) : f[k] = Applied(f[k - 1], log[k], a)

\* The projection goes through the log event by event.
LEMMA BalanceSteps ==
    ASSUME NEW log \in Seq(EventType), NEW a
    PROVE  \E f : RunsThrough(f, log, a) /\ TransactionBalance(log, a) = f[Len(log)]
<1> DEFINE D == DOMAIN log
           c == [s \in SUBSET D |-> Max(s)]
           g == [p \in D \X BalanceType |-> Applied(p[2], log[p[1]], a)]
           F(h) == [s \in SUBSET D |-> IF s = {} THEN NoBalance
                                       ELSE Applied(h[s \ {Max(s)}], log[Max(s)], a)]
<1>1. D = 1..Len(log) /\ Len(log) \in Nat
  BY LenProperties
<1>2. IsFiniteSet(D)
  BY <1>1, FS_Interval
<1>3. Takes(c, D)
  <2>1. \A s \in SUBSET D : s # {} => Max(s) \in s
    BY <1>1, <1>2, MaxOfNats, SMTT(30)
  <2> QED
    BY <2>1 DEF Takes
<1>4. g \in [D \X BalanceType -> BalanceType]
  BY AppliedType, ElementOfDomain
<1>5. NoBalance \in BalanceType
  BY NoBalanceType
<1>6. \A s \in SUBSET D : c[s] = Max(s)
  OBVIOUS
<1>7. \A p \in D \X BalanceType : g[p] = Applied(p[2], log[p[1]], a)
  OBVIOUS
<1> HIDE DEF c, g, D
<1>8. PICK h : Folds(h, D, BalanceType, NoBalance, c, g)
  BY <1>2, <1>3, <1>4, <1>5, FoldExists
<1>9. \A s \in SUBSET D : s # {} => Max(s) \in D /\ h[s \ {Max(s)}] \in BalanceType
  BY <1>3, <1>6, <1>8 DEF Takes, Folds
<1>10. \A s \in SUBSET D : h[s] = IF s = {} THEN NoBalance
                                  ELSE Applied(h[s \ {Max(s)}], log[Max(s)], a)
  BY <1>6, <1>7, <1>8, <1>9, ZenonT(30) DEF Folds
<1>11. h = F(h)
  BY <1>8, <1>10 DEF Folds
<1> DEFINE it == CHOOSE h_1 : h_1 = F(h_1)
<1>12. it = F(it)
  BY <1>11
<1>13. TransactionBalance(log, a) = it[D]
  BY DEF TransactionBalance, FoldLeft, MapThenFoldSet, Applied, D
<1> HIDE DEF it
<1>14. \A s \in SUBSET D : it[s] = IF s = {} THEN NoBalance
                                   ELSE Applied(it[s \ {Max(s)}], log[Max(s)], a)
  BY <1>12
<1> DEFINE f == [k \in 0..Len(log) |-> it[1..k]]
<1>15. f[0] = NoBalance
  <2>1. 1..0 = {}
    OBVIOUS
  <2>2. it[{}] = NoBalance
    BY <1>14
  <2> QED
    BY <1>1, <2>1, <2>2
<1>16. \A k \in 1..Len(log) : f[k] = Applied(f[k - 1], log[k], a)
  <2> SUFFICES ASSUME NEW k \in 1..Len(log)
               PROVE  it[1..k] = Applied(it[1..(k - 1)], log[k], a)
    <3>1. \A k \in 1..Len(log) : k - 1 \in 0..Len(log) /\ k \in 0..Len(log)
      BY <1>1
    <3> QED
      BY <3>1
  <2>1. /\ k \in Nat /\ k # 0 /\ k \in 1..k /\ k \in 1..Len(log)
        /\ \A i \in 1..k : i \in 1..Len(log) /\ (i # k => i \in 1..(k - 1))
        /\ \A i \in 1..(k - 1) : i \in 1..k /\ i # k
    BY <1>1
  <2>3. 1..k \in SUBSET D /\ 1..k # {} /\ (1..k) \ {k} = 1..(k - 1)
    BY <1>1, <2>1, Zenon
  <2>2. Max(1..k) = k
    BY <2>1, MaxOfInterval
  <2> QED
    BY <1>14, <2>2, <2>3
<1>17. f[Len(log)] = it[D]
  BY <1>1
<1> QED
  BY <1>13, <1>15, <1>16, <1>17 DEF RunsThrough

\* Without events there is no balance.
LEMMA BalanceOfEmpty == ASSUME NEW a PROVE TransactionBalance(<< >>, a) = NoBalance
<1>1. << >> \in Seq(EventType) /\ Len(<< >>) = 0
  BY EmptySeq
<1>2. PICK f : RunsThrough(f, << >>, a) /\ TransactionBalance(<< >>, a) = f[Len(<< >>)]
  BY <1>1, BalanceSteps
<1>3. f[0] = NoBalance
  BY <1>2 DEF RunsThrough
<1> QED
  BY <1>1, <1>2, <1>3, Zenon

\* An event that is appended is applied last.
LEMMA BalanceOfAppend ==
    ASSUME NEW log \in Seq(EventType), NEW e \in EventType, NEW a
    PROVE  /\ TransactionBalance(log, a) \in BalanceType
           /\ TransactionBalance(Append(log, e), a) = Applied(TransactionBalance(log, a), e, a)
<1> DEFINE n == Len(log)
<1>1. /\ Append(log, e) \in Seq(EventType) /\ n \in Nat /\ Len(Append(log, e)) = n + 1
      /\ Append(log, e)[n + 1] = e
      /\ \A i \in 1..n : Append(log, e)[i] = log[i] /\ log[i] \in EventType
  BY AppendedEvent, AppendProperties, ElementOfDomain
<1>2. PICK f : RunsThrough(f, log, a) /\ TransactionBalance(log, a) = f[n]
  BY BalanceSteps
<1>3. PICK h : RunsThrough(h, Append(log, e), a) /\ TransactionBalance(Append(log, e), a) = h[n + 1]
  BY <1>1, BalanceSteps
<1>f. f[0] = NoBalance /\ \A k \in 1..n : f[k] = Applied(f[k - 1], log[k], a)
  BY <1>2 DEF RunsThrough
<1>h. h[0] = NoBalance /\ \A k \in 1..(n + 1) : h[k] = Applied(h[k - 1], Append(log, e)[k], a)
  BY <1>1, <1>3 DEF RunsThrough
<1> HIDE DEF n
<1> DEFINE N == {k \in Nat : k <= n => h[k] = f[k] /\ f[k] \in BalanceType}
<1>4. 0 \in N
  BY <1>f, <1>h, NoBalanceType
<1>5. ASSUME NEW k \in Nat, k \in N PROVE k + 1 \in N
  <2> SUFFICES ASSUME k + 1 <= n PROVE h[k + 1] = f[k + 1] /\ f[k + 1] \in BalanceType
    OBVIOUS
  <2>1. h[k] = f[k] /\ f[k] \in BalanceType
    BY <1>5, <1>1
  <2>2. /\ k + 1 \in 1..n /\ k + 1 \in 1..(n + 1) /\ (k + 1) - 1 = k
        /\ Append(log, e)[k + 1] = log[k + 1] /\ log[k + 1] \in EventType
    BY <1>1
  <2>3. f[k + 1] = Applied(f[k], log[k + 1], a) /\ h[k + 1] = Applied(h[k], log[k + 1], a)
    BY <1>f, <1>h, <2>2
  <2> QED
    BY <2>1, <2>2, <2>3, AppliedType
<1> HIDE DEF N
<1>6. n \in N
  BY <1>1, <1>4, <1>5, NatSetInduction
<1>7. h[n] = f[n] /\ f[n] \in BalanceType
  BY <1>1, <1>6 DEF N
<1>8. n + 1 \in 1..(n + 1) /\ (n + 1) - 1 = n
  BY <1>1
<1>9. h[n + 1] = Applied(h[n], e, a)
  BY <1>1, <1>h, <1>8
<1> QED
  BY <1>2, <1>3, <1>7, <1>9

\* The projection gives a balance.
LEMMA BalanceTyped ==
    ASSUME NEW log \in Seq(EventType), NEW a
    PROVE  TransactionBalance(log, a) \in BalanceType
<1>1. CASE log = << >>
  BY <1>1, BalanceOfEmpty, NoBalanceType
<1>2. CASE log # << >>
  <2>1. Len(log) \in Nat \ {0}
    BY <1>2, EmptySeq
  <2>2. log[1] \in EventType
    BY <2>1, ElementOfSeq
  <2> QED
    BY <2>2, BalanceOfAppend
<1> QED
  BY <1>1, <1>2

(***************************************************************************)
(* Part 5: what an account owes, as a sum over the log.                    *)
(***************************************************************************)

\* What an event adds to the balance of account a, to what is pending there,
\* and to what the account owes in all.
BalancePart(e, a) ==
    IF e.account # a THEN 0
    ELSE CASE e.outcome = "CLEAN"         -> e.amount
           [] e.type = "paymentApplied"   -> - e.amount
           [] e.type = "paymentReturned"  -> e.amount
           [] OTHER                       -> 0

PendingPart(e, a) ==
    IF e.account # a THEN 0
    ELSE CASE e.outcome = "approved" -> e.amount
           [] e.outcome = "CLEAN"    -> - e.amount
           [] OTHER                  -> 0

OwedPart(e, a) == BalancePart(e, a) + PendingPart(e, a)

BalanceSum(log, a) == SumFunctionOnSet([i \in DOMAIN log |-> BalancePart(log[i], a)], DOMAIN log)
PendingSum(log, a) == SumFunctionOnSet([i \in DOMAIN log |-> PendingPart(log[i], a)], DOMAIN log)
OwedSum(log, a)    == SumFunctionOnSet([i \in DOMAIN log |-> OwedPart(log[i], a)], DOMAIN log)

\* The parts are integers; and a clearing moves what is owed from the one to the
\* other, so that together they leave it out.
LEMMA PartsOfEvent ==
    ASSUME NEW e \in EventType, NEW a
    PROVE  /\ BalancePart(e, a) \in Int /\ PendingPart(e, a) \in Int /\ OwedPart(e, a) \in Int
           /\ OwedPart(e, a) = IF e.account # a THEN 0
                               ELSE CASE e.outcome = "approved"     -> e.amount
                                      [] e.type = "paymentApplied"  -> - e.amount
                                      [] e.type = "paymentReturned" -> e.amount
                                      [] OTHER                      -> 0
<1>1. /\ e.amount \in Int /\ e.type \in EventTypes /\ e.outcome \in OutcomesOf[e.type]
  BY DEF EventType
<1> QED
  BY <1>1 DEF BalancePart, PendingPart, OwedPart, EventTypes, OutcomesOf

\* The projection adds an event's parts to its balance and its pending amount.
LEMMA AppliedParts ==
    ASSUME NEW e \in EventType, NEW a, NEW x \in Int, NEW y \in Int
    PROVE  Applied([balance |-> Wrap(x), pending |-> Wrap(y)], e, a)
             = [balance |-> Wrap(BalancePart(e, a) + x), pending |-> Wrap(PendingPart(e, a) + y)]
<1>1. /\ e.amount \in Int /\ e.type \in EventTypes /\ e.outcome \in OutcomesOf[e.type]
  BY DEF EventType
<1> DEFINE n == e.amount
<1>2. /\ Wrap(Wrap(x) + n) = Wrap(n + x) /\ Wrap(Wrap(x) - n) = Wrap((- n) + x)
      /\ Wrap(Wrap(y) + n) = Wrap(n + y) /\ Wrap(Wrap(y) - n) = Wrap((- n) + y)
  <2>1. n + x = x + n /\ (- n) + x = x - n /\ n + y = y + n /\ (- n) + y = y - n
    BY <1>1
  <2> HIDE DEF n
  <2> QED
    BY <1>1, <2>1, WrapSums DEF n
<1>3. 0 + x = x /\ 0 + y = y
  OBVIOUS
<1>4. CASE e.account # a
  BY <1>3, <1>4 DEF Applied, BalancePart, PendingPart
<1>5. CASE e.account = a /\ e.type = "decisioned" /\ e.outcome = "approved"
  BY <1>2, <1>3, <1>5 DEF Applied, ApplyEvent, BalancePart, PendingPart
<1>6. CASE e.account = a /\ e.type = "decisioned" /\ e.outcome = "declined"
  BY <1>3, <1>6 DEF Applied, ApplyEvent, BalancePart, PendingPart
<1>7. CASE e.account = a /\ e.type = "cleared" /\ e.outcome = "CLEAN"
  BY <1>2, <1>3, <1>7 DEF Applied, ApplyEvent, BalancePart, PendingPart
<1>8. CASE e.account = a /\ e.type = "cleared" /\ e.outcome = "BAD"
  BY <1>3, <1>8 DEF Applied, ApplyEvent, BalancePart, PendingPart
<1>9. CASE e.account = a /\ e.type = "paymentApplied" /\ e.outcome = "none"
  BY <1>2, <1>3, <1>9 DEF Applied, ApplyEvent, BalancePart, PendingPart
<1>10. CASE e.account = a /\ e.type = "paymentReturned" /\ e.outcome = "none"
  BY <1>2, <1>3, <1>10 DEF Applied, ApplyEvent, BalancePart, PendingPart
<1> QED
  BY <1>1, <1>4, <1>5, <1>6, <1>7, <1>8, <1>9, <1>10 DEF EventTypes, OutcomesOf

\* Sums up to every place of a log.
LEMMA SumUpTo ==
    ASSUME NEW n \in Nat, NEW f, \A i \in 1..n : f[i] \in Int
    PROVE  /\ SumFunctionOnSet(f, 1..0) = 0
           /\ \A k \in 0..n : SumFunctionOnSet(f, 1..k) \in Int
           /\ \A k \in Nat : k + 1 <= n =>
                 SumFunctionOnSet(f, 1..(k + 1)) = f[k + 1] + SumFunctionOnSet(f, 1..k)
<1>1. 1..0 = {}
  OBVIOUS
<1>2. ASSUME NEW k \in 0..n PROVE SumFunctionOnSet(f, 1..k) \in Int
  <2>1. IsFiniteSet(1..k) /\ \A i \in 1..k : f[i] \in Int /\ f[i] = f[i]
    BY FS_Interval
  <2> QED
    BY <2>1, SumSame
<1>3. ASSUME NEW k \in Nat, k + 1 <= n
      PROVE  SumFunctionOnSet(f, 1..(k + 1)) = f[k + 1] + SumFunctionOnSet(f, 1..k)
  <2>1. 1 \in Int /\ k \in Int /\ 1 <= k + 1 /\ \A i \in 1..(k + 1) : f[i] \in Int
    BY <1>3
  <2> QED
    BY <2>1, SumPush
<1> QED
  BY <1>1, <1>2, <1>3, SumOfEmpty

\* Term by term, and altogether.
LEMMA SumOfTwo ==
    ASSUME NEW n \in Nat, NEW f, NEW g, NEW h,
           \A i \in 1..n : f[i] \in Int /\ g[i] \in Int /\ h[i] = f[i] + g[i]
    PROVE  SumFunctionOnSet(h, 1..n) = SumFunctionOnSet(f, 1..n) + SumFunctionOnSet(g, 1..n)
<1> DEFINE F(k) == SumFunctionOnSet(f, 1..k)
           G(k) == SumFunctionOnSet(g, 1..k)
           H(k) == SumFunctionOnSet(h, 1..k)
           N == {k \in Nat : k <= n => H(k) = F(k) + G(k)}
<1>0. \A i \in 1..n : h[i] \in Int
  OBVIOUS
<1>1. /\ F(0) = 0 /\ \A k \in 0..n : F(k) \in Int
      /\ \A k \in Nat : k + 1 <= n => F(k + 1) = f[k + 1] + F(k)
  BY SumUpTo
<1>2. /\ G(0) = 0 /\ \A k \in 0..n : G(k) \in Int
      /\ \A k \in Nat : k + 1 <= n => G(k + 1) = g[k + 1] + G(k)
  BY SumUpTo
<1>3. /\ H(0) = 0 /\ \A k \in Nat : k + 1 <= n => H(k + 1) = h[k + 1] + H(k)
  BY <1>0, SumUpTo
<1> HIDE DEF F, G, H
<1>4. 0 \in N
  BY <1>1, <1>2, <1>3
<1>5. ASSUME NEW k \in Nat, k \in N PROVE k + 1 \in N
  <2> SUFFICES ASSUME k + 1 <= n PROVE H(k + 1) = F(k + 1) + G(k + 1)
    OBVIOUS
  <2>1. H(k) = F(k) + G(k) /\ F(k) \in Int /\ G(k) \in Int
    BY <1>1, <1>2, <1>5
  <2>2. k + 1 \in 1..n
    OBVIOUS
  <2> QED
    BY <1>1, <1>2, <1>3, <2>1, <2>2
<1> HIDE DEF N
<1>6. n \in N
  BY <1>4, <1>5, NatSetInduction
<1> QED
  BY <1>6 DEF N, F, G, H

\* A sum of natural numbers.
LEMMA SumOfNats ==
    ASSUME NEW a \in Int, NEW b \in Int, NEW f, \A i \in a..b : f[i] \in Nat
    PROVE  SumFunctionOnSet(f, a..b) \in Nat
<1> DEFINE S == a..b
           P == {t \in SUBSET S : SumFunctionOnSet(f, t) \in Nat}
<1>1. {} \in P
  BY SumOfEmpty
<1>2. IsFiniteSet(S)
  BY FS_Interval
<1>3. \A i \in S : f[i] \in Nat
  OBVIOUS
<1> HIDE DEF S
<1>4. ASSUME NEW t \in SUBSET S, NEW x \in t, t \ {x} \in P PROVE t \in P
  <2>1. IsFiniteSet(t \ {x}) /\ x \notin t \ {x} /\ (t \ {x}) \cup {x} = t
    BY <1>2, FS_Subset
  <2>2. \A y \in (t \ {x}) \cup {x} : f[y] \in Int
    BY <1>3, <2>1
  <2>3. SumFunctionOnSet(f, t) = f[x] + SumFunctionOnSet(f, t \ {x})
    BY <2>1, <2>2, SumAdd
  <2>4. f[x] \in Nat /\ SumFunctionOnSet(f, t \ {x}) \in Nat
    BY <1>3, <1>4
  <2> QED
    BY <2>3, <2>4
<1> HIDE DEF P
<1>5. Inductive(P, S)
  BY <1>1, <1>4 DEF Inductive
<1>6. S \in P
  BY <1>2, <1>5, SubsetInduction
<1> QED
  BY <1>6 DEF P, S

\* The projection is the sum of the parts, wrapped.
LEMMA ProjectionIsSums ==
    ASSUME NEW log \in Seq(EventType), NEW a
    PROVE  /\ BalanceSum(log, a) \in Int /\ PendingSum(log, a) \in Int
           /\ TransactionBalance(log, a) = [balance |-> Wrap(BalanceSum(log, a)),
                                            pending |-> Wrap(PendingSum(log, a))]
<1> DEFINE n == Len(log)
           b == [i \in DOMAIN log |-> BalancePart(log[i], a)]
           p == [i \in DOMAIN log |-> PendingPart(log[i], a)]
           B(k) == SumFunctionOnSet(b, 1..k)
           P(k) == SumFunctionOnSet(p, 1..k)
<1>1. n \in Nat /\ DOMAIN log = 1..n /\ \A i \in 1..n : log[i] \in EventType
  BY LenProperties, ElementOfDomain
<1>2. \A i \in 1..n : /\ b[i] = BalancePart(log[i], a) /\ b[i] \in Int
                      /\ p[i] = PendingPart(log[i], a) /\ p[i] \in Int
  BY <1>1, PartsOfEvent
<1>3. BalanceSum(log, a) = B(n) /\ PendingSum(log, a) = P(n)
  BY <1>1 DEF BalanceSum, PendingSum
<1> HIDE DEF n, b, p
<1>4. /\ B(0) = 0 /\ \A k \in 0..n : B(k) \in Int
      /\ \A k \in Nat : k + 1 <= n => B(k + 1) = b[k + 1] + B(k)
  BY <1>1, <1>2, SumUpTo
<1>5. /\ P(0) = 0 /\ \A k \in 0..n : P(k) \in Int
      /\ \A k \in Nat : k + 1 <= n => P(k + 1) = p[k + 1] + P(k)
  BY <1>1, <1>2, SumUpTo
<1>6. PICK f : RunsThrough(f, log, a) /\ TransactionBalance(log, a) = f[n]
  BY BalanceSteps DEF n
<1>7. f[0] = NoBalance /\ \A k \in 1..n : f[k] = Applied(f[k - 1], log[k], a)
  BY <1>6 DEF RunsThrough, n
<1> HIDE DEF B, P
<1> DEFINE N == {k \in Nat : k <= n => f[k] = [balance |-> Wrap(B(k)), pending |-> Wrap(P(k))]}
<1>8. 0 \in N
  <2>1. 0 \in ScalaInt
    BY IntHalfAssumption DEF ScalaInt
  <2>2. Wrap(0) = 0
    BY <2>1, WrapInRange
  <2> QED
    BY <1>4, <1>5, <1>7, <2>2 DEF NoBalance
<1>9. ASSUME NEW k \in Nat, k \in N PROVE k + 1 \in N
  <2> SUFFICES ASSUME k + 1 <= n
               PROVE  f[k + 1] = [balance |-> Wrap(B(k + 1)), pending |-> Wrap(P(k + 1))]
    OBVIOUS
  <2>1. k + 1 \in 1..n /\ (k + 1) - 1 = k /\ k \in 0..n /\ k <= n
    BY <1>1
  <2>2. f[k + 1] = Applied(f[k], log[k + 1], a) /\ log[k + 1] \in EventType
    BY <1>1, <1>7, <2>1
  <2>3. f[k] = [balance |-> Wrap(B(k)), pending |-> Wrap(P(k))] /\ B(k) \in Int /\ P(k) \in Int
    BY <1>4, <1>5, <1>9, <2>1
  <2>4. f[k + 1] = [balance |-> Wrap(BalancePart(log[k + 1], a) + B(k)),
                    pending |-> Wrap(PendingPart(log[k + 1], a) + P(k))]
    BY <2>2, <2>3, AppliedParts
  <2>5. B(k + 1) = BalancePart(log[k + 1], a) + B(k) /\ P(k + 1) = PendingPart(log[k + 1], a) + P(k)
    BY <1>2, <1>4, <1>5, <2>1
  <2> QED
    BY <2>4, <2>5
<1> HIDE DEF N
<1>10. n \in N
  BY <1>1, <1>8, <1>9, NatSetInduction
<1>11. n \in 0..n /\ n <= n
  BY <1>1
<1> QED
  BY <1>3, <1>4, <1>5, <1>6, <1>10, <1>11 DEF N

\* As long as neither of the two sums has left the range of Int, they add up.
LEMMA OwedIsSum ==
    ASSUME NEW log \in Seq(EventType), NEW a,
           BalanceSum(log, a) \in ScalaInt, PendingSum(log, a) \in ScalaInt
    PROVE  TransactionBalance(log, a).balance + TransactionBalance(log, a).pending = OwedSum(log, a)
<1>1. TransactionBalance(log, a) = [balance |-> BalanceSum(log, a), pending |-> PendingSum(log, a)]
  BY ProjectionIsSums, WrapInRange
<1> DEFINE n == Len(log)
           b == [i \in DOMAIN log |-> BalancePart(log[i], a)]
           p == [i \in DOMAIN log |-> PendingPart(log[i], a)]
           o == [i \in DOMAIN log |-> OwedPart(log[i], a)]
<1>2. n \in Nat /\ DOMAIN log = 1..n /\ \A i \in 1..n : log[i] \in EventType
  BY LenProperties, ElementOfDomain
<1>3. \A i \in 1..n : b[i] \in Int /\ p[i] \in Int /\ o[i] = b[i] + p[i]
  BY <1>2, PartsOfEvent DEF OwedPart
<1>4. /\ BalanceSum(log, a) = SumFunctionOnSet(b, 1..n) /\ PendingSum(log, a) = SumFunctionOnSet(p, 1..n)
      /\ OwedSum(log, a) = SumFunctionOnSet(o, 1..n)
  BY <1>2 DEF BalanceSum, PendingSum, OwedSum
<1> HIDE DEF n, b, p, o
<1>5. SumFunctionOnSet(o, 1..n) = SumFunctionOnSet(b, 1..n) + SumFunctionOnSet(p, 1..n)
  BY <1>2, <1>3, SumOfTwo
<1> QED
  BY <1>1, <1>4, <1>5

\* When a log is cut off after k events and another is appended, the account
\* owes no more than what the other adds, if no event reduced what it owed.
LEMMA OwedOfCut ==
    ASSUME NEW log \in Seq(EventType), NEW new \in Seq(EventType), NEW a, NEW k \in 0..Len(log),
           Len(new) = k + 1, \A i \in 1..k : new[i] = log[i],
           \A i \in 1..Len(log) : OwedPart(log[i], a) \in Nat
    PROVE  /\ OwedSum(log, a) \in Nat /\ OwedSum(new, a) \in Int
           /\ OwedSum(new, a) <= OwedSum(log, a) + OwedPart(new[k + 1], a)
<1> DEFINE n == Len(log)
           o == [i \in DOMAIN log |-> OwedPart(log[i], a)]
           w == [i \in DOMAIN new |-> OwedPart(new[i], a)]
<1>1. n \in Nat /\ k \in 0..n /\ DOMAIN log = 1..n /\ DOMAIN new = 1..(k + 1)
  BY LenProperties
<1>2. \A i \in 1..n : o[i] \in Nat
  BY <1>1
<1>3. /\ \A i \in 1..(k + 1) : w[i] = OwedPart(new[i], a) /\ w[i] \in Int
      /\ \A i \in 1..k : w[i] = o[i]
  <2>1. \A i \in 1..(k + 1) : new[i] \in EventType
    BY <1>1, ElementOfDomain
  <2>2. \A i \in 1..k : i \in 1..n /\ i \in 1..(k + 1)
    BY <1>1
  <2> QED
    BY <1>1, <2>1, <2>2, PartsOfEvent
<1>4. OwedSum(log, a) = SumFunctionOnSet(o, 1..n) /\ OwedSum(new, a) = SumFunctionOnSet(w, 1..(k + 1))
  BY <1>1 DEF OwedSum
<1> HIDE DEF n, o, w
<1>5. /\ SumFunctionOnSet(o, 1..n) = SumFunctionOnSet(o, 1..k) + SumFunctionOnSet(o, (k + 1)..n)
      /\ SumFunctionOnSet(o, 1..n) \in Nat /\ SumFunctionOnSet(o, 1..k) \in Nat
      /\ SumFunctionOnSet(o, (k + 1)..n) \in Nat
  <2>1. /\ \A i \in 1..n : o[i] \in Int
        /\ \A i \in 1..k : o[i] \in Nat
        /\ 1 \in Int /\ k \in Int /\ k + 1 \in Int /\ n \in Int
    BY <1>1, <1>2
  <2>2. \A i \in (k + 1)..n : o[i] \in Nat
    BY <1>1, <1>2
  <2> QED
    BY <1>1, <1>2, <2>1, <2>2, SumSplit, SumOfNats
<1>6. SumFunctionOnSet(w, 1..k) = SumFunctionOnSet(o, 1..k)
  <2>1. \A i \in 1..k : o[i] \in Int /\ w[i] = o[i]
    BY <1>1, <1>2, <1>3
  <2>2. IsFiniteSet(1..k)
    BY <1>1, FS_Interval
  <2> QED
    BY <2>1, <2>2, SumSame
<1>7. SumFunctionOnSet(w, 1..(k + 1)) = w[k + 1] + SumFunctionOnSet(w, 1..k)
  <2>1. 1 \in Int /\ k \in Int /\ 1 <= k + 1
    BY <1>1
  <2> QED
    BY <1>3, <2>1, SumPush
<1>8. w[k + 1] = OwedPart(new[k + 1], a) /\ w[k + 1] \in Int
  BY <1>1, <1>3
<1> QED
  BY <1>4, <1>5, <1>6, <1>7, <1>8
=============================================================================
