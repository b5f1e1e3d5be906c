---------------------------- MODULE Sums_proofs ----------------------------
(***************************************************************************)
(* What SumFunction of the library returns, for a function from a finite   *)
(* set to integers: how a sum changes with one of its terms, with all of   *)
(* them, and with the set.  The proofs about money and about tax rest on   *)
(* these lemmas.                                                           *)
(***************************************************************************)
EXTENDS Integers, FiniteSets, Functions, FiniteSetTheorems, WellFoundedInduction, TLAPS

\* Induction on the natural numbers, for a set of them.
LEMMA NatSetInduction ==
    ASSUME NEW G, 0 \in G, \A n \in Nat : n \in G => n + 1 \in G
    PROVE  \A n \in Nat : n \in G
<1> SUFFICES ASSUME NEW k \in Nat, k \notin G PROVE FALSE
  OBVIOUS
<1> DEFINE bad == Nat \ G
<1>1. bad \subseteq Nat /\ bad # {}
  OBVIOUS
<1> HIDE DEF bad
<1>2. \E m \in bad : \A n \in bad : ~ (<<n, m>> \in OpToRel(<, Nat))
  BY <1>1, WFMin, NatLessThanWellFounded
<1>3. PICK m \in bad : \A n \in bad : ~ (n < m)
  BY <1>1, <1>2 DEF OpToRel
<1>4. m \in Nat /\ m \notin G /\ m # 0
  BY <1>1, <1>3 DEF bad
<1>5. m - 1 \in Nat /\ m - 1 < m /\ (m - 1) + 1 = m
  BY <1>4
<1>6. m - 1 \in G
  BY <1>3, <1>5 DEF bad
<1> QED
  BY <1>4, <1>5, <1>6

\* The element a sum over T takes first, and what is left of T then.
First(T) == CHOOSE x \in T : TRUE
Rest(T) == T \ {First(T)}

\* The subsets of S with at most n elements.
Small(S, n) == {T \in SUBSET S : Cardinality(T) <= n}

\* f adds up w over the sets of D.
Adds(f, w, D) ==
    /\ f \in [D -> Int]
    /\ \A T \in D : f[T] = IF T = {} THEN 0 ELSE w[First(T)] + f[Rest(T)]

LEMMA RestSmaller ==
    ASSUME NEW S, IsFiniteSet(S), NEW T \in SUBSET S, T # {}
    PROVE  /\ First(T) \in T /\ First(T) \in S /\ First(T) \notin Rest(T)
           /\ Rest(T) \in SUBSET S
           /\ Cardinality(T) \in Nat /\ Cardinality(Rest(T)) \in Nat
           /\ Cardinality(Rest(T)) = Cardinality(T) - 1
<1>1. First(T) \in T
  BY DEF First
<1>2. IsFiniteSet(T)
  BY FS_Subset
<1>3. Cardinality(T \ {First(T)}) = Cardinality(T) - 1 /\ IsFiniteSet(T \ {First(T)})
  BY <1>1, <1>2, FS_RemoveElement
<1>4. Cardinality(T) \in Nat /\ Cardinality(Rest(T)) \in Nat
  BY <1>2, <1>3, FS_CardinalityType DEF Rest
<1> QED
  BY <1>1, <1>3, <1>4 DEF Rest

\* Induction over the subsets of a finite set, for a set of them.
LEMMA SubsetInduction ==
    ASSUME NEW S, IsFiniteSet(S), NEW G, {} \in G,
           \A T \in SUBSET S : T # {} /\ Rest(T) \in G => T \in G
    PROVE  \A T \in SUBSET S : T \in G
<1> DEFINE H == {n \in Nat : \A T \in SUBSET S : Cardinality(T) = n => T \in G}
<1>1. 0 \in H
  <2>1. ASSUME NEW T \in SUBSET S, Cardinality(T) = 0 PROVE T = {}
    BY <2>1, FS_Subset, FS_EmptySet
  <2> QED BY <2>1
<1>2. ASSUME NEW n \in Nat, n \in H PROVE n + 1 \in H
  <2>1. ASSUME NEW T \in SUBSET S, Cardinality(T) = n + 1 PROVE T \in G
    <3>1. CASE T = {}
      BY <3>1
    <3>2. CASE T # {}
      <4>1. Rest(T) \in SUBSET S /\ Cardinality(Rest(T)) = n
        BY <2>1, <3>2, RestSmaller
      <4> QED BY <1>2, <3>2, <4>1
    <3> QED BY <3>1, <3>2
  <2> QED BY <2>1
<1> HIDE DEF H
<1>3. \A n \in Nat : n \in H
  BY <1>1, <1>2, NatSetInduction
<1>4. ASSUME NEW T \in SUBSET S PROVE T \in G
  <2>1. Cardinality(T) \in Nat
    BY FS_Subset, FS_CardinalityType
  <2> QED BY <1>3, <2>1 DEF H
<1> QED BY <1>4

\* There is a function that adds up w over the subsets of S ...
LEMMA AddsExists ==
    ASSUME NEW S, IsFiniteSet(S), NEW w \in [S -> Int]
    PROVE  \E f : Adds(f, w, SUBSET S)
<1> DEFINE G == {n \in Nat : \E f : Adds(f, w, Small(S, n))}
<1>1. 0 \in G
  <2>1. \A T \in Small(S, 0) : T = {}
    BY FS_Subset, FS_EmptySet, FS_CardinalityType DEF Small
  <2> DEFINE f == [T \in Small(S, 0) |-> 0]
  <2>2. Adds(f, w, Small(S, 0))
    BY <2>1 DEF Adds
  <2> QED BY <2>2
<1>2. ASSUME NEW n \in Nat, n \in G PROVE n + 1 \in G
  <2>1. PICK f : Adds(f, w, Small(S, n))
    BY <1>2
  <2> DEFINE E(T) == IF T = {} THEN 0 ELSE w[First(T)] + f[Rest(T)]
             g == [T \in Small(S, n + 1) |-> E(T)]
  <2>2. ASSUME NEW T \in Small(S, n + 1), T # {}
        PROVE  Rest(T) \in Small(S, n) /\ Rest(T) \in Small(S, n + 1) /\ First(T) \in S
    BY <2>2, RestSmaller DEF Small
  <2>3. \A T \in Small(S, n + 1) : g[T] = E(T) /\ E(T) \in Int
    BY <2>1, <2>2 DEF Adds
  <2>4. \A T \in Small(S, n) : T \in Small(S, n + 1) => f[T] = E(T)
    BY <2>1 DEF Adds
  <2> HIDE DEF g
  <2>5. ASSUME NEW T \in Small(S, n + 1), T # {} PROVE g[T] = w[First(T)] + g[Rest(T)]
    <3>1. f[Rest(T)] = g[Rest(T)]
      BY <2>2, <2>3, <2>4, <2>5
    <3> QED BY <2>3, <2>5, <3>1
  <2>6. ASSUME NEW T \in Small(S, n + 1), T = {} PROVE g[T] = 0
    BY <2>3, <2>6
  <2>7. g \in [Small(S, n + 1) -> Int]
    BY <2>3 DEF g
  <2>8. Adds(g, w, Small(S, n + 1))
    BY <2>5, <2>6, <2>7 DEF Adds
  <2> QED BY <2>8
<1> HIDE DEF G
<1>3. \A n \in Nat : n \in G
  BY <1>1, <1>2, NatSetInduction
<1>4. Cardinality(S) \in Nat
  BY FS_CardinalityType
<1>5. Small(S, Cardinality(S)) = SUBSET S
  BY FS_Subset DEF Small
<1> QED
  BY <1>3, <1>4, <1>5 DEF G

\* ... and the folds of the library are such a function.
LEMMA SumAdds ==
    ASSUME NEW S, IsFiniteSet(S), NEW w \in [S -> Int]
    PROVE  \E f : Adds(f, w, SUBSET S) /\ SumFunction(w) = f[S]
<1> DEFINE it == CHOOSE it : it = [s \in SUBSET S |->
                     IF s = {} THEN 0
                     ELSE w[CHOOSE x \in s : TRUE] + it[s \ {CHOOSE x \in s : TRUE}]]
<1>1. SumFunction(w) = it[S]
  BY DEF SumFunction, SumFunctionOnSet, FoldFunctionOnSet, MapThenFoldSet
<1>2. PICK f : Adds(f, w, SUBSET S)
  BY AddsExists
<1>3. f = [s \in SUBSET S |-> IF s = {} THEN 0 
                     ELSE w[CHOOSE x \in s : TRUE] + f[s \ {CHOOSE x \in s : TRUE}]]
  BY <1>2 DEF Adds, First, Rest
<1>4. it = [s \in SUBSET S |->
                     IF s = {} THEN 0
                     ELSE w[CHOOSE x \in s : TRUE] + it[s \ {CHOOSE x \in s : TRUE}]]
  BY <1>3
<1> HIDE DEF it
<1>5. it \in [SUBSET S -> Int] => Adds(it, w, SUBSET S)
  BY <1>4 DEF Adds, First, Rest
<1>6. DOMAIN it = SUBSET S
  BY <1>4
<1>7. \A T \in SUBSET S : it[T] = IF T = {} THEN 0 ELSE w[First(T)] + it[Rest(T)]
  BY <1>4 DEF First, Rest
<1>8. \A T \in SUBSET S : it[T] = f[T]
  <2> DEFINE G == {T \in SUBSET S : it[T] = f[T]}
  <2>1. {} \in G
    BY <1>2, <1>7 DEF Adds
  <2>2. ASSUME NEW T \in SUBSET S, T # {}, Rest(T) \in G PROVE T \in G
    BY <1>2, <1>7, <2>2 DEF Adds
  <2> HIDE DEF G
  <2>3. \A T \in SUBSET S : T \in G
    BY <2>1, <2>2, SubsetInduction
  <2> QED BY <2>3 DEF G
<1> QED
  BY <1>1, <1>2, <1>8

\* A sum is an integer.
LEMMA SumType ==
    ASSUME NEW S, IsFiniteSet(S), NEW w \in [S -> Int]
    PROVE  SumFunction(w) \in Int
<1>1. PICK f : Adds(f, w, SUBSET S) /\ SumFunction(w) = f[S]
  BY SumAdds
<1>2. f \in [SUBSET S -> Int]
  BY <1>1 DEF Adds
<1> QED
  BY <1>1, <1>2

\* A sum with one term changed.
LEMMA SumChange ==
    ASSUME NEW S, IsFiniteSet(S), NEW w \in [S -> Int], NEW v \in [S -> Int],
           NEW p \in S, \A x \in S : x # p => v[x] = w[x]
    PROVE  SumFunction(v) = SumFunction(w) + (v[p] - w[p])
<1>1. PICK f : Adds(f, w, SUBSET S) /\ SumFunction(w) = f[S]
  BY SumAdds
<1>2. PICK g : Adds(g, v, SUBSET S) /\ SumFunction(v) = g[S]
  BY SumAdds
<1> DEFINE G == {T \in SUBSET S : g[T] = f[T] + IF p \in T THEN v[p] - w[p] ELSE 0}
<1>3. {} \in G
  <2>1. {} \in SUBSET S
    OBVIOUS
  <2>2. f[{}] = 0 /\ g[{}] = 0
    BY <1>1, <1>2, <2>1 DEF Adds
  <2> QED BY <2>1, <2>2
<1>4. ASSUME NEW T \in SUBSET S, T # {}, Rest(T) \in G PROVE T \in G
  <2>1. /\ First(T) \in S /\ First(T) \in T /\ Rest(T) \in SUBSET S
        /\ First(T) \notin Rest(T)
    BY <1>4, RestSmaller
  <2>2. /\ f[T] = w[First(T)] + f[Rest(T)] /\ g[T] = v[First(T)] + g[Rest(T)]
        /\ f[Rest(T)] \in Int /\ w[First(T)] \in Int /\ v[First(T)] \in Int
        /\ w[p] \in Int /\ v[p] \in Int
    BY <1>1, <1>2, <1>4, <2>1 DEF Adds
  <2>3. g[Rest(T)] = f[Rest(T)] + IF p \in Rest(T) THEN v[p] - w[p] ELSE 0
    BY <1>4
  <2>4. CASE First(T) = p
    <3>1. p \in T /\ p \notin Rest(T)
      BY <2>1, <2>4
    <3> QED BY <2>2, <2>3, <2>4, <3>1
  <2>5. CASE First(T) # p
    <3>1. (p \in T) <=> (p \in Rest(T))
      BY <2>5 DEF Rest
    <3>2. v[First(T)] = w[First(T)]
      BY <2>1, <2>5
    <3> QED BY <2>2, <2>3, <3>1, <3>2
  <2> QED BY <2>4, <2>5
<1> HIDE DEF G
<1>5. \A T \in SUBSET S : T \in G
  BY <1>3, <1>4, SubsetInduction
<1> QED
  BY <1>1, <1>2, <1>5 DEF G

\* A sum of terms that are no greater is no greater.
LEMMA SumMonotone ==
    ASSUME NEW S, IsFiniteSet(S), NEW w \in [S -> Int], NEW v \in [S -> Int],
           \A x \in S : w[x] <= v[x]
    PROVE  SumFunction(w) <= SumFunction(v)
<1>1. PICK f : Adds(f, w, SUBSET S) /\ SumFunction(w) = f[S]
  BY SumAdds
<1>2. PICK g : Adds(g, v, SUBSET S) /\ SumFunction(v) = g[S]
  BY SumAdds
<1> DEFINE G == {T \in SUBSET S : f[T] <= g[T]}
<1>3. {} \in G
  <2>1. {} \in SUBSET S
    OBVIOUS
  <2>2. f[{}] = 0 /\ g[{}] = 0
    BY <1>1, <1>2, <2>1 DEF Adds
  <2> QED BY <2>1, <2>2
<1>4. ASSUME NEW T \in SUBSET S, T # {}, Rest(T) \in G PROVE T \in G
  <2>1. First(T) \in S /\ Rest(T) \in SUBSET S
    BY <1>4, RestSmaller
  <2>2. /\ f[T] = w[First(T)] + f[Rest(T)] /\ g[T] = v[First(T)] + g[Rest(T)]
        /\ f[Rest(T)] \in Int /\ g[Rest(T)] \in Int
        /\ w[First(T)] \in Int /\ v[First(T)] \in Int
    BY <1>1, <1>2, <1>4, <2>1 DEF Adds
  <2>3. f[Rest(T)] <= g[Rest(T)] /\ w[First(T)] <= v[First(T)]
    BY <1>4, <2>1
  <2> QED BY <2>2, <2>3
<1> HIDE DEF G
<1>5. \A T \in SUBSET S : T \in G
  BY <1>3, <1>4, SubsetInduction
<1> QED
  BY <1>1, <1>2, <1>5 DEF G

\* A sum of zeros.
LEMMA SumZero ==
    ASSUME NEW S, IsFiniteSet(S), NEW w \in [S -> Int], \A x \in S : w[x] = 0
    PROVE  SumFunction(w) = 0
<1>1. PICK f : Adds(f, w, SUBSET S) /\ SumFunction(w) = f[S]
  BY SumAdds
<1> DEFINE G == {T \in SUBSET S : f[T] = 0}
<1>2. {} \in G
  BY <1>1 DEF Adds
<1>3. ASSUME NEW T \in SUBSET S, T # {}, Rest(T) \in G PROVE T \in G
  <2>1. First(T) \in S
    BY <1>3, RestSmaller
  <2> QED BY <1>1, <1>3, <2>1 DEF Adds
<1> HIDE DEF G
<1>4. \A T \in SUBSET S : T \in G
  BY <1>2, <1>3, SubsetInduction
<1> QED
  BY <1>1, <1>4 DEF G

\* A sum may take any of its terms first.
Splits(f, w, T, x) == f[T] = w[x] + f[T \ {x}]

LEMMA AnyFirst ==
    ASSUME NEW S, IsFiniteSet(S), NEW w \in [S -> Int], NEW f, Adds(f, w, SUBSET S)
    PROVE  \A T \in SUBSET S : \A x \in T : Splits(f, w, T, x)
<1> DEFINE H == {n \in Nat : \A T \in SUBSET S : Cardinality(T) = n =>
                                \A x \in T : Splits(f, w, T, x)}
<1>0. ASSUME NEW T \in SUBSET S, NEW x \in T
      PROVE  /\ T \ {x} \in SUBSET S /\ IsFiniteSet(T)
             /\ Cardinality(T) \in Nat /\ Cardinality(T \ {x}) = Cardinality(T) - 1
  BY FS_Subset, FS_RemoveElement, FS_CardinalityType
<1>1. 0 \in H
  <2>1. ASSUME NEW T \in SUBSET S, Cardinality(T) = 0 PROVE T = {}
    BY <2>1, FS_Subset, FS_EmptySet
  <2> QED BY <2>1
<1>2. ASSUME NEW n \in Nat, n \in H PROVE n + 1 \in H
  <2>1. ASSUME NEW T \in SUBSET S, Cardinality(T) = n + 1, NEW x \in T
        PROVE  Splits(f, w, T, x)
    <3> DEFINE a == First(T)
    <3>1. a \in T /\ f[T] = w[a] + f[T \ {a}]
      BY RestSmaller DEF Adds, Rest
    <3> HIDE DEF a
    <3>2. CASE x = a
      BY <3>1, <3>2 DEF Splits
    <3>3. CASE x # a
      <4>1. /\ T \ {a} \in SUBSET S /\ Cardinality(T \ {a}) = n /\ x \in T \ {a}
            /\ T \ {x} \in SUBSET S /\ Cardinality(T \ {x}) = n /\ a \in T \ {x}
        BY <1>0, <2>1, <3>1, <3>3
      <4>2. /\ f[T \ {a}] = w[x] + f[(T \ {a}) \ {x}]
            /\ f[T \ {x}] = w[a] + f[(T \ {x}) \ {a}]
        BY <1>2, <4>1 DEF Splits
      <4>3. (T \ {a}) \ {x} = (T \ {x}) \ {a}
        OBVIOUS
      <4>4. /\ w[a] \in Int /\ w[x] \in Int
            /\ (T \ {x}) \ {a} \in SUBSET S
        BY <3>1
      <4>5. f[(T \ {x}) \ {a}] \in Int
        BY <4>4 DEF Adds
      <4>6. f[T] = w[a] + (w[x] + f[(T \ {x}) \ {a}])
        BY <3>1, <4>2, <4>3
      <4>7. f[T \ {x}] = w[a] + f[(T \ {x}) \ {a}]
        BY <4>2
      <4> QED BY <4>4, <4>5, <4>6, <4>7 DEF Splits
    <3> QED BY <3>2, <3>3
  <2> QED BY <2>1
<1> HIDE DEF H
<1>3. \A n \in Nat : n \in H
  BY <1>1, <1>2, NatSetInduction
<1> QED
  BY <1>0, <1>3 DEF H

\* The sum of the terms of some of the arguments, by a function that adds up them all.
Agrees(v, w, T) == \A x \in T : v[x] = w[x]

LEMMA SumOfSome ==
    ASSUME NEW S, IsFiniteSet(S), NEW w \in [S -> Int], NEW f, Adds(f, w, SUBSET S),
           NEW T \in SUBSET S, NEW v \in [T -> Int], Agrees(v, w, T)
    PROVE  SumFunction(v) = f[T]
<1>1. IsFiniteSet(T)
  BY FS_Subset
<1>2. \A x \in T : v[x] = w[x]
  BY DEF Agrees
<1>3. PICK g : Adds(g, v, SUBSET T) /\ SumFunction(v) = g[T]
  BY <1>1, SumAdds
<1> DEFINE G == {U \in SUBSET T : g[U] = f[U]}
<1>4. {} \in G
  BY <1>3 DEF Adds
<1>5. ASSUME NEW U \in SUBSET T, U # {}, Rest(U) \in G PROVE U \in G
  <2>1. First(U) \in T /\ U \in SUBSET S
    BY <1>1, <1>5, RestSmaller
  <2>2. g[U] = v[First(U)] + g[Rest(U)] /\ f[U] = w[First(U)] + f[Rest(U)]
    BY <1>3, <1>5, <2>1 DEF Adds
  <2> QED BY <1>2, <1>5, <2>1, <2>2
<1> HIDE DEF G
<1>6. \A U \in SUBSET T : U \in G
  BY <1>1, <1>4, <1>5, SubsetInduction
<1> QED
  BY <1>3, <1>6 DEF G

\* When no term is negative, a sum over fewer arguments is smaller by at least the
\* term of any argument left out.
LEMMA SumOfFewer ==
    ASSUME NEW S, IsFiniteSet(S), NEW w \in [S -> Int], \A x \in S : w[x] >= 0,
           NEW A \in SUBSET S, NEW a \in [A -> Int], Agrees(a, w, A),
           NEW B \in SUBSET A, NEW b \in [B -> Int], Agrees(b, w, B),
           NEW p \in A \ B
    PROVE  /\ SumFunction(a) \in Int /\ SumFunction(b) \in Int
           /\ SumFunction(b) + w[p] <= SumFunction(a)
<1>1. \A x \in S : w[x] \in Nat
  OBVIOUS
<1>2. PICK f : Adds(f, w, SUBSET S)
  BY AddsExists
<1>3. \A T \in SUBSET S : \A x \in T : Splits(f, w, T, x)
  BY <1>2, AnyFirst
<1>4. \A T \in SUBSET S : f[T] \in Int
  BY <1>2 DEF Adds
<1> DEFINE G == {V \in SUBSET S : \A U \in SUBSET V : f[U] <= f[V]}
<1>5. {} \in G
  <2>1. {} \in SUBSET S /\ f[{}] <= f[{}]
    BY <1>4
  <2>2. \A U \in SUBSET {} : U = {}
    OBVIOUS
  <2> QED BY <2>1, <2>2
<1>6. ASSUME NEW V \in SUBSET S, V # {}, Rest(V) \in G PROVE V \in G
  <2>1. /\ First(V) \in V /\ Rest(V) = V \ {First(V)} /\ w[First(V)] \in Nat
        /\ f[V] = w[First(V)] + f[Rest(V)] /\ f[Rest(V)] \in Int
    BY <1>1, <1>2, <1>4, <1>6, RestSmaller DEF Adds, Rest
  <2>2. ASSUME NEW U \in SUBSET V PROVE f[U] <= f[V]
    <3>1. CASE First(V) \in U
      <4>1. f[U] = w[First(V)] + f[U \ {First(V)}]
        BY <1>3, <3>1 DEF Splits
      <4>2. U \ {First(V)} \in SUBSET Rest(V) /\ U \ {First(V)} \in SUBSET S
        BY <2>1
      <4>3. f[U \ {First(V)}] <= f[Rest(V)] /\ f[U \ {First(V)}] \in Int
        BY <1>4, <1>6, <4>2
      <4> QED BY <2>1, <4>1, <4>3
    <3>2. CASE First(V) \notin U
      <4>1. U \in SUBSET Rest(V) /\ f[U] \in Int
        BY <1>4, <2>1, <3>2
      <4>2. f[U] <= f[Rest(V)]
        BY <1>6, <4>1
      <4> QED BY <2>1, <4>1, <4>2
    <3> QED BY <3>1, <3>2
  <2> QED BY <2>2
<1> HIDE DEF G
<1>7. \A V \in SUBSET S : V \in G
  BY <1>5, <1>6, SubsetInduction
<1>8. f[B \cup {p}] <= f[A]
  BY <1>7 DEF G
<1>9. f[B \cup {p}] = w[p] + f[B]
  <2>1. (B \cup {p}) \ {p} = B /\ B \cup {p} \in SUBSET S
    OBVIOUS
  <2> QED BY <1>3, <2>1 DEF Splits
<1>10. SumFunction(a) = f[A] /\ SumFunction(b) = f[B]
  <2>1. SumFunction(a) = f[A]
    BY <1>2, SumOfSome
  <2>2. B \in SUBSET S
    OBVIOUS
  <2>3. SumFunction(b) = f[B]
    BY <1>2, <2>2, SumOfSome
  <2> QED BY <2>1, <2>3
<1>11. w[p] \in Nat /\ f[A] \in Int /\ f[B] \in Int
  BY <1>1, <1>4
<1> QED
  BY <1>8, <1>9, <1>10, <1>11

=============================================================================
