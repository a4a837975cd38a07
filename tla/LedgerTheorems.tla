--------------------------- MODULE LedgerTheorems ---------------------------
(***************************************************************************)
(* Facts about sums, finite sets and recursive functions, and about the    *)
(* operators on balances and pools of StateTrie and TxPool, that the       *)
(* proofs about ledgers share.                                             *)
(*                                                                         *)
(* An induction is over a set P of the numbers, or of the subsets, that    *)
(* have the property: stated like this it is a first-order fact.  A        *)
(* recursive function on 0..n is given by its steps as a function.         *)
(***************************************************************************)
EXTENDS StateTrie, TxPool, FiniteSetsExt, Functions, FiniteSetTheorems, NaturalsInduction,
        SequenceTheorems, WellFoundedInduction, TLAPS

-----------------------------------------------------------------------------
(***************************************************************************)
(* Induction.                                                              *)
(***************************************************************************)

\* A set of numbers that is not empty has a least element.
LEMMA LeastNumber ==
  ASSUME NEW T \in SUBSET Nat, T # {}
  PROVE  \E n \in T : \A m \in T : n <= m
<1>1. \E n \in T : \A m \in T : ~(<<m, n>> \in OpToRel(<, Nat))
  BY NatLessThanWellFounded, WFMin
<1>2. PICK n \in T : \A m \in T : ~(<<m, n>> \in OpToRel(<, Nat))
  BY <1>1
<1>3. \A m \in T : ~(m < n)
  BY <1>2 DEF OpToRel
<1>4. \A m \in T : n <= m
  <2>1. \A m \in T : m \in Nat /\ n \in Nat
    OBVIOUS
  <2> QED  BY <1>3, <2>1
<1> QED  BY <1>4

\* Induction on the natural numbers.
LEMMA NumberInduction ==
  ASSUME NEW P, 0 \in P, \A n \in Nat : n \in P => n + 1 \in P
  PROVE  \A n \in Nat : n \in P
<1> SUFFICES ASSUME NEW k \in Nat, k \notin P PROVE FALSE
  OBVIOUS
<1> DEFINE T == {n \in Nat : n \notin P}
<1>1. T \in SUBSET Nat /\ T # {}
  OBVIOUS
<1> HIDE DEF T
<1>2. PICK n \in T : \A m \in T : n <= m
  BY <1>1, LeastNumber
<1>3. n \in Nat /\ n \notin P /\ n # 0
  BY <1>2 DEF T
<1>4. n - 1 \in Nat /\ n - 1 \notin T
  BY <1>2, <1>3
<1>5. n - 1 \in P
  BY <1>4 DEF T
<1> QED  BY <1>3, <1>4, <1>5

\* Induction on the subsets of a finite set.
LEMMA SubsetInduction ==
  ASSUME NEW S, IsFiniteSet(S), NEW P, {} \in P,
         \A T \in SUBSET S : \A x \in S \ T : T \in P => T \cup {x} \in P
  PROVE  S \in P
<1>1. PICK seq \in Seq(S) : \A x \in S : \E i \in 1..Len(seq) : seq[i] = x
  BY DEF IsFiniteSet
<1> DEFINE first(n) == {seq[i] : i \in 1..n}
<1> DEFINE Q == {n \in Nat : n <= Len(seq) => first(n) \in P}
<1>2. 0 \in Q
  <2>1. first(0) = {}
    OBVIOUS
  <2> QED  BY <2>1
<1>3. ASSUME NEW n \in Nat, n \in Q PROVE n + 1 \in Q
  <2> SUFFICES ASSUME n + 1 <= Len(seq) PROVE first(n + 1) \in P
    OBVIOUS
  <2>1. first(n) \in P /\ first(n) \in SUBSET S
    <3>1. Len(seq) \in Nat /\ n <= Len(seq)
      OBVIOUS
    <3>2. first(n) \in P
      BY <1>3, <3>1
    <3>3. \A i \in 1..n : i \in 1..Len(seq) /\ seq[i] \in S
      BY <3>1
    <3>4. first(n) \in SUBSET S
      BY <3>3
    <3> HIDE DEF first
    <3> QED  BY <3>2, <3>4
  <2>2. seq[n + 1] \in S
    BY <1>1
  <2>3. first(n + 1) = first(n) \cup {seq[n + 1]}
    <3>1. 1..(n + 1) = (1..n) \cup {n + 1}
      OBVIOUS
    <3> QED  BY <3>1
  <2> HIDE DEF first
  <2>4. CASE seq[n + 1] \in first(n)
    BY <2>1, <2>3, <2>4
  <2>5. CASE seq[n + 1] \notin first(n)
    BY <2>1, <2>2, <2>3, <2>5
  <2> QED  BY <2>4, <2>5
<1>4. Len(seq) \in Nat /\ first(Len(seq)) = S
  BY <1>1
<1> HIDE DEF Q
<1>5. Len(seq) \in Q
  BY <1>2, <1>3, <1>4, NumberInduction
<1>6. first(Len(seq)) \in P
  <2> HIDE DEF first
  <2> QED  BY <1>4, <1>5 DEF Q
<1> HIDE DEF first
<1> QED  BY <1>4, <1>6

\* n steps in the set S, and the function on 0..n that starts at a and takes them.
Steps(S, n) == [1..n -> [S -> S]]
Follows(f, S, a, n, step) ==
  f \in [0..n -> S] /\ f[0] = a /\ \A i \in 1..n : f[i] = step[i][f[i - 1]]

\* The recursive function with the given steps exists.
LEMMA RecursionExists ==
  ASSUME NEW S, NEW a, a \in S, NEW n \in Nat, NEW step \in Steps(S, n)
  PROVE  \E f : Follows(f, S, a, n, step)
<1> DEFINE Good(f, k) == /\ f \in [0..k -> S] /\ f[0] = a
                         /\ \A i \in 1..k : f[i] = step[i][f[i - 1]]
<1> DEFINE Q == {k \in Nat : k <= n => \E f : Good(f, k)}
<1>1. 0 \in Q
  <2>1. Good([i \in 0..0 |-> a], 0)
    OBVIOUS
  <2> QED  BY <2>1
<1>2. ASSUME NEW k \in Nat, k \in Q PROVE k + 1 \in Q
  <2> SUFFICES ASSUME k + 1 <= n PROVE \E f : Good(f, k + 1)
    OBVIOUS
  <2>1. PICK f : Good(f, k)
    BY <1>2
  <2> DEFINE g == [i \in 0..(k + 1) |-> IF i <= k THEN f[i] ELSE step[k + 1][f[k]]]
  <2>2. step[k + 1][f[k]] \in S
    <3>1. f[k] \in S /\ k + 1 \in 1..n
      BY <2>1
    <3> QED  BY <3>1 DEF Steps
  <2>3. g \in [0..(k + 1) -> S]
    BY <2>1, <2>2
  <2>4. g[0] = a
    BY <2>1
  <2>5. ASSUME NEW i \in 1..(k + 1) PROVE g[i] = step[i][g[i - 1]]
    <3>1. CASE i <= k
      BY <2>1, <3>1
    <3>2. CASE i = k + 1
      <4>1. g[k] = f[k] /\ g[k + 1] = step[k + 1][f[k]] /\ (k + 1) - 1 = k
        OBVIOUS
      <4> HIDE DEF g
      <4> QED  BY <3>2, <4>1
    <3> QED  BY <3>1, <3>2
  <2> HIDE DEF g
  <2> QED  BY <2>3, <2>4, <2>5
<1> HIDE DEF Q
<1>3. n \in Q
  BY <1>1, <1>2, NumberInduction
<1> QED  BY <1>3 DEF Q, Follows

-----------------------------------------------------------------------------
(***************************************************************************)
(* Sums.  SumFunctionOnSet folds over the subsets of the index set: g is   *)
(* the function that the fold computes.                                    *)
(***************************************************************************)
Chosen(s) == CHOOSE x \in s : TRUE

FoldsTo(g, f, S) ==
  \A s \in SUBSET S : g[s] = IF s = {} THEN 0 ELSE f[Chosen(s)] + g[s \ {Chosen(s)}]

\* The fold over a finite set exists.
LEMMA FoldExists ==
  ASSUME NEW S, IsFiniteSet(S), NEW f, \A x \in S : f[x] \in Int
  PROVE  \E g \in [SUBSET S -> Int] : FoldsTo(g, f, S)
<1> DEFINE Small(k) == {s \in SUBSET S : Cardinality(s) <= k}
<1> DEFINE Value(g, s) == IF s = {} THEN 0 ELSE f[Chosen(s)] + g[s \ {Chosen(s)}]
<1> DEFINE Good(g, k) == g \in [Small(k) -> Int] /\ \A s \in Small(k) : g[s] = Value(g, s)
<1> DEFINE Q == {k \in Nat : \E g : Good(g, k)}
<1>1. \A s \in SUBSET S : IsFiniteSet(s) /\ Cardinality(s) \in Nat
  BY FS_Subset, FS_CardinalityType
<1>2. \A s \in SUBSET S : s # {} => /\ Chosen(s) \in s /\ s \ {Chosen(s)} \in SUBSET S
                                    /\ Cardinality(s \ {Chosen(s)}) = Cardinality(s) - 1
  <2> SUFFICES ASSUME NEW s \in SUBSET S, s # {}
               PROVE  /\ Chosen(s) \in s /\ s \ {Chosen(s)} \in SUBSET S
                      /\ Cardinality(s \ {Chosen(s)}) = Cardinality(s) - 1
    OBVIOUS
  <2>1. Chosen(s) \in s
    BY DEF Chosen
  <2>2. Cardinality(s \ {Chosen(s)}) = Cardinality(s) - 1
    BY <1>1, <2>1, FS_RemoveElement
  <2> QED  BY <2>1, <2>2
<1>3. 0 \in Q
  <2>1. Small(0) = {{}}
    BY <1>1, FS_EmptySet
  <2> DEFINE g == [s \in {{}} |-> 0]
  <2>2. g \in [Small(0) -> Int] /\ \A s \in Small(0) : g[s] = Value(g, s)
    BY <2>1
  <2> HIDE DEF g
  <2> QED  BY <2>2
<1>4. ASSUME NEW k \in Nat, k \in Q PROVE k + 1 \in Q
  <2>1. PICK g : Good(g, k)
    BY <1>4
  <2> DEFINE h == [s \in Small(k + 1) |-> Value(g, s)]
  <2>2. \A s \in Small(k + 1) : s # {} => s \ {Chosen(s)} \in Small(k)
    BY <1>1, <1>2
  <2>3. h \in [Small(k + 1) -> Int]
    <3> SUFFICES ASSUME NEW s \in Small(k + 1) PROVE Value(g, s) \in Int
      OBVIOUS
    <3>1. CASE s = {}
      BY <3>1
    <3>2. CASE s # {}
      <4>1. f[Chosen(s)] \in Int /\ g[s \ {Chosen(s)}] \in Int
        BY <1>2, <2>1, <2>2, <3>2
      <4> QED  BY <3>2, <4>1
    <3> QED  BY <3>1, <3>2
  <2>4. \A s \in Small(k) : h[s] = g[s]
    <3>1. \A s \in Small(k) : s \in Small(k + 1)
      BY <1>1
    <3> QED  BY <2>1, <3>1
  <2>5. ASSUME NEW s \in Small(k + 1) PROVE h[s] = Value(h, s)
    <3>1. h[s] = Value(g, s)
      OBVIOUS
    <3> HIDE DEF h
    <3>2. s # {} => h[s \ {Chosen(s)}] = g[s \ {Chosen(s)}]
      BY <2>2, <2>4
    <3> QED  BY <3>1, <3>2
  <2>6. Good(h, k + 1)
    <3> HIDE DEF h
    <3> QED  BY <2>3, <2>5
  <2> HIDE DEF h, Good
  <2> QED  BY <2>6
<1> HIDE DEF Q
<1>5. Cardinality(S) \in Q
  BY <1>1, <1>3, <1>4, NumberInduction
<1>6. PICK g : Good(g, Cardinality(S))
  BY <1>5 DEF Q
<1>7. Small(Cardinality(S)) = SUBSET S
  <2>1. \A s \in SUBSET S : Cardinality(s) <= Cardinality(S)
    BY FS_Subset
  <2> QED  BY <2>1
<1>8. g \in [SUBSET S -> Int] /\ FoldsTo(g, f, S)
  BY <1>6, <1>7 DEF FoldsTo
<1> QED  BY <1>8

\* Folds over a set and over a larger one agree on the subsets of the first.
LEMMA FoldUnique ==
  ASSUME NEW S, NEW R, S \subseteq R, IsFiniteSet(R), NEW f, NEW g, NEW h,
         FoldsTo(g, f, S), FoldsTo(h, f, R)
  PROVE  \A s \in SUBSET S : g[s] = h[s]
<1> DEFINE Q == {k \in Nat : \A s \in SUBSET S : Cardinality(s) = k => g[s] = h[s]}
<1>1. \A s \in SUBSET S : IsFiniteSet(s) /\ Cardinality(s) \in Nat
  BY FS_Subset, FS_CardinalityType
<1>2. 0 \in Q
  <2>1. \A s \in SUBSET S : Cardinality(s) = 0 => s = {}
    BY <1>1, FS_EmptySet
  <2> QED  BY <2>1 DEF FoldsTo
<1>3. ASSUME NEW k \in Nat, k \in Q PROVE k + 1 \in Q
  <2> SUFFICES ASSUME NEW s \in SUBSET S, Cardinality(s) = k + 1 PROVE g[s] = h[s]
    OBVIOUS
  <2>1. s # {}
    BY FS_EmptySet
  <2>2. Chosen(s) \in s /\ s \ {Chosen(s)} \in SUBSET S
    BY <2>1 DEF Chosen
  <2>3. Cardinality(s \ {Chosen(s)}) = k
    BY <1>1, <2>2, FS_RemoveElement
  <2>4. g[s \ {Chosen(s)}] = h[s \ {Chosen(s)}]
    BY <1>3, <2>2, <2>3
  <2>5. s \in SUBSET R
    OBVIOUS
  <2> QED  BY <2>1, <2>4, <2>5 DEF FoldsTo
<1> HIDE DEF Q
<1>4. \A k \in Nat : k \in Q
  BY <1>2, <1>3, NumberInduction
<1> QED  BY <1>1, <1>4 DEF Q

\* The sum is the value of the fold.
LEMMA SumIsFold ==
  ASSUME NEW S, IsFiniteSet(S), NEW f, \A x \in S : f[x] \in Int
  PROVE  \E g \in [SUBSET S -> Int] : FoldsTo(g, f, S) /\ SumFunctionOnSet(f, S) = g[S]
<1> DEFINE Eq(g) == g = [s \in SUBSET S |->
                           IF s = {} THEN 0 ELSE f[Chosen(s)] + g[s \ {Chosen(s)}]]
<1>1. SumFunctionOnSet(f, S) = (CHOOSE g : Eq(g))[S]
  BY DEF SumFunctionOnSet, FoldFunctionOnSet, MapThenFoldSet, Chosen
<1>2. PICK h \in [SUBSET S -> Int] : FoldsTo(h, f, S)
  BY FoldExists
<1>3. Eq(h)
  BY <1>2 DEF FoldsTo
<1>4. PICK g : Eq(g) /\ SumFunctionOnSet(f, S) = g[S]
  <2> HIDE DEF Eq
  <2> QED  BY <1>1, <1>3
<1>5. FoldsTo(g, f, S)
  BY <1>4 DEF FoldsTo
<1>6. h[S] = g[S]
  BY <1>2, <1>5, FoldUnique
<1> QED  BY <1>2, <1>4, <1>6

\* A sum of integers is an integer, and the empty sum is zero.
LEMMA SumType ==
  ASSUME NEW S, IsFiniteSet(S), NEW f, \A x \in S : f[x] \in Int
  PROVE  SumFunctionOnSet(f, S) \in Int /\ (S = {} => SumFunctionOnSet(f, S) = 0)
<1>1. PICK g \in [SUBSET S -> Int] : FoldsTo(g, f, S) /\ SumFunctionOnSet(f, S) = g[S]
  BY SumIsFold
<1>2. g[S] \in Int /\ (S = {} => g[S] = 0)
  BY <1>1 DEF FoldsTo
<1> QED  BY <1>1, <1>2

\* The first step of the fold.
LEMMA SumFirst ==
  ASSUME NEW S, IsFiniteSet(S), S # {}, NEW f, \A x \in S : f[x] \in Int
  PROVE  /\ Chosen(S) \in S
         /\ SumFunctionOnSet(f, S) = f[Chosen(S)] + SumFunctionOnSet(f, S \ {Chosen(S)})
<1> DEFINE R == S \ {Chosen(S)}
<1>1. Chosen(S) \in S
  BY DEF Chosen
<1>2. IsFiniteSet(R) /\ R \subseteq S
  BY FS_Subset
<1>3. PICK g \in [SUBSET S -> Int] : FoldsTo(g, f, S) /\ SumFunctionOnSet(f, S) = g[S]
  BY SumIsFold
<1>4. PICK h \in [SUBSET R -> Int] : FoldsTo(h, f, R) /\ SumFunctionOnSet(f, R) = h[R]
  <2> HIDE DEF R
  <2> QED  BY <1>2, SumIsFold
<1>5. h[R] = g[R]
  <2> HIDE DEF R
  <2>1. \A s \in SUBSET R : h[s] = g[s]
    BY <1>2, <1>3, <1>4, FoldUnique
  <2> QED  BY <2>1
<1>6. g[S] = f[Chosen(S)] + g[R]
  BY <1>3 DEF FoldsTo
<1> QED  BY <1>1, <1>3, <1>4, <1>5, <1>6

\* A new index adds its value.
LEMMA SumAdd ==
  ASSUME NEW S, IsFiniteSet(S), NEW x, x \notin S, NEW f, f[x] \in Int, \A y \in S : f[y] \in Int
  PROVE  SumFunctionOnSet(f, S \cup {x}) = SumFunctionOnSet(f, S) + f[x]
<1> DEFINE Sum(s) == SumFunctionOnSet(f, s)
<1> DEFINE U == S \cup {x}
<1> DEFINE Q == {k \in Nat : \A s \in SUBSET U : \A y \in U \ s :
                   Cardinality(s) = k => Sum(s \cup {y}) = Sum(s) + f[y]}
<1>1. IsFiniteSet(U) /\ \A y \in U : f[y] \in Int
  BY FS_AddElement
<1>2. \A s \in SUBSET U : IsFiniteSet(s) /\ Cardinality(s) \in Nat /\ Sum(s) \in Int
  <2> SUFFICES ASSUME NEW s \in SUBSET U
               PROVE  IsFiniteSet(s) /\ Cardinality(s) \in Nat /\ Sum(s) \in Int
    OBVIOUS
  <2>1. IsFiniteSet(s)
    BY <1>1, FS_Subset
  <2> QED  BY <1>1, <2>1, FS_CardinalityType, SumType
<1> HIDE DEF U
<1>3. ASSUME NEW s \in SUBSET U, s # {}
      PROVE  Chosen(s) \in s /\ Sum(s) = f[Chosen(s)] + Sum(s \ {Chosen(s)})
  <2>1. IsFiniteSet(s) /\ \A y \in s : f[y] \in Int
    BY <1>1, <1>2
  <2> QED  BY <1>3, <2>1, SumFirst
<1>4. ASSUME NEW k \in Nat, \A j \in Nat : j < k => j \in Q PROVE k \in Q
  <2> SUFFICES ASSUME NEW s \in SUBSET U, NEW y \in U \ s, Cardinality(s) = k
               PROVE  Sum(s \cup {y}) = Sum(s) + f[y]
    OBVIOUS
  <2> DEFINE c == Chosen(s \cup {y})
  <2>1. /\ c \in s \cup {y}
        /\ Sum(s \cup {y}) = f[c] + Sum((s \cup {y}) \ {c})
    BY <1>3
  <2> HIDE DEF c
  <2>2. CASE c = y
    <3>1. (s \cup {y}) \ {c} = s
      BY <2>2
    <3> QED  BY <1>1, <1>2, <2>1, <2>2, <3>1
  <2>3. CASE c # y
    <3> DEFINE r == s \ {c}
    <3>1. c \in s /\ c \in U /\ r \in SUBSET U /\ c \in U \ r /\ y \in U \ r
      BY <2>1, <2>3
    <3>2. Cardinality(r) = k - 1 /\ k - 1 \in Nat
      <4>1. IsFiniteSet(s) /\ s # {}
        BY <1>2, <3>1
      <4>2. Cardinality(r) = Cardinality(s) - 1
        BY <3>1, <4>1, FS_RemoveElement
      <4>3. Cardinality(r) \in Nat
        BY <1>2, <3>1
      <4> QED  BY <4>2, <4>3
    <3>3. k - 1 \in Q
      BY <1>4, <3>2
    <3>4. Sum(r \cup {c}) = Sum(r) + f[c] /\ Sum(r \cup {y}) = Sum(r) + f[y]
      <4> HIDE DEF r, Sum
      <4> QED  BY <3>1, <3>2, <3>3
    <3>5. r \cup {c} = s /\ (s \cup {y}) \ {c} = r \cup {y}
      BY <2>3, <3>1
    <3>6. Sum(r) \in Int /\ f[c] \in Int /\ f[y] \in Int
      BY <1>1, <1>2, <3>1
    <3>7. Sum(s) = Sum(r) + f[c] /\ Sum(s \cup {y}) = f[c] + (Sum(r) + f[y])
      <4> HIDE DEF r, Sum
      <4> QED  BY <2>1, <3>4, <3>5
    <3> HIDE DEF r, Sum
    <3> QED  BY <3>6, <3>7
  <2> QED  BY <2>2, <2>3
<1> HIDE DEF Q
<1>5. \A k \in Nat : k \in Q
  <2> SUFFICES ASSUME NEW k0 \in Nat, k0 \notin Q PROVE FALSE
    OBVIOUS
  <2> DEFINE T == {j \in Nat : j \notin Q}
  <2>1. T \in SUBSET Nat /\ T # {}
    OBVIOUS
  <2> HIDE DEF T
  <2>2. PICK k \in T : \A j \in T : k <= j
    BY <2>1, LeastNumber
  <2>3. k \in Nat /\ k \notin Q
    BY <2>2 DEF T
  <2>4. ASSUME NEW j \in Nat, j < k PROVE j \in Q
    <3>1. j \notin T
      BY <2>2, <2>3, <2>4
    <3> QED  BY <3>1 DEF T
  <2> QED  BY <1>4, <2>3, <2>4
<1>6. S \in SUBSET U /\ x \in U \ S
  BY DEF U
<1>7. Cardinality(S) \in Q
  BY <1>2, <1>5, <1>6
<1> QED  BY <1>6, <1>7 DEF Q

\* A removed index takes its value away.
LEMMA SumRemove ==
  ASSUME NEW S, IsFiniteSet(S), NEW x \in S, NEW f, \A y \in S : f[y] \in Int
  PROVE  SumFunctionOnSet(f, S \ {x}) = SumFunctionOnSet(f, S) - f[x]
<1> DEFINE R == S \ {x}
<1>1. IsFiniteSet(R) /\ x \notin R /\ R \cup {x} = S /\ f[x] \in Int /\ \A y \in R : f[y] \in Int
  BY FS_Subset
<1> HIDE DEF R
<1>2. SumFunctionOnSet(f, S) = SumFunctionOnSet(f, R) + f[x]
  BY <1>1, SumAdd
<1>3. SumFunctionOnSet(f, R) \in Int
  BY <1>1, SumType
<1>4. SumFunctionOnSet(f, R) = SumFunctionOnSet(f, S) - f[x]
  BY <1>1, <1>2, <1>3
<1> QED  BY <1>4 DEF R

\* A sum depends only on the values at its indices.
LEMMA SumSame ==
  ASSUME NEW S, IsFiniteSet(S), NEW f, NEW g, \A x \in S : f[x] \in Int /\ g[x] = f[x]
  PROVE  SumFunctionOnSet(g, S) = SumFunctionOnSet(f, S)
<1> DEFINE P == {T \in SUBSET S : SumFunctionOnSet(g, T) = SumFunctionOnSet(f, T)}
<1>1. {} \in P
  BY FS_EmptySet, SumType
<1>2. ASSUME NEW T \in SUBSET S, NEW x \in S \ T, T \in P PROVE T \cup {x} \in P
  <2>1. IsFiniteSet(T) /\ x \notin T /\ \A y \in T : f[y] \in Int /\ g[y] \in Int
    BY FS_Subset
  <2>2. f[x] \in Int /\ g[x] = f[x] /\ g[x] \in Int
    OBVIOUS
  <2>3. SumFunctionOnSet(f, T \cup {x}) = SumFunctionOnSet(f, T) + f[x]
    BY <2>1, <2>2, SumAdd
  <2>4. SumFunctionOnSet(g, T \cup {x}) = SumFunctionOnSet(g, T) + g[x]
    BY <2>1, <2>2, SumAdd
  <2> QED  BY <1>2, <2>2, <2>3, <2>4
<1> HIDE DEF P
<1>3. S \in P
  BY <1>1, <1>2, SubsetInduction
<1> QED  BY <1>3 DEF P

\* A change of one value changes the sum by the difference.
LEMMA SumChange ==
  ASSUME NEW S, IsFiniteSet(S), NEW x \in S, NEW f, NEW g,
         \A y \in S : f[y] \in Int /\ g[y] \in Int, \A y \in S \ {x} : g[y] = f[y]
  PROVE  SumFunctionOnSet(g, S) = SumFunctionOnSet(f, S) - f[x] + g[x]
<1> DEFINE R == S \ {x}
<1>1. IsFiniteSet(R) /\ \A y \in R : f[y] \in Int /\ g[y] = f[y]
  BY FS_Subset
<1>2. SumFunctionOnSet(g, R) = SumFunctionOnSet(f, R)
  <2> HIDE DEF R
  <2> QED  BY <1>1, SumSame
<1>3. SumFunctionOnSet(f, R) = SumFunctionOnSet(f, S) - f[x]
  BY SumRemove
<1>4. SumFunctionOnSet(g, R) = SumFunctionOnSet(g, S) - g[x]
  BY SumRemove
<1>5. SumFunctionOnSet(f, S) \in Int /\ SumFunctionOnSet(g, S) \in Int
  BY SumType
<1> HIDE DEF R
<1> QED  BY <1>2, <1>3, <1>4, <1>5

\* A sum of equal values is a product.
LEMMA SumConstant ==
  ASSUME NEW S, IsFiniteSet(S), NEW f, NEW c \in Int, \A x \in S : f[x] = c
  PROVE  SumFunctionOnSet(f, S) = Cardinality(S) * c
<1> DEFINE P == {T \in SUBSET S : SumFunctionOnSet(f, T) = Cardinality(T) * c}
<1>1. {} \in P
  <2>1. SumFunctionOnSet(f, {}) = 0 /\ Cardinality({}) = 0
    BY FS_EmptySet, SumType
  <2> QED  BY <2>1
<1>2. ASSUME NEW T \in SUBSET S, NEW x \in S \ T, T \in P PROVE T \cup {x} \in P
  <2>1. IsFiniteSet(T) /\ x \notin T /\ f[x] = c /\ \A y \in T : f[y] \in Int
    BY FS_Subset
  <2>2. SumFunctionOnSet(f, T \cup {x}) = SumFunctionOnSet(f, T) + c
    BY <2>1, SumAdd
  <2>3. Cardinality(T \cup {x}) = Cardinality(T) + 1 /\ Cardinality(T) \in Nat
    BY <2>1, FS_AddElement, FS_CardinalityType
  <2>4. (Cardinality(T) + 1) * c = Cardinality(T) * c + c
    BY <2>3
  <2> QED  BY <1>2, <2>2, <2>3, <2>4
<1> HIDE DEF P
<1>3. S \in P
  BY <1>1, <1>2, SubsetInduction
<1> QED  BY <1>3 DEF P

\* Sums over disjoint sets add up.
LEMMA SumUnion ==
  ASSUME NEW S, IsFiniteSet(S), NEW R, IsFiniteSet(R), S \cap R = {},
         NEW f, \A x \in S \cup R : f[x] \in Int
  PROVE  SumFunctionOnSet(f, S \cup R) = SumFunctionOnSet(f, S) + SumFunctionOnSet(f, R)
<1> DEFINE P == {T \in SUBSET R :
                   SumFunctionOnSet(f, S \cup T) = SumFunctionOnSet(f, S) + SumFunctionOnSet(f, T)}
<1>1. SumFunctionOnSet(f, S) \in Int
  BY SumType
<1>2. {} \in P
  <2>1. SumFunctionOnSet(f, {}) = 0 /\ S \cup {} = S
    BY FS_EmptySet, SumType
  <2> QED  BY <1>1, <2>1
<1>3. ASSUME NEW T \in SUBSET R, NEW x \in R \ T, T \in P PROVE T \cup {x} \in P
  <2>1. IsFiniteSet(T) /\ x \notin T /\ f[x] \in Int /\ \A y \in T : f[y] \in Int
    BY FS_Subset
  <2>2. IsFiniteSet(S \cup T) /\ x \notin S \cup T /\ \A y \in S \cup T : f[y] \in Int
    BY <2>1, FS_Union
  <2>3. SumFunctionOnSet(f, T \cup {x}) = SumFunctionOnSet(f, T) + f[x]
    BY <2>1, SumAdd
  <2>4. SumFunctionOnSet(f, (S \cup T) \cup {x}) = SumFunctionOnSet(f, S \cup T) + f[x]
    BY <2>1, <2>2, SumAdd
  <2>5. SumFunctionOnSet(f, T) \in Int
    BY <2>1, SumType
  <2>6. (S \cup T) \cup {x} = S \cup (T \cup {x})
    OBVIOUS
  <2>7. SumFunctionOnSet(f, S \cup (T \cup {x}))
          = SumFunctionOnSet(f, S) + SumFunctionOnSet(f, T \cup {x})
    <3>1. SumFunctionOnSet(f, S \cup T) = SumFunctionOnSet(f, S) + SumFunctionOnSet(f, T)
      BY <1>3
    <3>2. SumFunctionOnSet(f, S \cup (T \cup {x}))
            = (SumFunctionOnSet(f, S) + SumFunctionOnSet(f, T)) + f[x]
      BY <2>4, <2>6, <3>1
    <3> QED  BY <1>1, <2>1, <2>3, <2>5, <3>2
  <2> QED  BY <2>7
<1> HIDE DEF P
<1>4. R \in P
  BY <1>2, <1>3, SubsetInduction
<1> QED  BY <1>4 DEF P

\* The sum of a sum.
LEMMA SumPlus ==
  ASSUME NEW S, IsFiniteSet(S), NEW f, NEW g, NEW h,
         \A x \in S : f[x] \in Int /\ g[x] \in Int /\ h[x] = f[x] + g[x]
  PROVE  SumFunctionOnSet(h, S) = SumFunctionOnSet(f, S) + SumFunctionOnSet(g, S)
<1> DEFINE P == {T \in SUBSET S :
                   SumFunctionOnSet(h, T) = SumFunctionOnSet(f, T) + SumFunctionOnSet(g, T)}
<1>1. {} \in P
  <2>1. /\ SumFunctionOnSet(f, {}) = 0 /\ SumFunctionOnSet(g, {}) = 0
        /\ SumFunctionOnSet(h, {}) = 0
    BY FS_EmptySet, SumType
  <2> QED  BY <2>1
<1>2. ASSUME NEW T \in SUBSET S, NEW x \in S \ T, T \in P PROVE T \cup {x} \in P
  <2>1. /\ IsFiniteSet(T) /\ x \notin T
        /\ \A y \in T : f[y] \in Int /\ g[y] \in Int /\ h[y] \in Int
    BY FS_Subset
  <2>2. f[x] \in Int /\ g[x] \in Int /\ h[x] = f[x] + g[x] /\ h[x] \in Int
    OBVIOUS
  <2>3. SumFunctionOnSet(f, T \cup {x}) = SumFunctionOnSet(f, T) + f[x]
    BY <2>1, <2>2, SumAdd
  <2>4. SumFunctionOnSet(g, T \cup {x}) = SumFunctionOnSet(g, T) + g[x]
    BY <2>1, <2>2, SumAdd
  <2>5. SumFunctionOnSet(h, T \cup {x}) = SumFunctionOnSet(h, T) + h[x]
    BY <2>1, <2>2, SumAdd
  <2>6. SumFunctionOnSet(f, T) \in Int /\ SumFunctionOnSet(g, T) \in Int
    BY <2>1, SumType
  <2>7. SumFunctionOnSet(h, T) = SumFunctionOnSet(f, T) + SumFunctionOnSet(g, T)
    BY <1>2
  <2>8. SumFunctionOnSet(h, T \cup {x})
          = SumFunctionOnSet(f, T \cup {x}) + SumFunctionOnSet(g, T \cup {x})
    BY <2>2, <2>3, <2>4, <2>5, <2>6, <2>7
  <2> QED  BY <2>8
<1> HIDE DEF P
<1>3. S \in P
  BY <1>1, <1>2, SubsetInduction
<1> QED  BY <1>3 DEF P

\* A change of the values in D changes the sum by what it changes there.
LEMMA SumChangeIn ==
  ASSUME NEW S, IsFiniteSet(S), NEW D \in SUBSET S, NEW f, NEW g,
         \A y \in S : f[y] \in Int /\ g[y] \in Int, \A y \in S \ D : g[y] = f[y]
  PROVE  SumFunctionOnSet(g, S)
           = SumFunctionOnSet(f, S) - SumFunctionOnSet(f, D) + SumFunctionOnSet(g, D)
<1>1. PICK R : R = S \ D
  OBVIOUS
<1>2. IsFiniteSet(R) /\ IsFiniteSet(D) /\ D \cap R = {} /\ D \cup R = S
  BY <1>1, FS_Subset
<1>3. SumFunctionOnSet(g, R) = SumFunctionOnSet(f, R)
  BY <1>1, <1>2, SumSame
<1>4. SumFunctionOnSet(f, D \cup R) = SumFunctionOnSet(f, D) + SumFunctionOnSet(f, R)
  BY <1>1, <1>2, SumUnion
<1>5. SumFunctionOnSet(g, D \cup R) = SumFunctionOnSet(g, D) + SumFunctionOnSet(g, R)
  BY <1>1, <1>2, SumUnion
<1>6. /\ SumFunctionOnSet(f, D) \in Int /\ SumFunctionOnSet(f, R) \in Int
      /\ SumFunctionOnSet(g, D) \in Int
  BY <1>1, <1>2, SumType
<1>7. /\ SumFunctionOnSet(f, S) = SumFunctionOnSet(f, D) + SumFunctionOnSet(f, R)
      /\ SumFunctionOnSet(g, S) = SumFunctionOnSet(g, D) + SumFunctionOnSet(f, R)
  BY <1>2, <1>3, <1>4, <1>5
<1> QED  BY <1>6, <1>7

\* Only the values in D count when all others are 0.
LEMMA SumWhere ==
  ASSUME NEW S, IsFiniteSet(S), NEW D \in SUBSET S, NEW f,
         \A y \in D : f[y] \in Int, \A y \in S \ D : f[y] = 0
  PROVE  SumFunctionOnSet(f, S) = SumFunctionOnSet(f, D)
<1>1. PICK R : R = S \ D
  OBVIOUS
<1>2. IsFiniteSet(R) /\ IsFiniteSet(D) /\ D \cap R = {} /\ D \cup R = S
  BY <1>1, FS_Subset
<1>3. SumFunctionOnSet(f, R) = Cardinality(R) * 0 /\ Cardinality(R) \in Nat
  BY <1>1, <1>2, SumConstant, FS_CardinalityType
<1>4. SumFunctionOnSet(f, D \cup R) = SumFunctionOnSet(f, D) + SumFunctionOnSet(f, R)
  BY <1>1, <1>2, SumUnion
<1>5. SumFunctionOnSet(f, D) \in Int
  BY <1>2, SumType
<1> QED  BY <1>2, <1>3, <1>4, <1>5

\* A sum of natural numbers is one.
LEMMA SumNatural ==
  ASSUME NEW S, IsFiniteSet(S), NEW f, \A x \in S : f[x] \in Nat
  PROVE  SumFunctionOnSet(f, S) \in Nat
<1> DEFINE P == {T \in SUBSET S : SumFunctionOnSet(f, T) \in Nat}
<1>1. {} \in P
  BY FS_EmptySet, SumType
<1>2. ASSUME NEW T \in SUBSET S, NEW x \in S \ T, T \in P PROVE T \cup {x} \in P
  <2>1. IsFiniteSet(T) /\ x \notin T /\ f[x] \in Int /\ \A y \in T : f[y] \in Int
    BY FS_Subset
  <2>2. SumFunctionOnSet(f, T \cup {x}) = SumFunctionOnSet(f, T) + f[x]
    BY <2>1, SumAdd
  <2>3. f[x] \in Nat /\ SumFunctionOnSet(f, T) \in Nat
    BY <1>2
  <2> QED  BY <2>2, <2>3
<1> HIDE DEF P
<1>3. S \in P
  BY <1>1, <1>2, SubsetInduction
<1> QED  BY <1>3 DEF P

\* No member of it is larger.
LEMMA SumMember ==
  ASSUME NEW S, IsFiniteSet(S), NEW f, \A y \in S : f[y] \in Nat, NEW x \in S
  PROVE  f[x] <= SumFunctionOnSet(f, S)
<1>1. PICK R : R = S \ {x}
  OBVIOUS
<1>2. IsFiniteSet(R) /\ \A y \in R : f[y] \in Nat
  BY <1>1, FS_Subset
<1>3. SumFunctionOnSet(f, R) \in Nat
  BY <1>2, SumNatural
<1>4. SumFunctionOnSet(f, S \ {x}) = SumFunctionOnSet(f, S) - f[x]
  <2>1. \A y \in S : f[y] \in Int
    OBVIOUS
  <2> QED  BY <2>1, SumRemove
<1>5. SumFunctionOnSet(f, S) \in Nat /\ f[x] \in Nat
  BY SumNatural
<1>6. SumFunctionOnSet(f, R) = SumFunctionOnSet(f, S) - f[x]
  BY <1>1, <1>4
<1> QED  BY <1>3, <1>5, <1>6

\* The part of S that a function g sends to s.
Fibre(S, g, s) == {x \in S : g[x] = s}

\* Sums over the parts add up to the sum over all.
LEMMA SumFibres ==
  ASSUME NEW S, IsFiniteSet(S), NEW R, IsFiniteSet(R), NEW g, \A x \in S : g[x] \in R,
         NEW f, \A x \in S : f[x] \in Int,
         NEW h, \A s \in R : h[s] = SumFunctionOnSet(f, Fibre(S, g, s))
  PROVE  SumFunctionOnSet(h, R) = SumFunctionOnSet(f, S)
<1> DEFINE Over(T) == {x \in S : g[x] \in T}
<1> DEFINE P == {T \in SUBSET R : SumFunctionOnSet(h, T) = SumFunctionOnSet(f, Over(T))}
<1>0. \A s \in R : IsFiniteSet(Fibre(S, g, s)) /\ Fibre(S, g, s) \subseteq S /\ h[s] \in Int
  <2>1. SUFFICES ASSUME NEW s \in R
                 PROVE  IsFiniteSet(Fibre(S, g, s)) /\ Fibre(S, g, s) \subseteq S /\ h[s] \in Int
    OBVIOUS
  <2>2. PICK F : F = Fibre(S, g, s)
    OBVIOUS
  <2>3. IsFiniteSet(F) /\ F \subseteq S
    <3>1. F \in SUBSET S
      BY <2>2 DEF Fibre
    <3> QED  BY <3>1, FS_Subset
  <2>4. SumFunctionOnSet(f, F) \in Int
    BY <2>3, SumType
  <2> QED  BY <2>2, <2>3, <2>4
<1>1. {} \in P
  <2>1. Over({}) = {}
    OBVIOUS
  <2>2. SumFunctionOnSet(h, {}) = 0 /\ SumFunctionOnSet(f, {}) = 0
    BY FS_EmptySet, SumType
  <2> QED  BY <2>1, <2>2
<1>2. ASSUME NEW T \in SUBSET R, NEW s \in R \ T, T \in P PROVE T \cup {s} \in P
  <2>1. PICK A, B : A = Over(T) /\ B = Fibre(S, g, s)
    OBVIOUS
  <2>2. Over(T \cup {s}) = A \cup B /\ A \cap B = {}
    BY <2>1 DEF Fibre
  <2>3. IsFiniteSet(A) /\ IsFiniteSet(B) /\ A \subseteq S /\ B \subseteq S
    <3>1. A \in SUBSET S
      BY <2>1
    <3> QED  BY <1>0, <2>1, <3>1, FS_Subset
  <2>4. SumFunctionOnSet(f, A \cup B) = SumFunctionOnSet(f, A) + SumFunctionOnSet(f, B)
    BY <2>2, <2>3, SumUnion
  <2>5. IsFiniteSet(T) /\ s \notin T /\ h[s] \in Int /\ \A y \in T : h[y] \in Int
    BY <1>0, FS_Subset
  <2>6. SumFunctionOnSet(h, T \cup {s}) = SumFunctionOnSet(h, T) + h[s]
    BY <2>5, SumAdd
  <2>7. SumFunctionOnSet(h, T) = SumFunctionOnSet(f, A) /\ h[s] = SumFunctionOnSet(f, B)
    BY <1>2, <2>1
  <2> HIDE DEF Over
  <2> QED  BY <2>2, <2>4, <2>6, <2>7
<1>3. R \in P
  <2> HIDE DEF P
  <2> QED  BY <1>1, <1>2, SubsetInduction
<1>4. Over(R) = S
  OBVIOUS
<1> QED  BY <1>3, <1>4

-----------------------------------------------------------------------------
(***************************************************************************)
(* The balances after the transactions of a block.                         *)
(***************************************************************************)

\* What every step of a function on 0..n keeps holds for all its values.
LEMMA StepsStay ==
  ASSUME NEW S, NEW n \in Nat, NEW g, g[0] \in S, \A i \in 1..n : g[i - 1] \in S => g[i] \in S
  PROVE  \A i \in 0..n : g[i] \in S
<1> DEFINE Q == {i \in Nat : i <= n => g[i] \in S}
<1>1. 0 \in Q
  OBVIOUS
<1>2. ASSUME NEW i \in Nat, i \in Q PROVE i + 1 \in Q
  <2> SUFFICES ASSUME i + 1 <= n PROVE g[i + 1] \in S
    OBVIOUS
  <2>1. i + 1 \in 1..n /\ (i + 1) - 1 = i /\ g[i] \in S
    BY <1>2
  <2> QED  BY <2>1
<1> HIDE DEF Q
<1>3. \A i \in Nat : i \in Q
  BY <1>1, <1>2, NumberInduction
<1> QED  BY <1>3 DEF Q

\* A transaction as the state transition reads it, over the accounts A.
TxOver(A) ==
  [sender : A, recipient : A, value : Nat, relayed : BOOLEAN, hasBroker : BOOLEAN]

\* One transaction keeps the trie a function from accounts to balances.
LEMMA ApplyType ==
  ASSUME NEW A, NEW st \in [A -> Int], NEW pm, NEW s, NEW tx \in TxOver(A)
  PROVE  Apply(st, pm, s, tx) \in [A -> Int]
<1>1. tx.sender \in A /\ tx.recipient \in A /\ tx.value \in Int
  BY DEF TxOver
<1>2. \A t \in [A -> Int] : /\ Deduct(t, tx.sender, tx.value) \in [A -> Int]
                            /\ Deposit(t, tx.recipient, tx.value) \in [A -> Int]
  BY <1>1 DEF Deduct, Deposit
<1> QED  BY <1>2 DEF Apply

\* Every one of the n transactions of a block keeps the set B of balances.
Keep(B, pm, s, txs, n) ==
  /\ n = Len(txs)
  /\ \A b \in B : \A i \in 1..n : Apply(b, pm, s, txs[i]) \in B

\* There is a function that follows the transactions of a block.
LEMMA ApplyRecursion ==
  ASSUME NEW B, NEW st \in B, NEW n \in Nat, NEW pm, NEW s, NEW txs, Keep(B, pm, s, txs, n)
  PROVE  \E f \in [0..n -> B] :
           f[0] = st /\ \A i \in 1..n : f[i] = Apply(f[i - 1], pm, s, txs[i])
<1>1. PICK step \in Steps(B, n) :
        \A b \in B : \A i \in 1..n : step[i][b] = Apply(b, pm, s, txs[i])
  <2> DEFINE e == [i \in 1..n |-> [b \in B |-> Apply(b, pm, s, txs[i])]]
  <2>1. e \in Steps(B, n)
    BY DEF Keep, Steps
  <2>2. \A b \in B : \A i \in 1..n : e[i][b] = Apply(b, pm, s, txs[i])
    OBVIOUS
  <2> HIDE DEF e
  <2> QED  BY <2>1, <2>2
<1>2. \E f : Follows(f, B, st, n, step)
  BY RecursionExists
<1>3. PICK f \in [0..n -> B] : f[0] = st /\ \A i \in 1..n : f[i] = step[i][f[i - 1]]
  BY <1>2 DEF Follows
<1>4. \A i \in 1..n : f[i - 1] \in B
  <2>1. \A i \in 1..n : i - 1 \in 0..n
    OBVIOUS
  <2> QED  BY <2>1
<1>5. \A i \in 1..n : f[i] = Apply(f[i - 1], pm, s, txs[i])
  BY <1>1, <1>3, <1>4
<1> QED  BY <1>3, <1>5

\* Tries follows the transactions one by one, and stays in a set B of balances that
\* every one of them keeps.
LEMMA TriesSteps ==
  ASSUME NEW B, NEW st \in B, NEW n \in Nat, NEW pm, NEW s, NEW txs, Keep(B, pm, s, txs, n)
  PROVE  /\ Tries(st, pm, s, txs)[0] = st
         /\ \A i \in 1..n :
              Tries(st, pm, s, txs)[i] = Apply(Tries(st, pm, s, txs)[i - 1], pm, s, txs[i])
         /\ \A i \in 0..n : Tries(st, pm, s, txs)[i] \in B
         /\ GetUpdateStatusTrie(st, pm, s, txs) \in B
<1> DEFINE Eq(g) == g = [i \in 0..n |-> IF i = 0 THEN st ELSE Apply(g[i - 1], pm, s, txs[i])]
<1>1. PICK f \in [0..n -> B] :
        f[0] = st /\ \A i \in 1..n : f[i] = Apply(f[i - 1], pm, s, txs[i])
  BY ApplyRecursion
<1>2. Eq(f)
  <2>1. \A i \in 0..n : f[i] = IF i = 0 THEN st ELSE Apply(f[i - 1], pm, s, txs[i])
    BY <1>1
  <2>2. f = [i \in 0..n |-> f[i]]
    BY <1>1
  <2> QED  BY <2>1, <2>2
<1> DEFINE F == Tries(st, pm, s, txs)
<1>3. Eq(F)
  <2>1. F = CHOOSE g : Eq(g)
    BY DEF Tries, Keep
  <2> HIDE DEF F, Eq
  <2> QED  BY <1>2, <2>1
<1> HIDE DEF F
<1>4. F[0] = st /\ \A i \in 1..n : F[i] = Apply(F[i - 1], pm, s, txs[i])
  BY <1>3
<1>5. \A i \in 0..n : F[i] \in B
  <2>1. \A i \in 1..n : F[i - 1] \in B => F[i] \in B
    BY <1>4 DEF Keep
  <2>2. F[0] \in B
    BY <1>4
  <2> QED  BY <2>1, <2>2, StepsStay
<1>6. F[n] \in B
  BY <1>5
<1> QED  BY <1>4, <1>5, <1>6 DEF GetUpdateStatusTrie, F, Keep

-----------------------------------------------------------------------------
(***************************************************************************)
(* The value in the balances after the transactions of a block.            *)
(***************************************************************************)

\* A function has finitely many values on a finite set.
LEMMA FiniteImage ==
  ASSUME NEW I, IsFiniteSet(I), NEW h
  PROVE  IsFiniteSet({h[i] : i \in I})
<1>1. PICK T : T = {h[i] : i \in I}
  OBVIOUS
<1>2. PICK f : f = [i \in I |-> h[i]]
  OBVIOUS
<1>3. f \in Surjection(I, T)
  BY <1>1, <1>2 DEF Surjection
<1>4. IsFiniteSet(T)
  BY <1>3, FS_Surjection
<1> QED  BY <1>1, <1>4

\* A sum over what a function h gives for the members of a set, each only once.
LEMMA SumReindex ==
  ASSUME NEW I, IsFiniteSet(I), NEW h, \A i, j \in I : h[i] = h[j] => i = j,
         NEW f, NEW g, \A i \in I : f[h[i]] \in Int /\ g[i] = f[h[i]]
  PROVE  /\ IsFiniteSet({h[i] : i \in I})
         /\ SumFunctionOnSet(f, {h[i] : i \in I}) = SumFunctionOnSet(g, I)
<1> DEFINE image(T) == {h[i] : i \in T}
<1> DEFINE P == {T \in SUBSET I : /\ IsFiniteSet(image(T))
                                  /\ SumFunctionOnSet(f, image(T)) = SumFunctionOnSet(g, T)}
<1>1. {} \in P
  <2>1. image({}) = {}
    OBVIOUS
  <2>2. SumFunctionOnSet(f, {}) = 0 /\ SumFunctionOnSet(g, {}) = 0 /\ IsFiniteSet({})
    BY FS_EmptySet, SumType
  <2> QED  BY <2>1, <2>2
<1>2. ASSUME NEW T \in SUBSET I, NEW x \in I \ T, T \in P PROVE T \cup {x} \in P
  <2>1. image(T \cup {x}) = image(T) \cup {h[x]} /\ h[x] \notin image(T)
    OBVIOUS
  <2>2. /\ IsFiniteSet(image(T)) /\ f[h[x]] \in Int /\ \A y \in image(T) : f[y] \in Int
        /\ IsFiniteSet(T) /\ x \notin T /\ g[x] \in Int /\ \A y \in T : g[y] \in Int
    BY <1>2, FS_Subset
  <2>3. IsFiniteSet(image(T) \cup {h[x]})
    BY <2>2, FS_AddElement
  <2> DEFINE J == image(T)
  <2>4. SumFunctionOnSet(f, J) = SumFunctionOnSet(g, T) /\ g[x] = f[h[x]]
    BY <1>2
  <2>5. J = image(T)
    OBVIOUS
  <2> HIDE DEF J
  <2>6. SumFunctionOnSet(f, J \cup {h[x]}) = SumFunctionOnSet(f, J) + f[h[x]]
    <3>1. PICK y : y = h[x]
      OBVIOUS
    <3>2. IsFiniteSet(J) /\ y \notin J /\ f[y] \in Int /\ \A z \in J : f[z] \in Int
      BY <2>1, <2>2, <2>5, <3>1
    <3>3. SumFunctionOnSet(f, J \cup {y}) = SumFunctionOnSet(f, J) + f[y]
      BY ONLY <3>2, SumAdd
    <3> QED  BY <3>1, <3>3
  <2>7. SumFunctionOnSet(g, T \cup {x}) = SumFunctionOnSet(g, T) + g[x]
    BY <2>2, SumAdd
  <2>8. SumFunctionOnSet(f, J \cup {h[x]}) = SumFunctionOnSet(g, T \cup {x})
    BY <2>4, <2>6, <2>7
  <2> QED  BY <2>1, <2>3, <2>5, <2>8
<1> HIDE DEF P
<1>3. I \in P
  BY <1>1, <1>2, SubsetInduction
<1> QED  BY <1>3 DEF P

\* The transactions of a block, each only once, join those in X: g is f on X, and e
\* on the block.
Joins(X, S, body, f, g, e) ==
  /\ IsFiniteSet(X) /\ body \in Seq(S) /\ IsInjective(body) /\ X \cap Range(body) = {}
  /\ \A x \in X : f[x] \in Int /\ g[x] = f[x]
  /\ \A i \in 1..Len(body) : e[i] \in Int /\ g[body[i]] = e[i]

\* Their values add to the sum.
LEMMA SumExtend ==
  ASSUME NEW X, NEW S, NEW body, NEW f, NEW g, NEW e, Joins(X, S, body, f, g, e)
  PROVE  /\ IsFiniteSet(X \cup Range(body))
         /\ SumFunctionOnSet(g, X \cup Range(body))
              = SumFunctionOnSet(f, X) + SumFunctionOnSet(e, 1..Len(body))
<1>0. /\ IsFiniteSet(X) /\ body \in Seq(S) /\ IsInjective(body) /\ X \cap Range(body) = {}
      /\ \A x \in X : f[x] \in Int /\ g[x] = f[x]
      /\ \A i \in 1..Len(body) : e[i] \in Int /\ g[body[i]] = e[i]
  BY DEF Joins
<1>1. PICK I, R : I = 1..Len(body) /\ R = {body[i] : i \in I}
  OBVIOUS
<1>2. Range(body) = R /\ IsFiniteSet(I)
  <2>1. Len(body) \in Nat /\ DOMAIN body = I
    BY <1>0, <1>1
  <2> QED  BY <1>1, <2>1, FS_Interval DEF Range
<1>3. \A i, j \in I : body[i] = body[j] => i = j
  BY <1>0, <1>1 DEF IsInjective
<1>4. \A i \in I : g[body[i]] \in Int /\ e[i] = g[body[i]]
  BY <1>0, <1>1
<1>5. IsFiniteSet(R) /\ SumFunctionOnSet(g, R) = SumFunctionOnSet(e, I)
  <2>1. /\ IsFiniteSet({body[i] : i \in I})
        /\ SumFunctionOnSet(g, {body[i] : i \in I}) = SumFunctionOnSet(e, I)
    BY <1>2, <1>3, <1>4, SumReindex
  <2> QED  BY <1>1, <2>1
<1>6. X \cap R = {} /\ \A x \in X \cup R : g[x] \in Int
  BY <1>0, <1>1, <1>2, <1>4
<1>7. SumFunctionOnSet(g, X \cup R) = SumFunctionOnSet(g, X) + SumFunctionOnSet(g, R)
  BY <1>0, <1>5, <1>6, SumUnion
<1>8. SumFunctionOnSet(g, X) = SumFunctionOnSet(f, X)
  BY <1>0, SumSame
<1>9. IsFiniteSet(X \cup R)
  BY <1>0, <1>5, FS_Union
<1> QED  BY <1>1, <1>2, <1>5, <1>7, <1>8, <1>9

\* What a transaction adds to the value of the accounts D in a shard or takes from it.
Gain(D, st, pm, s, tx) ==
  IF Insufficient(st, pm, s, tx) THEN 0
  ELSE (IF Local(pm, s, tx.recipient, tx) /\ tx.recipient \in D THEN tx.value ELSE 0)
       - (IF Debits(pm, s, tx) /\ tx.sender \in D THEN tx.value ELSE 0)

\* The balances of the accounts A.
Trie(A) == [A -> Int]

\* Deduct and Deposit of an account in D change the value in D by the amount.
LEMMA DepositValue ==
  ASSUME NEW A, NEW D \in SUBSET A, IsFiniteSet(D), NEW st \in Trie(A),
         NEW a \in D, NEW v \in Int
  PROVE  /\ Deposit(st, a, v) \in Trie(A) /\ Deduct(st, a, v) \in Trie(A)
         /\ SumFunctionOnSet(Deposit(st, a, v), D) = SumFunctionOnSet(st, D) + v
         /\ SumFunctionOnSet(Deduct(st, a, v), D) = SumFunctionOnSet(st, D) - v
<1>1. /\ Deposit(st, a, v) \in [A -> Int] /\ Deduct(st, a, v) \in [A -> Int]
      /\ Deposit(st, a, v)[a] = st[a] + v /\ Deduct(st, a, v)[a] = st[a] - v
      /\ \A b \in D \ {a} : Deposit(st, a, v)[b] = st[b] /\ Deduct(st, a, v)[b] = st[b]
  BY DEF Deposit, Deduct, Trie
<1>0. \A b \in D : st[b] \in Int
  BY DEF Trie
<1>2. SumFunctionOnSet(st, D) \in Int /\ st[a] \in Int
  BY <1>0, SumType
<1> DEFINE f == Deposit(st, a, v)
<1> DEFINE g == Deduct(st, a, v)
<1>3. \A b \in D : st[b] \in Int /\ f[b] \in Int /\ g[b] \in Int
  BY <1>0, <1>1
<1>4. \A b \in D \ {a} : f[b] = st[b] /\ g[b] = st[b]
  BY <1>1
<1>5. f[a] = st[a] + v /\ g[a] = st[a] - v
  BY <1>1
<1> HIDE DEF f, g
<1>6. SumFunctionOnSet(f, D) = SumFunctionOnSet(st, D) - st[a] + f[a]
  BY <1>3, <1>4, SumChange
<1>7. SumFunctionOnSet(g, D) = SumFunctionOnSet(st, D) - st[a] + g[a]
  BY <1>3, <1>4, SumChange
<1>8. SumFunctionOnSet(f, D) = SumFunctionOnSet(st, D) + v
  BY <1>2, <1>5, <1>6
<1>9. SumFunctionOnSet(g, D) = SumFunctionOnSet(st, D) - v
  BY <1>2, <1>5, <1>7
<1> QED  BY <1>1, <1>8, <1>9 DEF f, g, Trie

\* Those of an account elsewhere do not.
LEMMA DepositElsewhere ==
  ASSUME NEW A, NEW D \in SUBSET A, IsFiniteSet(D), NEW st \in Trie(A),
         NEW a \in A \ D, NEW v \in Int
  PROVE  /\ Deposit(st, a, v) \in Trie(A) /\ Deduct(st, a, v) \in Trie(A)
         /\ SumFunctionOnSet(Deposit(st, a, v), D) = SumFunctionOnSet(st, D)
         /\ SumFunctionOnSet(Deduct(st, a, v), D) = SumFunctionOnSet(st, D)
<1> DEFINE f == Deposit(st, a, v)
<1> DEFINE g == Deduct(st, a, v)
<1>1. f \in Trie(A) /\ g \in Trie(A)
  BY DEF Deposit, Deduct, Trie
<1>2. \A b \in D : st[b] \in Int /\ f[b] = st[b] /\ g[b] = st[b]
  BY DEF Deposit, Deduct, Trie
<1> HIDE DEF f, g
<1>3. SumFunctionOnSet(f, D) = SumFunctionOnSet(st, D)
  BY <1>2, SumSame
<1>4. SumFunctionOnSet(g, D) = SumFunctionOnSet(st, D)
  BY <1>2, SumSame
<1> QED  BY <1>1, <1>3, <1>4 DEF f, g

\* One transaction changes the value in D by what D gains from it.
LEMMA ApplyGain ==
  ASSUME NEW A, NEW D \in SUBSET A, IsFiniteSet(D), NEW st \in Trie(A), NEW pm, NEW s,
         NEW tx \in TxOver(A)
  PROVE  /\ Gain(D, st, pm, s, tx) \in Int
         /\ SumFunctionOnSet(Apply(st, pm, s, tx), D)
              = SumFunctionOnSet(st, D) + Gain(D, st, pm, s, tx)
<1> DEFINE v == tx.value
<1> DEFINE deb == Debits(pm, s, tx)
<1> DEFINE loc == Local(pm, s, tx.recipient, tx)
<1> DEFINE st1 == IF deb THEN Deduct(st, tx.sender, v) ELSE st
<1> DEFINE st2 == IF loc THEN Deposit(st1, tx.recipient, v) ELSE st1
<1>0. PICK a \in A, c \in A, w \in Int : a = tx.sender /\ c = tx.recipient /\ w = v
  BY DEF TxOver
<1>1. SumFunctionOnSet(st, D) \in Int
  <2>1. \A x \in D : st[x] \in Int
    BY DEF Trie
  <2> QED  BY <2>1, SumType
<1>2. /\ st1 \in Trie(A)
      /\ SumFunctionOnSet(st1, D) = SumFunctionOnSet(st, D) - (IF deb /\ a \in D THEN w ELSE 0)
  <2>1. CASE deb /\ a \in D
    <3>1. Deduct(st, a, w) \in Trie(A)
          /\ SumFunctionOnSet(Deduct(st, a, w), D) = SumFunctionOnSet(st, D) - w
      BY <2>1, DepositValue
    <3> QED  BY <1>0, <2>1, <3>1
  <2>2. CASE deb /\ a \notin D
    <3>1. Deduct(st, a, w) \in Trie(A)
          /\ SumFunctionOnSet(Deduct(st, a, w), D) = SumFunctionOnSet(st, D)
      BY <2>2, DepositElsewhere
    <3> QED  BY <1>0, <1>1, <2>2, <3>1
  <2>3. CASE ~deb
    BY <1>1, <2>3
  <2> QED  BY <2>1, <2>2, <2>3
<1>3. PICK t \in Trie(A) : t = st1
  BY <1>2
<1>4. st2 = IF loc THEN Deposit(t, c, w) ELSE t
  BY <1>0, <1>3
<1> HIDE DEF st1, st2
<1>5. SumFunctionOnSet(t, D) \in Int
  <2>1. \A x \in D : t[x] \in Int
    BY DEF Trie
  <2> QED  BY <2>1, SumType
<1>6. SumFunctionOnSet(st2, D) = SumFunctionOnSet(t, D) + (IF loc /\ c \in D THEN w ELSE 0)
  <2>1. CASE loc /\ c \in D
    <3>1. SumFunctionOnSet(Deposit(t, c, w), D) = SumFunctionOnSet(t, D) + w
      BY <2>1, DepositValue
    <3> QED  BY <1>4, <2>1, <3>1
  <2>2. CASE loc /\ c \notin D
    <3>1. SumFunctionOnSet(Deposit(t, c, w), D) = SumFunctionOnSet(t, D)
      BY <2>2, DepositElsewhere
    <3> QED  BY <1>4, <1>5, <2>2, <3>1
  <2>3. CASE ~loc
    BY <1>4, <1>5, <2>3
  <2> QED  BY <2>1, <2>2, <2>3
<1>7. Gain(D, st, pm, s, tx) = IF Insufficient(st, pm, s, tx) THEN 0
        ELSE (IF loc /\ c \in D THEN w ELSE 0) - (IF deb /\ a \in D THEN w ELSE 0)
  BY <1>0 DEF Gain
<1>8. Apply(st, pm, s, tx) = IF Insufficient(st, pm, s, tx) THEN st ELSE st2
  BY DEF Apply, st1, st2
<1> HIDE DEF v, deb, loc
<1>9. CASE Insufficient(st, pm, s, tx)
  BY <1>1, <1>7, <1>8, <1>9
<1>10. CASE ~Insufficient(st, pm, s, tx)
  BY <1>1, <1>2, <1>3, <1>5, <1>6, <1>7, <1>8, <1>10
<1> QED  BY <1>9, <1>10

\* What D gains from each transaction of a block in its place.
Gains(D, st, pm, s, txs) ==
  [i \in 1..Len(txs) |-> Gain(D, Tries(st, pm, s, txs)[i - 1], pm, s, txs[i])]

\* A block changes the value in D by what D gains from its transactions.
LEMMA BlockGain ==
  ASSUME NEW A, NEW D \in SUBSET A, IsFiniteSet(D), NEW st \in Trie(A), NEW pm, NEW s,
         NEW txs \in Seq(TxOver(A))
  PROVE  /\ \A i \in 1..Len(txs) : Gains(D, st, pm, s, txs)[i] \in Int
         /\ GetUpdateStatusTrie(st, pm, s, txs) \in Trie(A)
         /\ SumFunctionOnSet(GetUpdateStatusTrie(st, pm, s, txs), D)
              = SumFunctionOnSet(st, D)
                + SumFunctionOnSet(Gains(D, st, pm, s, txs), 1..Len(txs))
<1>1. PICK n \in Nat : n = Len(txs)
  BY LenProperties
<1> DEFINE F == Tries(st, pm, s, txs)
<1> DEFINE e == Gains(D, st, pm, s, txs)
<1> DEFINE B == [A -> Int]
<1>2. \A i \in 1..n : txs[i] \in TxOver(A)
  BY <1>1, ElementOfSeq
<1>3. /\ F[0] = st /\ F[n] = GetUpdateStatusTrie(st, pm, s, txs)
      /\ \A i \in 1..n : F[i] = Apply(F[i - 1], pm, s, txs[i])
      /\ \A i \in 0..n : F[i] \in B
  <2>1. Keep(B, pm, s, txs, n)
    BY <1>1, <1>2, ApplyType DEF Keep
  <2>3. F[n] = GetUpdateStatusTrie(st, pm, s, txs)
    BY <1>1 DEF GetUpdateStatusTrie
  <2>4. PICK C, c, t : C = B /\ c = st /\ t = txs
    OBVIOUS
  <2>5. c \in C /\ n \in Nat /\ Keep(C, pm, s, t, n)
    BY <1>1, <2>1, <2>4 DEF Trie
  <2>6. /\ Tries(c, pm, s, t)[0] = c
        /\ \A i \in 1..n :
              Tries(c, pm, s, t)[i] = Apply(Tries(c, pm, s, t)[i - 1], pm, s, t[i])
        /\ \A i \in 0..n : Tries(c, pm, s, t)[i] \in C
    BY ONLY <2>5, TriesSteps
  <2> QED  BY <2>3, <2>4, <2>6
<1>4. \A i \in 1..n : i - 1 \in 0..n
  BY <1>1
<1>5. e = [i \in 1..n |-> Gain(D, F[i - 1], pm, s, txs[i])]
  BY <1>1 DEF Gains
<1> HIDE DEF F, e
<1>6. \A i \in 1..n : /\ Gain(D, F[i - 1], pm, s, txs[i]) \in Int
                      /\ SumFunctionOnSet(F[i], D)
                           = SumFunctionOnSet(F[i - 1], D) + Gain(D, F[i - 1], pm, s, txs[i])
  <2> TAKE i \in 1..n
  <2>1. PICK b \in Trie(A) : b = F[i - 1]
    BY <1>3, <1>4 DEF Trie
  <2>2. PICK tx \in TxOver(A) : tx = txs[i]
    BY <1>2
  <2>3. /\ Gain(D, b, pm, s, tx) \in Int
        /\ SumFunctionOnSet(Apply(b, pm, s, tx), D)
             = SumFunctionOnSet(b, D) + Gain(D, b, pm, s, tx)
    BY ApplyGain
  <2> QED  BY <1>3, <2>1, <2>2, <2>3
<1>7. e \in [1..n -> Int] /\ \A i \in 1..n :
        SumFunctionOnSet(F[i], D) = SumFunctionOnSet(F[i - 1], D) + e[i]
  BY <1>5, <1>6
<1> DEFINE P == {k \in Nat : k <= n =>
       SumFunctionOnSet(F[k], D) = SumFunctionOnSet(st, D) + SumFunctionOnSet(e, 1..k)}
<1>8. SumFunctionOnSet(st, D) \in Int
  <2>1. \A a \in D : st[a] \in Int
    BY DEF Trie
  <2> QED  BY <2>1, SumType
<1>9. 0 \in P
  <2>1. 1..0 = {} /\ SumFunctionOnSet(e, {}) = 0
    BY FS_EmptySet, SumType
  <2> QED  BY <1>3, <1>8, <2>1
<1>10. ASSUME NEW k \in Nat, k \in P PROVE k + 1 \in P
  <2> SUFFICES ASSUME k + 1 <= n
               PROVE  SumFunctionOnSet(F[k + 1], D)
                        = SumFunctionOnSet(st, D) + SumFunctionOnSet(e, 1..(k + 1))
    OBVIOUS
  <2>1. k + 1 \in 1..n /\ (k + 1) - 1 = k /\ 1..(k + 1) = 1..k \cup {k + 1} /\ k + 1 \notin 1..k
        /\ 1..k \subseteq 1..n
    BY <1>1
  <2>2. IsFiniteSet(1..k)
    BY FS_Interval
  <2>3. e[k + 1] \in Int /\ \A y \in 1..k : e[y] \in Int
    BY <1>7, <2>1
  <2>4. SumFunctionOnSet(e, 1..(k + 1)) = SumFunctionOnSet(e, 1..k) + e[k + 1]
    <3>1. PICK K : K = 1..k
      OBVIOUS
    <3>2. IsFiniteSet(K) /\ k + 1 \notin K /\ \A y \in K : e[y] \in Int
      BY <2>1, <2>2, <2>3, <3>1
    <3>3. SumFunctionOnSet(e, K \cup {k + 1}) = SumFunctionOnSet(e, K) + e[k + 1]
      BY <2>3, <3>2, SumAdd
    <3> QED  BY <2>1, <3>1, <3>3
  <2>5. SumFunctionOnSet(e, 1..k) \in Int
    BY <2>2, <2>3, SumType
  <2>6. SumFunctionOnSet(F[k + 1], D) = SumFunctionOnSet(F[k], D) + e[k + 1]
    BY <1>7, <2>1
  <2>7. SumFunctionOnSet(F[k], D) = SumFunctionOnSet(st, D) + SumFunctionOnSet(e, 1..k)
    BY <1>10, <2>1
  <2> QED  BY <1>8, <2>3, <2>4, <2>5, <2>6, <2>7
<1> HIDE DEF P
<1>11. n \in P
  BY <1>9, <1>10, NumberInduction
<1>12. SumFunctionOnSet(F[n], D) = SumFunctionOnSet(st, D) + SumFunctionOnSet(e, 1..n)
  BY <1>11 DEF P
<1>13. F[n] \in B
  BY <1>3
<1> QED  BY <1>1, <1>3, <1>7, <1>12, <1>13 DEF e, Trie

\* What a transaction adds to the value in a shard or takes from it.
Effect(st, pm, s, tx) ==
  IF Insufficient(st, pm, s, tx) THEN 0
  ELSE (IF Local(pm, s, tx.recipient, tx) THEN tx.value ELSE 0)
       - (IF Debits(pm, s, tx) THEN tx.value ELSE 0)

\* The accounts that a transaction changes in a shard are in D.
Touches(D, pm, s, tx) ==
  /\ Debits(pm, s, tx) => tx.sender \in D
  /\ Local(pm, s, tx.recipient, tx) => tx.recipient \in D

\* The effect of each transaction of a block in its place.
Effects(st, pm, s, txs) ==
  [i \in 1..Len(txs) |-> Effect(Tries(st, pm, s, txs)[i - 1], pm, s, txs[i])]

\* The transactions of a block are over the accounts A and change only those in D.
Fits(A, D, pm, s, txs) ==
  /\ D \subseteq A
  /\ txs \in Seq(TxOver(A))
  /\ \A i \in 1..Len(txs) : Touches(D, pm, s, txs[i])

\* A block changes the value in D by the effects of its transactions.
LEMMA BlockValue ==
  ASSUME NEW A, NEW D, IsFiniteSet(D), NEW st \in Trie(A), NEW pm, NEW s, NEW txs,
         Fits(A, D, pm, s, txs)
  PROVE  /\ \A i \in 1..Len(txs) : Effects(st, pm, s, txs)[i] \in Int
         /\ GetUpdateStatusTrie(st, pm, s, txs) \in Trie(A)
         /\ SumFunctionOnSet(GetUpdateStatusTrie(st, pm, s, txs), D)
              = SumFunctionOnSet(st, D)
                + SumFunctionOnSet(Effects(st, pm, s, txs), 1..Len(txs))
<1>1. D \in SUBSET A /\ txs \in Seq(TxOver(A)) /\ Len(txs) \in Nat
  BY LenProperties DEF Fits
<1>2. ASSUME NEW i \in 1..Len(txs), NEW b
      PROVE  Gain(D, b, pm, s, txs[i]) = Effect(b, pm, s, txs[i])
  <2>1. Touches(D, pm, s, txs[i])
    BY DEF Fits
  <2> QED  BY <2>1 DEF Gain, Effect, Touches
<1>3. Gains(D, st, pm, s, txs) = Effects(st, pm, s, txs)
  BY <1>2 DEF Gains, Effects
<1> QED  BY <1>1, <1>3, BlockGain

-----------------------------------------------------------------------------
(***************************************************************************)
(* Sequences without repetition.                                           *)
(***************************************************************************)

\* The members of a concatenation.
LEMMA ConcatRange ==
  ASSUME NEW S, NEW p \in Seq(S), NEW q \in Seq(S)
  PROVE  p \o q \in Seq(S) /\ Range(p \o q) = Range(p) \cup Range(q)
BY ConcatProperties, RangeConcatenation

\* A concatenation has no repetition exactly when its parts have none and nothing
\* in common.
LEMMA ConcatInjective ==
  ASSUME NEW S, NEW p \in Seq(S), NEW q \in Seq(S)
  PROVE  IsInjective(p \o q) <=>
           IsInjective(p) /\ IsInjective(q) /\ Range(p) \cap Range(q) = {}
<1>1. /\ Len(p) \in Nat /\ Len(q) \in Nat
      /\ DOMAIN p = 1..Len(p) /\ DOMAIN q = 1..Len(q) /\ DOMAIN (p \o q) = 1..(Len(p) + Len(q))
      /\ \A i \in 1..(Len(p) + Len(q)) :
           (p \o q)[i] = IF i <= Len(p) THEN p[i] ELSE q[i - Len(p)]
  BY ConcatProperties, LenProperties
<1>2. \A i \in 1..Len(p) : i \in 1..(Len(p) + Len(q)) /\ (p \o q)[i] = p[i]
  BY <1>1
<1>3. \A i \in 1..Len(q) : Len(p) + i \in 1..(Len(p) + Len(q)) /\ (p \o q)[Len(p) + i] = q[i]
  <2> TAKE i \in 1..Len(q)
  <2>1. Len(p) + i \in 1..(Len(p) + Len(q)) /\ ~(Len(p) + i <= Len(p)) /\ (Len(p) + i) - Len(p) = i
    BY <1>1
  <2> QED  BY <1>1, <2>1
<1>4. ASSUME IsInjective(p \o q)
      PROVE  IsInjective(p) /\ IsInjective(q) /\ Range(p) \cap Range(q) = {}
  <2>1. \A i, j \in 1..(Len(p) + Len(q)) : (p \o q)[i] = (p \o q)[j] => i = j
    BY <1>1, <1>4 DEF IsInjective
  <2>2. IsInjective(p)
    BY <1>1, <1>2, <2>1 DEF IsInjective
  <2>3. IsInjective(q)
    <3>1. SUFFICES ASSUME NEW i \in 1..Len(q), NEW j \in 1..Len(q), q[i] = q[j] PROVE i = j
      BY <1>1 DEF IsInjective
    <3>2. Len(p) + i = Len(p) + j
      BY <1>3, <2>1, <3>1
    <3> QED  BY <1>1, <3>2
  <2>4. ASSUME NEW x \in Range(p), x \in Range(q) PROVE FALSE
    <3>1. PICK i \in 1..Len(p) : x = p[i]
      BY <1>1 DEF Range
    <3>2. PICK j \in 1..Len(q) : x = q[j]
      BY <1>1, <2>4 DEF Range
    <3>3. i = Len(p) + j
      BY <1>2, <1>3, <2>1, <3>1, <3>2, ZenonT(30)
    <3> QED  BY <1>1, <3>3
  <2> QED  BY <2>2, <2>3, <2>4
<1>5. ASSUME IsInjective(p), IsInjective(q), Range(p) \cap Range(q) = {}
      PROVE  IsInjective(p \o q)
  <2>1. /\ \A i, j \in 1..Len(p) : p[i] = p[j] => i = j
        /\ \A i, j \in 1..Len(q) : q[i] = q[j] => i = j
        /\ \A i \in 1..Len(p), j \in 1..Len(q) : p[i] # q[j]
    <3>1. \A i, j \in 1..Len(p) : p[i] = p[j] => i = j
      BY <1>1, <1>5 DEF IsInjective
    <3>2. \A i, j \in 1..Len(q) : q[i] = q[j] => i = j
      BY <1>1, <1>5 DEF IsInjective
    <3>3. ASSUME NEW i \in 1..Len(p), NEW j \in 1..Len(q) PROVE p[i] # q[j]
      <4>1. p[i] \in Range(p) /\ q[j] \in Range(q)
        BY <1>1 DEF Range
      <4> QED  BY <1>5, <4>1
    <3> QED  BY <3>1, <3>2, <3>3
  <2>2. SUFFICES ASSUME NEW i \in 1..(Len(p) + Len(q)), NEW j \in 1..(Len(p) + Len(q)),
                        (p \o q)[i] = (p \o q)[j]
                 PROVE  i = j
    BY <1>1 DEF IsInjective
  <2>3. /\ IF i <= Len(p) THEN i \in 1..Len(p) ELSE i - Len(p) \in 1..Len(q)
        /\ IF j <= Len(p) THEN j \in 1..Len(p) ELSE j - Len(p) \in 1..Len(q)
    BY <1>1
  <2>4. /\ (p \o q)[i] = IF i <= Len(p) THEN p[i] ELSE q[i - Len(p)]
        /\ (p \o q)[j] = IF j <= Len(p) THEN p[j] ELSE q[j - Len(p)]
    BY <1>1
  <2>5. CASE i <= Len(p) /\ j <= Len(p)
    BY <2>1, <2>2, <2>3, <2>4, <2>5
  <2>6. CASE i <= Len(p) /\ ~(j <= Len(p))
    BY <2>1, <2>2, <2>3, <2>4, <2>6
  <2>7. CASE ~(i <= Len(p)) /\ j <= Len(p)
    BY <2>1, <2>2, <2>3, <2>4, <2>7
  <2>8. CASE ~(i <= Len(p)) /\ ~(j <= Len(p))
    <3>1. i - Len(p) = j - Len(p)
      BY <2>1, <2>2, <2>3, <2>4, <2>8
    <3> QED  BY <1>1, <3>1
  <2> QED  BY <2>5, <2>6, <2>7, <2>8
<1> QED  BY <1>4, <1>5

\* A queue is its head and its rest.
LEMMA SplitSeq ==
  ASSUME NEW S, NEW q \in Seq(S), NEW k \in 0..Len(q)
  PROVE  /\ SubSeq(q, 1, k) \in Seq(S) /\ Len(SubSeq(q, 1, k)) = k
         /\ SubSeq(q, k + 1, Len(q)) \in Seq(S)
         /\ SubSeq(q, 1, k) \o SubSeq(q, k + 1, Len(q)) = q
<1>1. Len(q) \in Nat /\ 1 \in 1..(Len(q) + 1) /\ k \in (1 - 1)..Len(q) /\ Len(q) \in k..Len(q)
  OBVIOUS
<1>2. SubSeq(q, 1, k) \o SubSeq(q, k + 1, Len(q)) = SubSeq(q, 1, Len(q))
  BY <1>1, ConcatAdjacentSubSeq
<1>3. SubSeq(q, 1, Len(q)) = q
  BY SubSeqFull
<1>4. \A i \in 1..Len(q) : q[i] \in S
  BY ElementOfSeq
<1>5. SubSeq(q, 1, k) \in Seq(S) /\ Len(SubSeq(q, 1, k)) = k
  <2>1. \A i \in 1..k : q[i] \in S
    BY <1>1, <1>4
  <2>2. /\ SubSeq(q, 1, k) \in Seq(S)
        /\ Len(SubSeq(q, 1, k)) = IF 1 <= k THEN k - 1 + 1 ELSE 0
    BY <1>1, <2>1, SubSeqProperties
  <2> QED  BY <1>1, <2>2
<1>6. SubSeq(q, k + 1, Len(q)) \in Seq(S)
  <2>1. \A i \in (k + 1)..Len(q) : q[i] \in S
    BY <1>1, <1>4
  <2> QED  BY <1>1, <2>1, SubSeqProperties
<1> QED  BY <1>2, <1>3, <1>5, <1>6

-----------------------------------------------------------------------------
(***************************************************************************)
(* The operators of TxPool.                                                *)
(***************************************************************************)

\* What PackTxs takes and AfterPack leaves is the queue.
LEMMA PackSplits ==
  ASSUME NEW S, NEW q \in Seq(S), NEW n \in Nat
  PROVE  /\ PackTxs(q, n) \in Seq(S) /\ AfterPack(q, n) \in Seq(S)
         /\ PackTxs(q, n) \o AfterPack(q, n) = q
<1>1. PICK k \in 0..Len(q) : k = IF Len(q) < n THEN Len(q) ELSE n
  OBVIOUS
<1>2. /\ SubSeq(q, 1, k) \in Seq(S) /\ Len(SubSeq(q, 1, k)) = k
      /\ SubSeq(q, k + 1, Len(q)) \in Seq(S)
      /\ SubSeq(q, 1, k) \o SubSeq(q, k + 1, Len(q)) = q
  BY SplitSeq
<1>3. PackTxs(q, n) = SubSeq(q, 1, k)
  BY <1>1 DEF PackTxs
<1>4. AfterPack(q, n) = SubSeq(q, k + 1, Len(q))
  BY <1>2, <1>3 DEF AfterPack
<1> QED  BY <1>2, <1>3, <1>4

\* The parts that Select has collected after each transaction.
SelectsBy(f, S, txs, T) ==
  /\ f \in [0..Len(txs) -> Seq(S)]
  /\ f[0] = <<>> /\ Select(txs, T) = f[Len(txs)]
  /\ \A i \in 1..Len(txs) :
       f[i] = IF txs[i] \in T THEN Append(f[i - 1], txs[i]) ELSE f[i - 1]

\* Select looks at one transaction after the other.
LEMMA SelectSteps ==
  ASSUME NEW S, NEW txs \in Seq(S), NEW T
  PROVE  \E f : SelectsBy(f, S, txs, T)
<1> DEFINE Eq(g) == g = [i \in 0..Len(txs) |->
                           IF i = 0 THEN <<>>
                           ELSE IF txs[i] \in T THEN Append(g[i - 1], txs[i]) ELSE g[i - 1]]
<1>1. PICK n \in Nat : n = Len(txs)
  OBVIOUS
<1>2. \A i \in 1..n : txs[i] \in S
  BY <1>1
<1>3. PICK B, c : B = Seq(S) /\ c = <<>>
  OBVIOUS
<1>4. PICK step \in Steps(B, n) : \A b \in B : \A i \in 1..n :
        step[i][b] = IF txs[i] \in T THEN Append(b, txs[i]) ELSE b
  <2> DEFINE e == [i \in 1..n |-> [b \in B |-> IF txs[i] \in T THEN Append(b, txs[i]) ELSE b]]
  <2>1. \A i \in 1..n : \A b \in B : Append(b, txs[i]) \in B
    BY <1>2, <1>3, AppendProperties
  <2>2. e \in Steps(B, n)
    BY <2>1 DEF Steps
  <2>3. \A b \in B : \A i \in 1..n : e[i][b] = IF txs[i] \in T THEN Append(b, txs[i]) ELSE b
    OBVIOUS
  <2> HIDE DEF e
  <2> QED  BY <2>2, <2>3
<1>5. c \in B
  BY <1>3, EmptySeq
<1>6. \E f : Follows(f, B, c, n, step)
  BY <1>5, RecursionExists
<1>7. PICK f \in [0..n -> B] : f[0] = c /\ \A i \in 1..n : f[i] = step[i][f[i - 1]]
  BY <1>6 DEF Follows
<1>8. \A i \in 1..n : f[i - 1] \in B
  <2>1. \A i \in 1..n : i - 1 \in 0..n
    OBVIOUS
  <2> QED  BY <2>1
<1>9. \A i \in 1..n : f[i] = IF txs[i] \in T THEN Append(f[i - 1], txs[i]) ELSE f[i - 1]
  BY <1>4, <1>7, <1>8
<1> DEFINE F == CHOOSE g : Eq(g)
<1>10. Eq(f)
  <2>1. f = [i \in 0..n |-> f[i]]
    OBVIOUS
  <2>2. f[0] = <<>>
    BY <1>3, <1>7
  <2>3. ASSUME NEW i \in 0..n
        PROVE  f[i] = IF i = 0 THEN <<>>
                      ELSE IF txs[i] \in T THEN Append(f[i - 1], txs[i]) ELSE f[i - 1]
    <3>1. CASE i = 0
      BY <2>2, <3>1
    <3>2. CASE i # 0
      <4>1. i \in 1..n
        BY <3>2
      <4> QED  BY <1>9, <3>2, <4>1, Zenon
    <3> QED  BY <3>1, <3>2
  <2>4. f = [i \in 0..n |-> IF i = 0 THEN <<>>
               ELSE IF txs[i] \in T THEN Append(f[i - 1], txs[i]) ELSE f[i - 1]]
    BY <2>1, <2>3, Zenon
  <2> QED  BY <1>1, <2>4
<1>11. Eq(F)
  <2>1. F = CHOOSE g : Eq(g)
    OBVIOUS
  <2> HIDE DEF Eq, F
  <2> QED  BY <1>10, <2>1
<1>12. Select(txs, T) = F[Len(txs)]
  BY DEF Select
<1> HIDE DEF F
<1>13. /\ F[0] = <<>>
       /\ \A i \in 1..n : F[i] = IF txs[i] \in T THEN Append(F[i - 1], txs[i]) ELSE F[i - 1]
       /\ F = [i \in 0..n |-> F[i]]
  <2>1. F = [i \in 0..n |-> IF i = 0 THEN <<>>
               ELSE IF txs[i] \in T THEN Append(F[i - 1], txs[i]) ELSE F[i - 1]]
    BY <1>1, <1>11
  <2> HIDE DEF Eq
  <2>2. F[0] = <<>> /\ F = [i \in 0..n |-> F[i]]
    BY <2>1
  <2>3. ASSUME NEW i \in 1..n
        PROVE  F[i] = IF txs[i] \in T THEN Append(F[i - 1], txs[i]) ELSE F[i - 1]
    <3>1. i \in 0..n /\ i # 0
      OBVIOUS
    <3> QED  BY <2>1, <3>1, Zenon
  <2> QED  BY <2>2, <2>3
<1>14. \A i \in 0..n : F[i] \in Seq(S)
  <2>1. ASSUME NEW i \in 1..n, F[i - 1] \in B PROVE F[i] \in B
    <3>1. PICK p \in Seq(S) : p = F[i - 1]
      BY <1>3, <2>1
    <3>2. PICK x \in S : x = txs[i]
      BY <1>2
    <3>3. Append(p, x) \in Seq(S)
      BY AppendProperties
    <3> QED  BY <1>3, <1>13, <3>1, <3>2, <3>3
  <2>2. F[0] \in B
    BY <1>3, <1>5, <1>13
  <2>3. \A i \in 0..n : F[i] \in B
    BY <2>1, <2>2, StepsStay
  <2> QED  BY <1>3, <2>3
<1>15. F \in [0..n -> Seq(S)]
  BY <1>13, <1>14
<1>16. SelectsBy(F, S, txs, T)
  BY <1>1, <1>12, <1>13, <1>15 DEF SelectsBy
<1> QED  BY <1>16

\* Select gives the members in T, and repeats nothing that was not repeated.
LEMMA SelectProperties ==
  ASSUME NEW S, NEW txs \in Seq(S), NEW T
  PROVE  /\ Select(txs, T) \in Seq(S)
         /\ Range(Select(txs, T)) = Range(txs) \cap T
         /\ IsInjective(txs) => IsInjective(Select(txs, T))
<1>1. PICK n \in Nat : n = Len(txs)
  OBVIOUS
<1>0. PICK f : SelectsBy(f, S, txs, T)
  BY SelectSteps
<1>2. /\ f \in [0..Len(txs) -> Seq(S)]
      /\ f[0] = <<>> /\ Select(txs, T) = f[Len(txs)]
      /\ \A i \in 1..Len(txs) :
           f[i] = IF txs[i] \in T THEN Append(f[i - 1], txs[i]) ELSE f[i - 1]
  BY <1>0 DEF SelectsBy
<1> DEFINE seen(k) == {txs[j] : j \in 1..k}
<1> DEFINE P == {k \in Nat : k <= n =>
                   /\ Range(f[k]) = seen(k) \cap T
                   /\ IsInjective(txs) => IsInjective(f[k])}
<1>3. 0 \in P
  <2>1. Range(<<>>) = {} /\ IsInjective(<<>>) /\ seen(0) = {}
    BY DEF Range, IsInjective
  <2> QED  BY <1>2, <2>1
<1>4. ASSUME NEW k \in Nat, k \in P PROVE k + 1 \in P
  <2> SUFFICES ASSUME k + 1 <= n
               PROVE  /\ Range(f[k + 1]) = seen(k + 1) \cap T
                      /\ IsInjective(txs) => IsInjective(f[k + 1])
    OBVIOUS
  <2>1. /\ k + 1 \in 1..Len(txs) /\ (k + 1) - 1 = k /\ k \in 0..Len(txs)
        /\ 1..(k + 1) = 1..k \cup {k + 1} /\ 1..k \subseteq 1..Len(txs) /\ k + 1 \notin 1..k
    BY <1>1
  <2>2. PICK x \in S : x = txs[k + 1]
    BY <2>1
  <2>3. PICK p \in Seq(S) : p = f[k]
    BY <1>2, <2>1
  <2>4. f[k + 1] = IF x \in T THEN Append(p, x) ELSE p
    BY <1>2, <2>1, <2>2, <2>3
  <2>5. /\ Range(p) = seen(k) \cap T /\ (IsInjective(txs) => IsInjective(p))
        /\ seen(k + 1) = seen(k) \cup {x}
    BY <1>1, <1>4, <2>1, <2>2, <2>3
  <2>6. IsInjective(txs) => x \notin seen(k)
    <3>1. DOMAIN txs = 1..Len(txs)
      OBVIOUS
    <3> QED  BY <2>1, <2>2, <3>1 DEF IsInjective
  <2> HIDE DEF seen
  <2>7. CASE x \notin T
    BY <2>4, <2>5, <2>7
  <2>8. CASE x \in T
    <3>1. <<x>> \in Seq(S) /\ Append(p, x) = p \o <<x>>
      BY AppendIsConcat
    <3>2. Range(<<x>>) = {x} /\ IsInjective(<<x>>)
      <4>1. DOMAIN <<x>> = {1} /\ <<x>>[1] = x
        OBVIOUS
      <4> HIDE DEF seen
      <4> QED  BY <4>1 DEF Range, IsInjective
    <3>3. PICK q \in Seq(S) : q = <<x>>
      BY <3>1
    <3>4. /\ Range(p \o q) = Range(p) \cup Range(q)
          /\ IsInjective(p \o q) <=>
               IsInjective(p) /\ IsInjective(q) /\ Range(p) \cap Range(q) = {}
      BY ConcatRange, ConcatInjective
    <3>5. Range(q) = {x} /\ IsInjective(q) /\ f[k + 1] = p \o q
      BY <2>4, <2>8, <3>1, <3>2, <3>3
    <3>6. Range(f[k + 1]) = seen(k + 1) \cap T
      BY <2>5, <2>8, <3>4, <3>5
    <3>7. IsInjective(txs) => IsInjective(f[k + 1])
      BY <2>5, <2>6, <3>4, <3>5
    <3> QED  BY <3>6, <3>7
  <2> QED  BY <2>7, <2>8
<1> HIDE DEF P
<1>5. n \in P
  BY <1>3, <1>4, NumberInduction
<1>6. /\ Range(f[n]) = seen(n) \cap T
      /\ IsInjective(txs) => IsInjective(f[n])
  BY <1>5 DEF P
<1>7. seen(n) = Range(txs) /\ n \in 0..Len(txs)
  BY <1>1 DEF Range
<1> QED  BY <1>1, <1>2, <1>6, <1>7
=============================================================================
