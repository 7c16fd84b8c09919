----------------------------- MODULE DataLemmas -----------------------------
(***************************************************************************)
(* Facts about numbers, largest elements and sums that the proofs of the   *)
(* other modules need.  Induction is done with sets: a set of numbers that *)
(* has 0 and is closed under successor has all of them, which follows from *)
(* the order of the numbers being well-founded.                            *)
(***************************************************************************)
EXTENDS Integers, FiniteSets, Functions,
        FiniteSetTheorems, WellFoundedInduction, NaturalsInduction, TLAPS

\* A set of numbers has a least one.
LEMMA LeastOfSet ==
  ASSUME NEW T \in SUBSET Nat, T # {}
  PROVE  \E n \in T : \A m \in T : n <= m
<1>1. PICK n \in T : \A m \in T : ~ (<<m, n>> \in OpToRel(<, Nat))
  BY WFMin, NatLessThanWellFounded, Zenon
<1>2. \A m \in T : ~ (m < n)
  BY <1>1 DEF OpToRel
<1> QED
  BY <1>2

\* Induction over the numbers, said of a set of them.
LEMMA SetInduction ==
  ASSUME NEW Good \in SUBSET Nat, 0 \in Good, \A n \in Good : n + 1 \in Good
  PROVE  Good = Nat
<1> SUFFICES ASSUME Nat \ Good # {} PROVE FALSE
  OBVIOUS
<1>1. PICK n \in Nat \ Good : \A m \in Nat \ Good : n <= m
  BY LeastOfSet
<1>2. n - 1 \in Good
  BY <1>1
<1> QED
  BY <1>1, <1>2

-----------------------------------------------------------------------------
(* Sums                                                                    *)

\* The function that SumFunction computes: the sums over the subsets of the
\* domain, each taken from that of one element less.
PartialSums(w) ==
  CHOOSE iter : iter = [s \in SUBSET (DOMAIN w) |->
    IF s = {} THEN 0
    ELSE w[CHOOSE x \in s : TRUE] + iter[s \ {CHOOSE x \in s : TRUE}]]

LEMMA SumIsPartialSum == ASSUME NEW w PROVE SumFunction(w) = PartialSums(w)[DOMAIN w]
  BY Zenon DEF SumFunction, SumFunctionOnSet, FoldFunctionOnSet, MapThenFoldSet, PartialSums

\* iter sums up w on the sets of family F.
Sums(iter, w, F) ==
  \A s \in F : iter[s] = IF s = {} THEN 0
                         ELSE w[CHOOSE x \in s : TRUE] + iter[s \ {CHOOSE x \in s : TRUE}]

\* The subsets of D with at most n elements.
UpTo(D, n) == {s \in SUBSET D : Cardinality(s) <= n}

LEMMA SmallerSet ==
  ASSUME NEW D, IsFiniteSet(D), NEW s \in SUBSET D, s # {}
  PROVE  /\ (CHOOSE x \in s : TRUE) \in s
         /\ \A x \in s : /\ s \ {x} \in SUBSET D
                         /\ Cardinality(s) \in Nat \ {0}
                         /\ Cardinality(s \ {x}) = Cardinality(s) - 1
<1>1. IsFiniteSet(s)
  BY FS_Subset
<1>2. Cardinality(s) \in Nat /\ Cardinality(s) # 0
  BY <1>1, FS_CardinalityType, FS_EmptySet
<1>3. \A x \in s : Cardinality(s \ {x}) = Cardinality(s) - 1
  BY <1>1, FS_RemoveElement
<1> QED
  BY <1>2, <1>3

\* There is such a function for sets of every size, hence for all sets.
LEMMA SumsExist ==
  ASSUME NEW D, IsFiniteSet(D), NEW w, D = DOMAIN w
  PROVE  Sums(PartialSums(w), w, SUBSET D)
<1> DEFINE one(s) == CHOOSE x \in s : TRUE
           Solved(n) == \E g : /\ g = [s \in UpTo(D, n) |-> g[s]]
                            /\ Sums(g, w, UpTo(D, n))
           Sizes == {n \in Nat : Solved(n)}
<1>1. Solved(0)
  <2> DEFINE g == [s \in UpTo(D, 0) |-> 0]
  <2>1. \A s \in UpTo(D, 0) : s = {}
    BY FS_Subset, FS_CardinalityType, FS_EmptySet DEF UpTo
  <2>2. Sums(g, w, UpTo(D, 0))
    BY <2>1 DEF Sums
  <2> QED
    BY <2>2
<1>2. ASSUME NEW n \in Sizes PROVE Solved(n + 1)
  <2>1. PICK g : g = [s \in UpTo(D, n) |-> g[s]] /\ Sums(g, w, UpTo(D, n))
    OBVIOUS
  <2> DEFINE h == [s \in UpTo(D, n + 1) |->
                     IF s \in UpTo(D, n) THEN g[s] ELSE w[one(s)] + g[s \ {one(s)}]]
  <2>2. UpTo(D, n) \subseteq UpTo(D, n + 1)
    BY FS_Subset, FS_CardinalityType DEF UpTo
  <2>3. ASSUME NEW s \in UpTo(D, n + 1), s # {} PROVE s \ {one(s)} \in UpTo(D, n)
    <3>1. s \in SUBSET D /\ Cardinality(s) <= n + 1 /\ n \in Nat
      BY DEF UpTo
    <3>2. /\ one(s) \in s
          /\ \A x \in s : /\ s \ {x} \in SUBSET D
                          /\ Cardinality(s) \in Nat \ {0}
                          /\ Cardinality(s \ {x}) = Cardinality(s) - 1
      BY <3>1, <2>3, SmallerSet
    <3>3. PICK x \in s : x = one(s)
      BY <3>2
    <3>4. s \ {x} \in SUBSET D /\ Cardinality(s \ {x}) <= n
      BY <3>1, <3>2
    <3> QED
      BY <3>3, <3>4 DEF UpTo
  <2>4. {} \in UpTo(D, n)
    BY FS_EmptySet DEF UpTo
  <2>5. ASSUME NEW s \in UpTo(D, n + 1)
        PROVE  h[s] = IF s = {} THEN 0 ELSE w[one(s)] + h[s \ {one(s)}]
    <3>1. CASE s = {}
      BY <3>1, <2>1, <2>4, <2>2 DEF Sums
    <3>2. CASE s # {} /\ s \in UpTo(D, n)
      <4>1. h[s] = g[s] /\ g[s] = w[one(s)] + g[s \ {one(s)}]
        BY <3>2, <2>1 DEF Sums
      <4>2. h[s \ {one(s)}] = g[s \ {one(s)}]
        BY <2>3, <2>2, <3>2
      <4> QED
        BY <4>1, <4>2, <3>2
    <3>3. CASE s # {} /\ s \notin UpTo(D, n)
      <4>1. h[s] = w[one(s)] + g[s \ {one(s)}]
        BY <3>3
      <4>2. h[s \ {one(s)}] = g[s \ {one(s)}]
        BY <2>3, <2>2, <3>3
      <4> QED
        BY <4>1, <4>2, <3>3
    <3> QED
      BY <3>1, <3>2, <3>3
  <2>6. Sums(h, w, UpTo(D, n + 1))
    BY <2>5 DEF Sums
  <2> QED
    BY <2>6
<1>3. Sizes = Nat
  <2>1. Sizes \in SUBSET Nat /\ 0 \in Sizes
    BY <1>1
  <2>2. \A n \in Sizes : n + 1 \in Sizes
    BY <1>2
  <2> HIDE DEF Sizes
  <2> QED
    BY <2>1, <2>2, SetInduction
<1>4. UpTo(D, Cardinality(D)) = SUBSET D
  BY FS_Subset, FS_CardinalityType DEF UpTo
<1>5. Cardinality(D) \in Nat
  BY FS_CardinalityType
<1>6. PICK g : g = [s \in SUBSET D |-> g[s]] /\ Sums(g, w, SUBSET D)
  <2>1. Cardinality(D) \in Sizes
    BY <1>3, <1>5
  <2>2. Solved(Cardinality(D))
    BY <2>1
  <2> QED
    BY <2>2, <1>4
<1> DEFINE Table(iter) == [s \in SUBSET (DOMAIN w) |->
             IF s = {} THEN 0
             ELSE w[CHOOSE x \in s : TRUE] + iter[s \ {CHOOSE x \in s : TRUE}]]
<1>7. g = Table(g)
  BY <1>6 DEF Sums
<1>8. PartialSums(w) = CHOOSE iter : iter = Table(iter)
  BY DEF PartialSums
<1>9. PartialSums(w) = Table(PartialSums(w))
  <2> HIDE DEF Table
  <2> QED
    BY <1>7, <1>8
<1> QED
  BY <1>9 DEF Sums

\* Induction over the subsets of a finite set.
LEMMA SubsetInduction ==
  ASSUME NEW D, IsFiniteSet(D), NEW Good \in SUBSET (SUBSET D),
         {} \in Good,
         \A s \in SUBSET D : (s # {} /\ \A x \in s : s \ {x} \in Good) => s \in Good
  PROVE  Good = SUBSET D
<1> DEFINE Bad == (SUBSET D) \ Good
           Sizes == {n \in Nat : \E s \in Bad : Cardinality(s) = n}
<1> SUFFICES ASSUME Bad # {} PROVE FALSE
  OBVIOUS
<1>1. \A s \in Bad : Cardinality(s) \in Nat
  BY FS_Subset, FS_CardinalityType
<1>2. Sizes \in SUBSET Nat /\ Sizes # {}
  BY <1>1
<1>3. PICK n \in Sizes : \A m \in Sizes : n <= m
  <2> HIDE DEF Sizes
  <2> QED
    BY <1>2, LeastOfSet
<1>4. PICK s \in Bad : Cardinality(s) = n
  BY <1>3
<1>5. s # {}
  OBVIOUS
<1>6. PICK x \in s : s \ {x} \in Bad
  BY <1>5
<1>7. Cardinality(s \ {x}) = Cardinality(s) - 1
  BY <1>5, SmallerSet
<1>8. n - 1 \in Sizes
  <2>1. Cardinality(s \ {x}) = n - 1 /\ n - 1 \in Nat
    BY <1>1, <1>4, <1>6, <1>7
  <2> QED
    BY <2>1, <1>6
<1> QED
  BY <1>8, <1>3, <1>2

\* Sums of natural numbers are natural numbers, and any element may be the
\* one that is left out first.
LEMMA PartialSumsAdd ==
  ASSUME NEW D, IsFiniteSet(D), NEW w \in [D -> Nat]
  PROVE  /\ PartialSums(w)[{}] = 0
         /\ \A s \in SUBSET D : PartialSums(w)[s] \in Nat
         /\ \A s \in SUBSET D : \A x \in s :
              PartialSums(w)[s] = w[x] + PartialSums(w)[s \ {x}]
<1> DEFINE S == PartialSums(w)
           one(s) == CHOOSE x \in s : TRUE
           Good == {s \in SUBSET D : /\ S[s] \in Nat
                                     /\ \A x \in s : /\ S[s \ {x}] \in Nat
                                                      /\ S[s] = w[x] + S[s \ {x}]}
<1>1. Sums(S, w, SUBSET D)
  BY SumsExist
<1>2. S[{}] = 0
  BY <1>1 DEF Sums
<1> HIDE DEF S
<1>3. ASSUME NEW s \in SUBSET D, s # {}, \A x \in s : s \ {x} \in Good
      PROVE  s \in Good
  <2>1. PICK c \in s : c = one(s)
    BY <1>3, SmallerSet
  <2>2. S[s] = w[c] + S[s \ {c}]
    BY <1>1, <1>3, <2>1 DEF Sums
  <2>3. w[c] \in Nat /\ S[s \ {c}] \in Nat
    BY <1>3
  <2>4. ASSUME NEW x \in s PROVE S[s] = w[x] + S[s \ {x}]
    <3>1. CASE x = c
      BY <3>1, <2>2
    <3>2. CASE x # c
      <4>1. x \in s \ {c} /\ c \in s \ {x} /\ (s \ {c}) \ {x} = (s \ {x}) \ {c}
        BY <3>2
      <4>2. S[s \ {c}] = w[x] + S[(s \ {c}) \ {x}]
        BY <4>1, <1>3
      <4>3. S[s \ {x}] = w[c] + S[(s \ {x}) \ {c}]
        BY <4>1, <1>3
      <4>4. w[x] \in Nat /\ S[s \ {x}] \in Nat
        BY <1>3
      <4>5. S[(s \ {x}) \ {c}] \in Nat
        BY <4>1, <1>3
      <4> QED
        BY <2>2, <2>3, <4>1, <4>2, <4>3, <4>4, <4>5
    <3> QED
      BY <3>1, <3>2
  <2>5. \A x \in s : S[s \ {x}] \in Nat
    BY <1>3
  <2> QED
    BY <2>2, <2>3, <2>4, <2>5
<1>4. Good = SUBSET D
  <2>1. Good \in SUBSET (SUBSET D) /\ {} \in Good
    BY <1>2
  <2>2. \A s \in SUBSET D : (s # {} /\ \A x \in s : s \ {x} \in Good) => s \in Good
    BY <1>3
  <2> HIDE DEF Good
  <2> QED
    BY <2>1, <2>2, SubsetInduction
<1> QED
  BY <1>2, <1>4 DEF S

LEMMA SumOfNumbers ==
  ASSUME NEW D, IsFiniteSet(D), NEW w \in [D -> Nat]
  PROVE  SumFunction(w) \in Nat
  BY SumIsPartialSum, PartialSumsAdd

\* One less at one place is one less in all.
LEMMA SumOfOneLess ==
  ASSUME NEW D, IsFiniteSet(D), NEW w \in [D -> Nat], NEW c \in D, w[c] > 0
  PROVE  /\ [w EXCEPT ![c] = @ - 1] \in [D -> Nat]
         /\ SumFunction([w EXCEPT ![c] = @ - 1]) = SumFunction(w) - 1
<1> DEFINE v == [w EXCEPT ![c] = @ - 1]
           S == PartialSums(w)
           R == PartialSums(v)
           Good == {s \in SUBSET D : c \notin s => R[s] = S[s]}
<1>1. v \in [D -> Nat] /\ v[c] = w[c] - 1 /\ \A x \in D : x # c => v[x] = w[x]
  OBVIOUS
<1>2. /\ S[{}] = 0
      /\ \A s \in SUBSET D : S[s] \in Nat
      /\ \A s \in SUBSET D : \A x \in s : S[s] = w[x] + S[s \ {x}]
  BY PartialSumsAdd
<1>3. /\ R[{}] = 0
      /\ \A s \in SUBSET D : R[s] \in Nat
      /\ \A s \in SUBSET D : \A x \in s : R[s] = v[x] + R[s \ {x}]
  <2> HIDE DEF v
  <2> QED
    BY <1>1, PartialSumsAdd
<1>4. SumFunction(w) = S[D] /\ SumFunction(v) = R[D]
  BY <1>1, SumIsPartialSum
<1> HIDE DEF v, S, R
<1>5. ASSUME NEW s \in SUBSET D, s # {}, \A x \in s : s \ {x} \in Good
      PROVE  s \in Good
  <2> SUFFICES ASSUME c \notin s PROVE R[s] = S[s]
    OBVIOUS
  <2>1. PICK x \in s : TRUE
    BY <1>5
  <2>2. x \in D /\ x # c /\ R[s \ {x}] = S[s \ {x}]
    BY <1>5
  <2> QED
    BY <2>2, <1>1, <1>2, <1>3
<1>6. Good = SUBSET D
  <2>1. Good \in SUBSET (SUBSET D) /\ {} \in Good
    BY <1>2, <1>3
  <2>2. \A s \in SUBSET D : (s # {} /\ \A x \in s : s \ {x} \in Good) => s \in Good
    BY <1>5
  <2> HIDE DEF Good
  <2> QED
    BY <2>1, <2>2, SubsetInduction
<1>7. R[D \ {c}] = S[D \ {c}] /\ S[D \ {c}] \in Nat
  <2>1. D \ {c} \in Good
    BY <1>6
  <2> QED
    BY <2>1, <1>2
<1>8. S[D] = w[c] + S[D \ {c}] /\ R[D] = v[c] + R[D \ {c}]
  BY <1>2, <1>3
<1>9. SumFunction(v) = SumFunction(w) - 1
  BY <1>1, <1>4, <1>7, <1>8
<1> QED
  BY <1>1, <1>9, Zenon DEF v

\* The sum of four numbers.
LEMMA SumOfFour ==
  ASSUME NEW a, NEW b, NEW c, NEW d, a # b, a # c, a # d, b # c, b # d, c # d,
         NEW D, D = {a, b, c, d}, NEW w \in [D -> Nat]
  PROVE  SumFunction(w) = w[a] + w[b] + w[c] + w[d]
<1> DEFINE S == PartialSums(w)
<1>1. IsFiniteSet(D)
  <2>1. IsFiniteSet({d})
    BY FS_Singleton
  <2>2. IsFiniteSet({d} \cup {c})
    BY <2>1, FS_AddElement
  <2>3. IsFiniteSet(({d} \cup {c}) \cup {b})
    BY <2>2, FS_AddElement
  <2>4. IsFiniteSet((({d} \cup {c}) \cup {b}) \cup {a})
    BY <2>3, FS_AddElement
  <2>5. D = (({d} \cup {c}) \cup {b}) \cup {a}
    OBVIOUS
  <2> QED
    BY <2>4, <2>5, Zenon
<1>2. /\ S[{}] = 0
      /\ \A s \in SUBSET D : S[s] \in Nat
      /\ \A s \in SUBSET D : \A x \in s : S[s] = w[x] + S[s \ {x}]
  BY <1>1, PartialSumsAdd
<1>3. SumFunction(w) = S[D]
  BY SumIsPartialSum
<1> HIDE DEF S
<1>4. S[D] = w[a] + S[{b, c, d}]
  <2>1. D \ {a} = {b, c, d}
    OBVIOUS
  <2> QED
    BY <2>1, <1>2
<1>5. S[{b, c, d}] = w[b] + S[{c, d}]
  <2>1. {b, c, d} \ {b} = {c, d}
    OBVIOUS
  <2> QED
    BY <2>1, <1>2
<1>6. S[{c, d}] = w[c] + S[{d}]
  <2>1. {c, d} \ {c} = {d}
    OBVIOUS
  <2> QED
    BY <2>1, <1>2
<1>7. S[{d}] = w[d] + S[{}]
  <2>1. {d} \ {d} = {}
    OBVIOUS
  <2> QED
    BY <2>1, <1>2
<1> QED
  BY <1>2, <1>3, <1>4, <1>5, <1>6, <1>7

-----------------------------------------------------------------------------
(* Largest elements                                                        *)

\* A finite set of numbers has a largest one.
LEMMA GreatestOfSet ==
  ASSUME NEW T \in SUBSET Nat, IsFiniteSet(T), T # {}
  PROVE  \E n \in T : \A m \in T : m <= n
<1> DEFINE Top(s) == \E n \in s : \A m \in s : m <= n
           Good == {s \in SUBSET T : s # {} => Top(s)}
<1>1. ASSUME NEW s \in SUBSET T, s # {}, \A x \in s : s \ {x} \in Good
      PROVE  Top(s)
  <2>1. PICK x \in s : TRUE
    BY <1>1
  <2>2. CASE s \ {x} = {}
    BY <2>2
  <2>3. CASE s \ {x} # {}
    <3>1. PICK n \in s \ {x} : \A m \in s \ {x} : m <= n
      BY <2>3, <1>1
    <3> QED
      BY <3>1
  <2> QED
    BY <2>2, <2>3
<1>2. Good = SUBSET T
  <2>1. Good \in SUBSET (SUBSET T) /\ {} \in Good
    OBVIOUS
  <2>2. \A s \in SUBSET T : (s # {} /\ \A x \in s : s \ {x} \in Good) => s \in Good
    BY <1>1
  <2> HIDE DEF Good
  <2> QED
    BY <2>1, <2>2, SubsetInduction
<1> QED
  BY <1>2

=============================================================================
