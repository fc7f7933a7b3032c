----------------------------- MODULE SumProofs ------------------------------
(***************************************************************************)
(* Sums over finite sets.  The library's induction theorems take an        *)
(* operator; here an induction is on the least natural number of a set of  *)
(* counterexamples.                                                        *)
(***************************************************************************)
EXTENDS Integers, FiniteSets, FiniteSetsExt, FiniteSetTheorems, TLAPS

\* A set of natural numbers has a least one.
LEMMA LeastExists ==
    ASSUME NEW S, S \subseteq Nat, S # {}
    PROVE  \E n \in S : \A m \in S : n <= m
<1> DEFINE less == OpToRel(<, Nat)
<1>1. IsWellFoundedOn(less, Nat)
  BY NatLessThanWellFounded
<1>2. \A x, y \in Nat : x < y => <<x, y>> \in less
  BY DEF OpToRel
<1> HIDE DEF less
<1>3. PICK n \in S : \A m \in S : ~ (<<m, n>> \in less)
  BY <1>1, WFMin
<1>4. ASSUME NEW m \in S
      PROVE  n <= m
  <2>1. m \in Nat /\ n \in Nat
    OBVIOUS
  <2>2. ~ (m < n)
    BY <1>2, <1>3, <2>1
  <2> QED
    BY <2>1, <2>2
<1> QED
  BY <1>4

-----------------------------------------------------------------------------
(* The recursion that defines a sum *)

AnyOf(s) == CHOOSE x \in s : TRUE

\* g gives the sum of f over every subset of S.
IsSumOf(g, f, S) ==
    g = [s \in SUBSET S |-> IF s = {} THEN 0
                            ELSE f[AnyOf(s)] + g[s \ {AnyOf(s)}]]

\* AnyOf is an element.
LEMMA AnyIn == ASSUME NEW s, s # {} PROVE AnyOf(s) \in s
  BY DEF AnyOf

\* What the library's operator stands for.
LEMMA SumDef ==
    ASSUME NEW f, NEW S
    PROVE  SumFunctionOnSet(f, S) = (CHOOSE z : IsSumOf(z, f, S))[S]
  BY DEF SumFunctionOnSet, FoldFunctionOnSet, MapThenFoldSet, IsSumOf, AnyOf

\* The recursion, at one set.
LEMMA SumOfAt ==
    ASSUME NEW g, NEW f, NEW S, IsSumOf(g, f, S), NEW s \in SUBSET S
    PROVE  g[s] = IF s = {} THEN 0 ELSE f[AnyOf(s)] + g[s \ {AnyOf(s)}]
  BY DEF IsSumOf

\* It has one solution at most.
LEMMA SumOfUnique ==
    ASSUME NEW f, NEW S, IsFiniteSet(S), NEW T, S \subseteq T,
           NEW g, IsSumOf(g, f, S), NEW h, IsSumOf(h, f, T)
    PROVE  g[S] = h[S]
<1> DEFINE bad == {s \in SUBSET S : g[s] # h[s]}
           sizes == {Cardinality(s) : s \in bad}
<1>1. SUFFICES bad = {}
  OBVIOUS
<1>2. SUFFICES ASSUME bad # {}
               PROVE  FALSE
  OBVIOUS
<1>3. \A s \in bad : Cardinality(s) \in Nat
  BY FS_Subset, FS_CardinalityType
<1>4. PICK n \in sizes : \A m \in sizes : n <= m
  <2>1. sizes \subseteq Nat /\ sizes # {}
    BY <1>2, <1>3
  <2> HIDE DEF sizes
  <2> QED
    BY <2>1, LeastExists
<1>5. PICK s \in bad : Cardinality(s) = n
  OBVIOUS
<1>6. s \in SUBSET S /\ s \in SUBSET T /\ g[s] # h[s]
  OBVIOUS
<1>7. CASE s = {}
  BY <1>6, <1>7, SumOfAt
<1>8. CASE s # {}
  <2> DEFINE r == s \ {AnyOf(s)}
  <2>1. AnyOf(s) \in s
    BY <1>8, AnyIn
  <2>2. IsFiniteSet(s) /\ r \in SUBSET S /\ r \in SUBSET T
    BY <1>6, FS_Subset
  <2>3. Cardinality(r) = Cardinality(s) - 1
    BY <2>1, <2>2, FS_RemoveElement
  <2>4. r \notin bad
    <3>1. Cardinality(r) < n
      BY <1>3, <1>5, <2>3
    <3>2. Cardinality(r) \notin sizes
      <4> HIDE DEF sizes
      <4>1. \A m \in sizes : ~ (m < n)
        BY <1>3, <1>4, <1>5 DEF sizes
      <4> QED
        BY <3>1, <4>1
    <3> QED
      BY <3>2
  <2>5. g[r] = h[r]
    BY <2>2, <2>4
  <2>6. g[s] = f[AnyOf(s)] + g[r]
    BY <1>6, <1>8, SumOfAt
  <2>7. h[s] = f[AnyOf(s)] + h[r]
    BY <1>6, <1>8, SumOfAt
  <2> QED
    BY <1>6, <2>5, <2>6, <2>7
<1> QED
  BY <1>7, <1>8

\* It has a solution for every finite set.
LEMMA SumOfExists ==
    ASSUME NEW f, NEW S, IsFiniteSet(S)
    PROVE  \E g : IsSumOf(g, f, S)
<1> DEFINE bad == {s \in SUBSET S : ~ \E g : IsSumOf(g, f, s)}
           sizes == {Cardinality(s) : s \in bad}
<1>1. SUFFICES ASSUME bad # {}
               PROVE  FALSE
  OBVIOUS
<1>2. \A s \in SUBSET S : IsFiniteSet(s) /\ Cardinality(s) \in Nat
  BY FS_Subset, FS_CardinalityType
<1>3. PICK n \in sizes : \A m \in sizes : n <= m
  <2>1. sizes \subseteq Nat /\ sizes # {}
    BY <1>1, <1>2
  <2> HIDE DEF sizes
  <2> QED
    BY <2>1, LeastExists
<1>4. PICK s \in bad : Cardinality(s) = n
  OBVIOUS
<1>5. ASSUME NEW r \in SUBSET s, r # s
      PROVE  IsSumOf(CHOOSE z : IsSumOf(z, f, r), f, r)
  <2>1. Cardinality(r) < Cardinality(s)
    <3>1. IsFiniteSet(s) /\ r \in SUBSET S
      BY <1>2
    <3> QED
      BY <1>2, <1>5, <3>1, FS_Subset
  <2>2. r \notin bad
    BY <1>2, <1>3, <1>4, <2>1
  <2> QED
    BY <2>2
<1> DEFINE sum(r) == (CHOOSE z : IsSumOf(z, f, r))[r]
           new == [r \in SUBSET s |-> IF r = {} THEN 0
                                      ELSE f[AnyOf(r)] + sum(r \ {AnyOf(r)})]
<1>6. ASSUME NEW r \in SUBSET s, r # s
      PROVE  sum(r) = IF r = {} THEN 0 ELSE f[AnyOf(r)] + sum(r \ {AnyOf(r)})
  <2> DEFINE g == CHOOSE z : IsSumOf(z, f, r)
             q == r \ {AnyOf(r)}
             h == CHOOSE z : IsSumOf(z, f, q)
  <2>1. IsSumOf(g, f, r) /\ sum(r) = g[r]
    BY <1>5, <1>6
  <2>2. IsSumOf(h, f, q) /\ sum(q) = h[q]
    <3>1. q \in SUBSET s /\ q # s
      BY <1>6
    <3> QED
      BY <1>5, <3>1
  <2>3. IsFiniteSet(q) /\ q \subseteq r
    BY <1>2
  <2> HIDE DEF g, h
  <2>4. h[q] = g[q]
    BY <2>1, <2>2, <2>3, SumOfUnique
  <2>5. g[r] = IF r = {} THEN 0 ELSE f[AnyOf(r)] + g[q]
    BY <2>1, SumOfAt
  <2> QED
    BY <2>1, <2>2, <2>4, <2>5
<1>7. IsSumOf(new, f, s)
  <2>1. ASSUME NEW r \in SUBSET s, r # {}
        PROVE  sum(r \ {AnyOf(r)}) = new[r \ {AnyOf(r)}]
    <3>1. AnyOf(r) \in r
      BY <2>1, AnyIn
    <3>2. PICK q : q = r \ {AnyOf(r)}
      OBVIOUS
    <3> HIDE DEF sum, new
    <3>3. q \in SUBSET s /\ q # s
      BY <3>1, <3>2
    <3>4. sum(q) = IF q = {} THEN 0 ELSE f[AnyOf(q)] + sum(q \ {AnyOf(q)})
      BY <1>6, <3>3
    <3>5. sum(q) = new[q]
      BY <3>3, <3>4 DEF new
    <3> QED
      BY <3>2, <3>5
  <2> HIDE DEF sum
  <2> QED
    BY <2>1 DEF IsSumOf
<1> QED
  BY <1>4, <1>7

\* The sum over a set of which some element is taken away.
LEMMA SumAny ==
    ASSUME NEW f, NEW S, IsFiniteSet(S), S # {}
    PROVE  SumFunctionOnSet(f, S) =
               f[AnyOf(S)] + SumFunctionOnSet(f, S \ {AnyOf(S)})
<1> DEFINE r == S \ {AnyOf(S)}
<1>1. PICK g : g = CHOOSE z : IsSumOf(z, f, S)
  OBVIOUS
<1>2. PICK h : h = CHOOSE z : IsSumOf(z, f, r)
  OBVIOUS
<1>3. IsFiniteSet(r)
  BY FS_RemoveElement
<1>4. IsSumOf(g, f, S)
  BY <1>1, SumOfExists
<1>5. IsSumOf(h, f, r)
  BY <1>2, <1>3, SumOfExists
<1>6. h[r] = g[r]
  BY <1>3, <1>4, <1>5, SumOfUnique
<1>7. g[S] = f[AnyOf(S)] + g[r]
  BY <1>4, SumOfAt
<1> QED
  BY <1>1, <1>2, <1>6, <1>7, SumDef

-----------------------------------------------------------------------------
(* What is known of sums from here on *)

IsIntegral(f, S) == \A x \in S : f[x] \in Int

\* The sum over nothing.
LEMMA SumEmpty == ASSUME NEW f PROVE SumFunctionOnSet(f, {}) = 0
<1>1. PICK g : g = CHOOSE z : IsSumOf(z, f, {})
  OBVIOUS
<1>2. IsSumOf(g, f, {})
  BY <1>1, FS_EmptySet, SumOfExists
<1> QED
  BY <1>1, <1>2, SumOfAt, SumDef

\* A sum of integers is an integer, and any element may be taken out of it.
LEMMA SumStep ==
    ASSUME NEW f, NEW S, IsFiniteSet(S), IsIntegral(f, S)
    PROVE  /\ SumFunctionOnSet(f, S) \in Int
           /\ \A x \in S : SumFunctionOnSet(f, S) =
                                f[x] + SumFunctionOnSet(f, S \ {x})
<1> DEFINE sum(s) == SumFunctionOnSet(f, s)
           good(s) == /\ sum(s) \in Int
                      /\ \A x \in s : sum(s) = f[x] + sum(s \ {x})
           bad == {s \in SUBSET S : ~ good(s)}
           sizes == {Cardinality(s) : s \in bad}
<1>1. SUFFICES ASSUME bad # {}
               PROVE  FALSE
  OBVIOUS
<1>2. \A s \in SUBSET S : IsFiniteSet(s) /\ Cardinality(s) \in Nat
  BY FS_Subset, FS_CardinalityType
<1>3. PICK n \in sizes : \A m \in sizes : n <= m
  <2>1. sizes \subseteq Nat /\ sizes # {}
    BY <1>1, <1>2
  <2> HIDE DEF sizes
  <2> QED
    BY <2>1, LeastExists
<1>4. PICK s \in bad : Cardinality(s) = n
  OBVIOUS
<1>5. ASSUME NEW t \in SUBSET s, t # s
      PROVE  good(t)
  <2>1. /\ IsFiniteSet(s) /\ t \in SUBSET S
        /\ Cardinality(s) \in Nat /\ Cardinality(t) \in Nat
    BY <1>2
  <2>2. Cardinality(t) < Cardinality(s)
    BY <1>2, <1>5, <2>1, FS_Subset
  <2>3. SUFFICES ASSUME ~ good(t)
                 PROVE  FALSE
    OBVIOUS
  <2>4. Cardinality(t) \in sizes
    BY <2>1, <2>3
  <2> HIDE DEF sizes, bad, good
  <2> QED
    BY <1>3, <1>4, <2>1, <2>2, <2>4
<1> HIDE DEF sum
<1>6. CASE s = {}
  <2>1. sum(s) = 0
    BY <1>6, SumEmpty DEF sum
  <2> QED
    BY <1>4, <1>6, <2>1
<1>7. CASE s # {}
  <2>1. PICK y \in s : y = AnyOf(s)
    BY <1>7, AnyIn
  <2>2. sum(s) = f[y] + sum(s \ {y})
    BY <1>2, <1>4, <1>7, <2>1, SumAny DEF sum
  <2>3. \A x \in s : f[x] \in Int /\ sum(s \ {x}) \in Int
    BY <1>5 DEF IsIntegral
  <2>4. ASSUME NEW x \in s, x # y
        PROVE  sum(s) = f[x] + sum(s \ {x})
    <3>1. PICK r : r = sum((s \ {x}) \ {y})
      OBVIOUS
    <3>2. sum(s \ {x}) = f[y] + r
      BY <1>5, <2>4, <3>1
    <3>3. (s \ {y}) \ {x} = (s \ {x}) \ {y}
      OBVIOUS
    <3>4. sum(s \ {y}) = f[x] + r
      BY <1>5, <2>4, <3>1, <3>3
    <3>5. r \in Int
      <4>1. (s \ {x}) \ {y} \in SUBSET s /\ (s \ {x}) \ {y} # s
        OBVIOUS
      <4> QED
        BY <1>5, <3>1, <4>1
    <3> QED
      BY <2>2, <2>3, <3>2, <3>4, <3>5
  <2>5. sum(s) \in Int
    BY <2>2, <2>3
  <2> QED
    BY <1>4, <2>2, <2>4, <2>5
<1> QED
  BY <1>6, <1>7

\* Induction over the subsets of a finite set; B are those it is true of.
LEMMA SubsetInduction ==
    ASSUME NEW S, IsFiniteSet(S), NEW B, {} \in B,
           \A t \in SUBSET S, x \in S : t \in B /\ x \notin t => t \cup {x} \in B
    PROVE  S \in B
<1> DEFINE bad == {s \in SUBSET S : s \notin B}
           sizes == {Cardinality(s) : s \in bad}
<1>1. SUFFICES ASSUME S \notin B
               PROVE  FALSE
  OBVIOUS
<1>2. \A s \in SUBSET S : IsFiniteSet(s) /\ Cardinality(s) \in Nat
  BY FS_Subset, FS_CardinalityType
<1>3. PICK n \in sizes : \A m \in sizes : n <= m
  <2>1. sizes \subseteq Nat /\ sizes # {}
    BY <1>1, <1>2
  <2> HIDE DEF sizes
  <2> QED
    BY <2>1, LeastExists
<1>4. PICK s \in bad : Cardinality(s) = n
  OBVIOUS
<1>5. PICK x : x \in s
  OBVIOUS
<1>6. /\ s \ {x} \in SUBSET S /\ Cardinality(s \ {x}) = Cardinality(s) - 1
      /\ Cardinality(s) \in Nat
  BY <1>2, <1>5, FS_RemoveElement
<1>7. s \ {x} \in B
  <2>1. SUFFICES ASSUME s \ {x} \notin B
                 PROVE  FALSE
    OBVIOUS
  <2>2. Cardinality(s \ {x}) \in sizes
    BY <1>6, <2>1
  <2> HIDE DEF sizes, bad
  <2> QED
    BY <1>3, <1>4, <1>6, <2>2
<1> QED
  <2>1. (s \ {x}) \cup {x} = s /\ x \in S
    BY <1>5
  <2> QED
    BY <1>6, <1>7, <2>1

\* A sum depends on the values over its set only.
LEMMA SumAgree ==
    ASSUME NEW f, NEW g, NEW S, IsFiniteSet(S), IsIntegral(f, S),
           \A x \in S : g[x] = f[x]
    PROVE  SumFunctionOnSet(g, S) = SumFunctionOnSet(f, S)
<1> DEFINE B == {t \in SUBSET S : SumFunctionOnSet(g, t) = SumFunctionOnSet(f, t)}
<1>1. {} \in B
  BY SumEmpty
<1>2. ASSUME NEW t \in SUBSET S, NEW x \in S, t \in B, x \notin t
      PROVE  t \cup {x} \in B
  <2>1. PICK s \in SUBSET S : s = t \cup {x}
    BY <1>2
  <2>2. IsFiniteSet(s) /\ s \ {x} = t /\ x \in s
    BY <1>2, <2>1, FS_Subset
  <2>3. IsIntegral(f, s) /\ IsIntegral(g, s)
    BY <2>1 DEF IsIntegral
  <2>4. /\ SumFunctionOnSet(f, s) = f[x] + SumFunctionOnSet(f, t)
        /\ SumFunctionOnSet(g, s) = g[x] + SumFunctionOnSet(g, t)
    BY <2>2, <2>3, SumStep
  <2> QED
    BY <1>2, <2>1, <2>4
<1> HIDE DEF B
<1>3. S \in B
  BY <1>1, <1>2, SubsetInduction
<1> QED
  BY <1>3 DEF B

\* One element more.
LEMMA SumAdd ==
    ASSUME NEW f, NEW g, NEW S, IsFiniteSet(S), IsIntegral(f, S),
           NEW x, x \notin S, g[x] \in Int, \A y \in S : g[y] = f[y]
    PROVE  SumFunctionOnSet(g, S \cup {x}) = SumFunctionOnSet(f, S) + g[x]
<1>1. IsFiniteSet(S \cup {x}) /\ (S \cup {x}) \ {x} = S
  BY FS_AddElement
<1>2. IsIntegral(g, S \cup {x}) /\ IsIntegral(g, S)
  BY DEF IsIntegral
<1>3. SumFunctionOnSet(g, S \cup {x}) = g[x] + SumFunctionOnSet(g, S)
  BY <1>1, <1>2, SumStep
<1>4. SumFunctionOnSet(g, S) = SumFunctionOnSet(f, S)
  BY SumAgree
<1>5. SumFunctionOnSet(f, S) \in Int
  BY SumStep
<1> QED
  BY <1>3, <1>4, <1>5

\* One element less.
LEMMA SumRemove ==
    ASSUME NEW f, NEW g, NEW S, IsFiniteSet(S), IsIntegral(f, S),
           NEW x \in S, \A y \in S \ {x} : g[y] = f[y]
    PROVE  SumFunctionOnSet(g, S \ {x}) = SumFunctionOnSet(f, S) - f[x]
<1>1. IsFiniteSet(S \ {x}) /\ IsIntegral(f, S \ {x}) /\ f[x] \in Int
  BY FS_RemoveElement DEF IsIntegral
<1>2. SumFunctionOnSet(f, S) = f[x] + SumFunctionOnSet(f, S \ {x})
  BY SumStep
<1>3. SumFunctionOnSet(g, S \ {x}) = SumFunctionOnSet(f, S \ {x})
  BY <1>1, SumAgree
<1>4. SumFunctionOnSet(f, S \ {x}) \in Int
  BY <1>1, SumStep
<1> QED
  BY <1>1, <1>2, <1>3, <1>4

\* One element changed by v.
LEMMA SumChange ==
    ASSUME NEW f, NEW g, NEW S, IsFiniteSet(S), IsIntegral(f, S),
           NEW a \in S, NEW v \in Int,
           \A x \in S : g[x] = f[x] + (IF x = a THEN v ELSE 0)
    PROVE  SumFunctionOnSet(g, S) = SumFunctionOnSet(f, S) + v
<1>1. \A x \in S \ {a} : g[x] = f[x]
  BY DEF IsIntegral
<1>2. f[a] \in Int /\ g[a] = f[a] + v
  BY DEF IsIntegral
<1>3. IsIntegral(g, S)
  BY <1>1, <1>2 DEF IsIntegral
<1>4. SumFunctionOnSet(g, S) = g[a] + SumFunctionOnSet(g, S \ {a})
  BY <1>3, SumStep
<1>5. SumFunctionOnSet(g, S \ {a}) = SumFunctionOnSet(f, S) - f[a]
  BY <1>1, SumRemove
<1>6. SumFunctionOnSet(f, S) \in Int
  BY SumStep
<1> QED
  BY <1>2, <1>4, <1>5, <1>6

\* A sum of natural numbers is one, and at least each of them.
LEMMA SumBounds ==
    ASSUME NEW f, NEW S, IsFiniteSet(S), \A x \in S : f[x] \in Nat
    PROVE  /\ SumFunctionOnSet(f, S) \in Nat
           /\ \A x \in S : f[x] <= SumFunctionOnSet(f, S)
<1> DEFINE B == {t \in SUBSET S : SumFunctionOnSet(f, t) \in Nat}
<1>1. {} \in B
  BY SumEmpty
<1>2. ASSUME NEW t \in SUBSET S, NEW x \in S, t \in B, x \notin t
      PROVE  t \cup {x} \in B
  <2>1. IsFiniteSet(t) /\ IsIntegral(f, t) /\ f[x] \in Int
    BY FS_Subset DEF IsIntegral
  <2>2. SumFunctionOnSet(f, t \cup {x}) = SumFunctionOnSet(f, t) + f[x]
    BY <1>2, <2>1, SumAdd
  <2> QED
    BY <1>2, <2>2
<1> HIDE DEF B
<1>3. \A s \in SUBSET S : s \in B
  <2>1. TAKE s \in SUBSET S
  <2>2. IsFiniteSet(s)
    BY FS_Subset
  <2>3. \A t \in SUBSET s, x \in s : t \in B /\ x \notin t => t \cup {x} \in B
    BY <1>2
  <2> QED
    BY <1>1, <2>2, <2>3, SubsetInduction
<1>4. SumFunctionOnSet(f, S) \in Nat
  BY <1>3 DEF B
<1>5. ASSUME NEW x \in S
      PROVE  f[x] <= SumFunctionOnSet(f, S)
  <2>1. IsIntegral(f, S)
    BY DEF IsIntegral
  <2>2. SumFunctionOnSet(f, S) = f[x] + SumFunctionOnSet(f, S \ {x})
    BY <2>1, SumStep
  <2>3. SumFunctionOnSet(f, S \ {x}) \in Nat
    BY <1>3 DEF B
  <2> QED
    BY <2>2, <2>3
<1> QED
  BY <1>4, <1>5

\* A sum of zeros.
LEMMA SumZero ==
    ASSUME NEW f, NEW S, IsFiniteSet(S), \A x \in S : f[x] = 0
    PROVE  SumFunctionOnSet(f, S) = 0
<1> DEFINE B == {t \in SUBSET S : SumFunctionOnSet(f, t) = 0}
<1>1. {} \in B
  BY SumEmpty
<1>2. ASSUME NEW t \in SUBSET S, NEW x \in S, t \in B, x \notin t
      PROVE  t \cup {x} \in B
  <2>1. IsFiniteSet(t) /\ IsIntegral(f, t) /\ f[x] \in Int
    BY FS_Subset DEF IsIntegral
  <2>2. SumFunctionOnSet(f, t \cup {x}) = SumFunctionOnSet(f, t) + f[x]
    BY <1>2, <2>1, SumAdd
  <2> QED
    BY <1>2, <2>2
<1> HIDE DEF B
<1>3. S \in B
  BY <1>1, <1>2, SubsetInduction
<1> QED
  BY <1>3 DEF B

\* The same value v for the elements of a subset, nothing for the others.
LEMMA SumOfSame ==
    ASSUME NEW S, IsFiniteSet(S), NEW T \in SUBSET S, NEW v \in Int,
           NEW f, \A x \in S : f[x] = IF x \in T THEN v ELSE 0
    PROVE  SumFunctionOnSet(f, S) = v * Cardinality(T)
<1> DEFINE B == {t \in SUBSET S :
                     SumFunctionOnSet(f, t) = v * Cardinality(t \cap T)}
<1>1. {} \in B
  <2>1. Cardinality({} \cap T) = 0
    BY FS_EmptySet
  <2> QED
    BY <2>1, SumEmpty
<1>2. ASSUME NEW t \in SUBSET S, NEW x \in S, t \in B, x \notin t
      PROVE  t \cup {x} \in B
  <2>1. IsFiniteSet(t) /\ IsFiniteSet(t \cap T) /\ IsIntegral(f, t) /\ f[x] \in Int
    BY FS_Subset DEF IsIntegral
  <2>2. SumFunctionOnSet(f, t \cup {x}) = SumFunctionOnSet(f, t) + f[x]
    BY <1>2, <2>1, SumAdd
  <2>3. PICK n \in Nat : n = Cardinality(t \cap T)
    BY <2>1, FS_CardinalityType
  <2>4. CASE x \in T
    <3>1. (t \cup {x}) \cap T = (t \cap T) \cup {x} /\ x \notin t \cap T
      BY <1>2, <2>4
    <3>2. Cardinality((t \cup {x}) \cap T) = n + 1
      BY <2>1, <2>3, <3>1, FS_AddElement
    <3>3. v * (n + 1) = v * n + v
      OBVIOUS
    <3> QED
      BY <1>2, <2>2, <2>3, <2>4, <3>2, <3>3
  <2>5. CASE x \notin T
    <3>1. (t \cup {x}) \cap T = t \cap T
      BY <2>5
    <3>2. PICK k \in Int : k = v * n
      OBVIOUS
    <3>3. SumFunctionOnSet(f, t) = k /\ f[x] = 0
      BY <1>2, <2>3, <2>5, <3>2
    <3>4. SumFunctionOnSet(f, t \cup {x}) = k
      BY <2>2, <3>3
    <3> QED
      BY <2>3, <3>1, <3>2, <3>4
  <2> QED
    BY <2>4, <2>5
<1> HIDE DEF B
<1>3. S \in B
  BY <1>1, <1>2, SubsetInduction
<1>4. S \cap T = T
  OBVIOUS
<1> QED
  BY <1>3, <1>4 DEF B

\* The sum over two sets with no element in common.
LEMMA SumUnion ==
    ASSUME NEW S, IsFiniteSet(S), NEW T, IsFiniteSet(T), S \cap T = {},
           NEW f, IsIntegral(f, S), IsIntegral(f, T)
    PROVE  SumFunctionOnSet(f, S \cup T) =
               SumFunctionOnSet(f, S) + SumFunctionOnSet(f, T)
<1> DEFINE B == {t \in SUBSET T : SumFunctionOnSet(f, S \cup t) =
                                      SumFunctionOnSet(f, S) + SumFunctionOnSet(f, t)}
<1>1. SumFunctionOnSet(f, S) \in Int
  BY SumStep
<1>2. {} \in B
  <2>1. S \cup {} = S
    OBVIOUS
  <2> QED
    BY <1>1, <2>1, SumEmpty
<1>3. ASSUME NEW t \in SUBSET T, NEW x \in T, t \in B, x \notin t
      PROVE  t \cup {x} \in B
  <2>1. PICK u : u = S \cup t
    OBVIOUS
  <2>2. IsFiniteSet(t) /\ IsFiniteSet(u) /\ x \notin u /\ f[x] \in Int
    BY <1>3, <2>1, FS_Subset, FS_Union DEF IsIntegral
  <2>3. IsIntegral(f, t) /\ IsIntegral(f, u)
    BY <2>1 DEF IsIntegral
  <2>4. SumFunctionOnSet(f, u \cup {x}) = SumFunctionOnSet(f, u) + f[x]
    BY <2>2, <2>3, SumAdd
  <2>5. SumFunctionOnSet(f, t \cup {x}) = SumFunctionOnSet(f, t) + f[x]
    BY <1>3, <2>2, <2>3, SumAdd
  <2>6. SumFunctionOnSet(f, t) \in Int
    BY <2>2, <2>3, SumStep
  <2>7. SumFunctionOnSet(f, u) = SumFunctionOnSet(f, S) + SumFunctionOnSet(f, t)
    BY <1>3, <2>1
  <2>8. S \cup (t \cup {x}) = u \cup {x}
    BY <2>1
  <2>9. SumFunctionOnSet(f, S \cup (t \cup {x})) =
            SumFunctionOnSet(f, S) + SumFunctionOnSet(f, t \cup {x})
    <3>1. SumFunctionOnSet(f, S \cup (t \cup {x})) = SumFunctionOnSet(f, u) + f[x]
      BY <2>4, <2>8
    <3> QED
      BY <1>1, <2>2, <2>5, <2>6, <2>7, <3>1
  <2> QED
    BY <1>3, <2>9
<1> HIDE DEF B
<1>4. T \in B
  BY <1>2, <1>3, SubsetInduction
<1> QED
  BY <1>4 DEF B

\* What stands at some places.
ImageOf(h, J) == {h[j] : j \in J}

\* A sum goes over as many places as the things that stand there once each.
LEMMA SumImage ==
    ASSUME NEW J, IsFiniteSet(J), NEW f, IsIntegral(f, J), NEW h,
           \A i, j \in J : h[i] = h[j] => i = j,
           NEW g, \A j \in J : g[h[j]] = f[j]
    PROVE  SumFunctionOnSet(g, ImageOf(h, J)) = SumFunctionOnSet(f, J)
<1> DEFINE img(t) == {h[j] : j \in t}
           B == {t \in SUBSET J : SumFunctionOnSet(g, img(t)) = SumFunctionOnSet(f, t)}
<1>1. {} \in B
  <2>1. img({}) = {}
    OBVIOUS
  <2> QED
    BY <2>1, SumEmpty
<1>2. ASSUME NEW t \in SUBSET J, NEW x \in J, t \in B, x \notin t
      PROVE  t \cup {x} \in B
  <2>1. IsFiniteSet(t) /\ IsIntegral(f, t) /\ f[x] \in Int /\ g[h[x]] = f[x]
    BY FS_Subset DEF IsIntegral
  <2>2. PICK T : T = img(t)
    OBVIOUS
  <2>3. IsFiniteSet(T)
    <3>1. PICK p : p = [j \in t |-> h[j]]
      OBVIOUS
    <3>2. p \in Surjection(t, T)
      BY <2>2, <3>1 DEF Surjection
    <3> QED
      BY <2>1, <3>2, FS_Surjection
  <2>4. img(t \cup {x}) = T \cup {h[x]} /\ h[x] \notin T
    <3>1. img(t \cup {x}) = T \cup {h[x]}
      BY <2>2
    <3>2. ASSUME h[x] \in T
          PROVE  FALSE
      <4>1. PICK j \in t : h[x] = h[j]
        BY <2>2, <3>2
      <4>2. j \in J /\ j # x
        BY <1>2
      <4> QED
        BY <4>1, <4>2
    <3> QED
      BY <3>1, <3>2
  <2>5. IsIntegral(g, T)
    BY <2>1, <2>2 DEF IsIntegral
  <2>6. PICK y : y = h[x] /\ y \notin T /\ g[y] = f[x] /\ g[y] \in Int
    BY <2>1, <2>4
  <2>7. SumFunctionOnSet(g, T \cup {y}) = SumFunctionOnSet(g, T) + g[y]
    BY <2>3, <2>5, <2>6, SumAdd
  <2>8. SumFunctionOnSet(f, t \cup {x}) = SumFunctionOnSet(f, t) + f[x]
    BY <1>2, <2>1, SumAdd
  <2>9. SumFunctionOnSet(g, T) = SumFunctionOnSet(f, t)
    BY <1>2, <2>2
  <2>10. SumFunctionOnSet(g, img(t \cup {x})) = SumFunctionOnSet(f, t \cup {x})
    BY <2>4, <2>6, <2>7, <2>8, <2>9
  <2> QED
    BY <1>2, <2>10
<1> HIDE DEF B
<1>3. J \in B
  BY <1>1, <1>2, SubsetInduction
<1> QED
  BY <1>3 DEF B, ImageOf
=============================================================================
