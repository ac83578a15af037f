---- MODULE SumTheorems ----
(* Sums over finite sets: SumFunction of the community modules is a recursive    *)
(* function, chosen by whatever order CHOOSE takes the elements in.  Here is     *)
(* that there is such a function, and that the order does not matter: what an    *)
(* element contributes may be taken out of the sum, or exchanged.                *)
EXTENDS Integers, FiniteSets, Functions, FiniteSetTheorems, WellFoundedInduction, TLAPS

(* Induction over the naturals, for the members of a set.                        *)
LEMMA SetInduction ==
    ASSUME NEW S, 0 \in S, \A n \in Nat : n \in S => n + 1 \in S
    PROVE  Nat \subseteq S
<1> DEFINE R == OpToRel(<, Nat)
           T == Nat \ S
<1>1. \A x, y \in Nat : <<x, y>> \in R <=> x < y
    BY DEF OpToRel
<1> SUFFICES ASSUME T # {} PROVE FALSE
    OBVIOUS
<1>2. IsWellFoundedOn(R, Nat)
    BY NatLessThanWellFounded DEF OpToRel
<1> HIDE DEF R
<1>3. T \subseteq Nat
    OBVIOUS
<1> HIDE DEF T
<1>4. PICK x \in T : \A y \in T : ~(<<y, x>> \in R)
    BY <1>2, <1>3, WFMin
<1>5. x \in Nat /\ x \notin S /\ x # 0
    BY DEF T
<1>6. x - 1 \in Nat /\ x - 1 < x /\ x - 1 + 1 = x
    BY <1>5
<1>7. x - 1 \in T
    BY <1>5, <1>6 DEF T
<1> QED
    BY <1>1, <1>4, <1>5, <1>6, <1>7

Pick(s) == CHOOSE x \in s : TRUE

(* One step of the recursion that SumFunctionOnSet(f, S) makes.                   *)
SumStep(f, g, s) == IF s = {} THEN 0 ELSE f[Pick(s)] + g[s \ {Pick(s)}]

IsSum(f, g, S) == g = [s \in SUBSET S |-> SumStep(f, g, s)]

LEMMA Picked ==
    ASSUME NEW S, IsFiniteSet(S), NEW s \in SUBSET S, s # {}
    PROVE  /\ Pick(s) \in s /\ s \ {Pick(s)} \in SUBSET S
           /\ Cardinality(s) \in Nat /\ Cardinality(s \ {Pick(s)}) \in Nat
           /\ Cardinality(s \ {Pick(s)}) = Cardinality(s) - 1
<1>1. Pick(s) \in s
    BY DEF Pick
<1>2. IsFiniteSet(s) /\ IsFiniteSet(s \ {Pick(s)})
    BY FS_Subset
<1>3. Cardinality(s) \in Nat /\ Cardinality(s \ {Pick(s)}) \in Nat
    BY <1>2, FS_CardinalityType
<1>4. Cardinality(s \ {Pick(s)}) = Cardinality(s) - 1
    BY <1>1, <1>2, FS_RemoveElement
<1> QED
    BY <1>1, <1>3, <1>4

LEMMA SumExists ==
    ASSUME NEW S, IsFiniteSet(S), NEW f
    PROVE  \E g : IsSum(f, g, S)
<1> DEFINE Upto(g, n) == \A s \in SUBSET S : Cardinality(s) <= n => g[s] = SumStep(f, g, s)
           N == {n \in Nat : \E g : Upto(g, n)}
           Better(g) == [s \in SUBSET S |-> SumStep(f, g, s)]
<1>1. \A s \in SUBSET S : Cardinality(s) \in Nat
    BY FS_Subset, FS_CardinalityType
<1>2. ASSUME NEW g, NEW s \in SUBSET S PROVE Better(g)[s] = SumStep(f, g, s)
    OBVIOUS
<1> HIDE DEF Better
<1>3. 0 \in N
    <2> DEFINE g == [s \in SUBSET S |-> 0]
    <2>1. ASSUME NEW s \in SUBSET S, Cardinality(s) <= 0 PROVE g[s] = SumStep(f, g, s)
        <3>1. s = {}
            BY <1>1, <2>1, FS_Subset, FS_EmptySet
        <3> QED
            BY <3>1 DEF SumStep
    <2> HIDE DEF g
    <2>2. Upto(g, 0)
        BY <2>1
    <2> QED
        BY <2>2
<1>4. ASSUME NEW n \in Nat, n \in N PROVE n + 1 \in N
    <2>1. PICK g : Upto(g, n)
        BY <1>4
    <2>2. ASSUME NEW s \in SUBSET S, Cardinality(s) <= n + 1
          PROVE  Better(g)[s] = SumStep(f, Better(g), s)
        <3>1. CASE s = {}
            BY <1>2, <3>1 DEF SumStep
        <3>2. CASE s # {}
            <4> DEFINE p == Pick(s)
                       r == s \ {Pick(s)}
            <4>1. r \in SUBSET S /\ Cardinality(r) <= n
                BY <1>1, <2>2, <3>2, Picked
            <4>2. g[r] = Better(g)[r]
                BY <1>2, <2>1, <4>1
            <4> QED
                BY <1>2, <3>2, <4>2 DEF SumStep
        <3> QED
            BY <3>1, <3>2
    <2>3. Upto(Better(g), n + 1)
        BY <2>2
    <2> QED
        BY <2>3
<1>5. Cardinality(S) \in N
    <2> HIDE DEF N
    <2>1. Nat \subseteq N
        BY <1>3, <1>4, SetInduction
    <2> QED
        BY <1>1, <2>1
<1>6. PICK g : Upto(g, Cardinality(S))
    BY <1>5
<1>7. \A s \in SUBSET S : g[s] = SumStep(f, g, s)
    BY <1>6, FS_Subset
<1>8. \A s \in SUBSET S : SumStep(f, Better(g), s) = SumStep(f, g, s)
    <2> TAKE s \in SUBSET S
    <2>1. CASE s = {}
        BY <2>1 DEF SumStep
    <2>2. CASE s # {}
        <3> DEFINE r == s \ {Pick(s)}
        <3>1. r \in SUBSET S
            BY <2>2, Picked
        <3> HIDE DEF r
        <3>2. Better(g)[r] = g[r]
            BY <1>2, <1>7, <3>1
        <3> QED
            BY <2>2, <3>2 DEF SumStep, r
    <2> QED
        BY <2>1, <2>2
<1>9. IsSum(f, Better(g), S)
    BY <1>8 DEF Better, IsSum
<1> QED
    BY <1>9

LEMMA SumIsSum ==
    ASSUME NEW S, IsFiniteSet(S), NEW f
    PROVE  \E g : IsSum(f, g, S) /\ SumFunctionOnSet(f, S) = g[S]
<1> DEFINE P(h) == h = [s \in SUBSET S |->
                    IF s = {} THEN 0
                    ELSE f[CHOOSE x \in s : TRUE] + h[s \ {CHOOSE x \in s : TRUE}]]
           g == CHOOSE h : P(h)
<1>1. SumFunctionOnSet(f, S) = g[S]
    BY DEF SumFunctionOnSet, FoldFunctionOnSet, MapThenFoldSet
<1>2. \A h : P(h) <=> IsSum(f, h, S)
    BY DEF IsSum, SumStep, Pick
<1> HIDE DEF P
<1>3. \E h : P(h)
    BY <1>2, SumExists
<1>4. P(g)
    BY <1>3
<1> HIDE DEF g
<1> QED
    BY <1>1, <1>2, <1>4

--------------------------------------------------------------------------------

(* The sum over s, which is any finite set, is that of a member and the rest.    *)
LEMMA SumsAgree ==
    ASSUME NEW S, IsFiniteSet(S), NEW T, IsFiniteSet(T), NEW f, NEW g, NEW h,
           IsSum(f, g, S), IsSum(f, h, T)
    PROVE  \A s \in SUBSET S : s \in SUBSET T => g[s] = h[s]
<1> DEFINE N == {n \in Nat : \A s \in SUBSET S :
                    s \in SUBSET T /\ Cardinality(s) = n => g[s] = h[s]}
<1>1. \A s \in SUBSET S : Cardinality(s) \in Nat
    BY FS_Subset, FS_CardinalityType
<1>2. ASSUME NEW s \in SUBSET S, s \in SUBSET T
      PROVE  g[s] = SumStep(f, g, s) /\ h[s] = SumStep(f, h, s)
    BY <1>2 DEF IsSum
<1>3. 0 \in N
    <2>1. ASSUME NEW s \in SUBSET S, s \in SUBSET T, Cardinality(s) = 0 PROVE g[s] = h[s]
        <3>1. s = {}
            BY <2>1, FS_Subset, FS_EmptySet
        <3> QED
            BY <1>2, <2>1, <3>1 DEF SumStep
    <2> QED
        BY <2>1
<1>4. ASSUME NEW n \in Nat, n \in N PROVE n + 1 \in N
    <2>1. ASSUME NEW s \in SUBSET S, s \in SUBSET T, Cardinality(s) = n + 1
          PROVE  g[s] = h[s]
        <3> DEFINE r == s \ {Pick(s)}
        <3>1. s # {}
            BY <2>1, FS_EmptySet
        <3>2. r \in SUBSET S /\ Cardinality(r) = n
            BY <2>1, <3>1, Picked
        <3>3. r \in SUBSET T
            BY <2>1
        <3> HIDE DEF r
        <3>4. g[r] = h[r]
            BY <1>4, <3>2, <3>3
        <3>5. g[s] = f[Pick(s)] + g[r] /\ h[s] = f[Pick(s)] + h[r]
            BY <1>2, <2>1, <3>1 DEF SumStep, r
        <3> QED
            BY <3>4, <3>5
    <2> QED
        BY <2>1
<1> HIDE DEF N
<1>5. Nat \subseteq N
    BY <1>3, <1>4, SetInduction
<1> QED
    BY <1>1, <1>5 DEF N

LEMMA SumOfNothing ==
    ASSUME NEW f
    PROVE  SumFunctionOnSet(f, {}) = 0
<1>1. PICK g : IsSum(f, g, {}) /\ SumFunctionOnSet(f, {}) = g[{}]
    BY SumIsSum, FS_EmptySet
<1> QED
    BY <1>1 DEF IsSum, SumStep

LEMMA SumPicked ==
    ASSUME NEW S, IsFiniteSet(S), NEW f, S # {}
    PROVE  SumFunctionOnSet(f, S) = f[Pick(S)] + SumFunctionOnSet(f, S \ {Pick(S)})
<1> DEFINE R == S \ {Pick(S)}
<1>1. PICK g : IsSum(f, g, S) /\ SumFunctionOnSet(f, S) = g[S]
    BY SumIsSum
<1>2. IsFiniteSet(R) /\ R \in SUBSET S /\ R \in SUBSET R
    BY FS_Subset
<1> HIDE DEF R
<1>3. PICK h : IsSum(f, h, R) /\ SumFunctionOnSet(f, R) = h[R]
    BY <1>2, SumIsSum
<1>4. g[R] = h[R]
    BY <1>1, <1>2, <1>3, SumsAgree
<1>5. g[S] = f[Pick(S)] + g[R]
    BY <1>1 DEF IsSum, SumStep, R
<1> QED
    BY <1>1, <1>3, <1>4, <1>5 DEF R

(* What holds of the empty set, and of a set when of its rest, holds of every     *)
(* finite set: P is the set of those it holds of.                                *)
LEMMA FiniteInduction ==
    ASSUME NEW S, IsFiniteSet(S), NEW P, {} \in P,
           \A s \in SUBSET S : s # {} /\ s \ {Pick(s)} \in P => s \in P
    PROVE  S \in P
<1> DEFINE N == {n \in Nat : \A s \in SUBSET S : Cardinality(s) = n => s \in P}
<1>1. \A s \in SUBSET S : IsFiniteSet(s) /\ Cardinality(s) \in Nat
    BY FS_Subset, FS_CardinalityType
<1>2. 0 \in N
    BY <1>1, FS_EmptySet
<1>3. ASSUME NEW n \in Nat, n \in N PROVE n + 1 \in N
    <2>1. ASSUME NEW s \in SUBSET S, Cardinality(s) = n + 1 PROVE s \in P
        <3> DEFINE r == s \ {Pick(s)}
        <3>1. s # {}
            BY <2>1, FS_EmptySet
        <3>2. r \in SUBSET S /\ Cardinality(r) = n
            BY <2>1, <3>1, Picked
        <3>3. r \in P
            BY <1>3, <3>2
        <3> QED
            BY <3>1, <3>3
    <2> QED
        BY <2>1
<1> HIDE DEF N
<1>4. Nat \subseteq N
    BY <1>2, <1>3, SetInduction
<1> QED
    BY <1>1, <1>4 DEF N

LEMMA SumTyped ==
    ASSUME NEW S, IsFiniteSet(S), NEW f, \A x \in S : f[x] \in Int
    PROVE  SumFunctionOnSet(f, S) \in Int
<1> DEFINE P == {s \in SUBSET S : SumFunctionOnSet(f, s) \in Int}
<1>1. {} \in P
    BY SumOfNothing
<1>2. ASSUME NEW s \in SUBSET S, s # {}, s \ {Pick(s)} \in P PROVE s \in P
    <2>1. IsFiniteSet(s) /\ Pick(s) \in S
        BY <1>2, FS_Subset, Picked
    <2>2. SumFunctionOnSet(f, s) = f[Pick(s)] + SumFunctionOnSet(f, s \ {Pick(s)})
        BY <1>2, <2>1, SumPicked
    <2> QED
        BY <1>2, <2>1, <2>2
<1> HIDE DEF P
<1>3. S \in P
    BY <1>1, <1>2, FiniteInduction
<1> QED
    BY <1>3 DEF P

LEMMA SumNatural ==
    ASSUME NEW S, IsFiniteSet(S), NEW f, \A x \in S : f[x] \in Nat
    PROVE  SumFunctionOnSet(f, S) \in Nat
<1> DEFINE P == {s \in SUBSET S : SumFunctionOnSet(f, s) \in Nat}
<1>1. {} \in P
    BY SumOfNothing
<1>2. ASSUME NEW s \in SUBSET S, s # {}, s \ {Pick(s)} \in P PROVE s \in P
    <2>1. IsFiniteSet(s) /\ Pick(s) \in S
        BY <1>2, FS_Subset, Picked
    <2>2. SumFunctionOnSet(f, s) = f[Pick(s)] + SumFunctionOnSet(f, s \ {Pick(s)})
        BY <1>2, <2>1, SumPicked
    <2> QED
        BY <1>2, <2>1, <2>2
<1> HIDE DEF P
<1>3. S \in P
    BY <1>1, <1>2, FiniteInduction
<1> QED
    BY <1>3 DEF P

(* Functions that agree on a set have the same sum over it.                      *)
LEMMA SumSame ==
    ASSUME NEW S, IsFiniteSet(S), NEW f, NEW g, \A x \in S : f[x] = g[x]
    PROVE  SumFunctionOnSet(f, S) = SumFunctionOnSet(g, S)
<1> DEFINE P == {s \in SUBSET S : SumFunctionOnSet(f, s) = SumFunctionOnSet(g, s)}
<1>1. {} \in P
    BY SumOfNothing
<1>2. ASSUME NEW s \in SUBSET S, s # {}, s \ {Pick(s)} \in P PROVE s \in P
    <2>1. IsFiniteSet(s) /\ Pick(s) \in S
        BY <1>2, FS_Subset, Picked
    <2>2. /\ SumFunctionOnSet(f, s) = f[Pick(s)] + SumFunctionOnSet(f, s \ {Pick(s)})
          /\ SumFunctionOnSet(g, s) = g[Pick(s)] + SumFunctionOnSet(g, s \ {Pick(s)})
        BY <1>2, <2>1, SumPicked
    <2> QED
        BY <1>2, <2>1, <2>2
<1> HIDE DEF P
<1>3. S \in P
    BY <1>1, <1>2, FiniteInduction
<1> QED
    BY <1>3 DEF P

(* The order does not matter: any member may be taken out first.                 *)
LEMMA SumWithout ==
    ASSUME NEW S, IsFiniteSet(S), NEW f, \A x \in S : f[x] \in Int, NEW a \in S
    PROVE  SumFunctionOnSet(f, S) = f[a] + SumFunctionOnSet(f, S \ {a})
<1> DEFINE Sum(s) == SumFunctionOnSet(f, s)
           N == {n \in Nat : \A s \in SUBSET S : Cardinality(s) = n =>
                    \A x \in s : Sum(s) = f[x] + Sum(s \ {x})}
<1>0. \A s \in SUBSET S : IsFiniteSet(s) /\ Cardinality(s) \in Nat /\ Sum(s) \in Int
    BY FS_Subset, FS_CardinalityType, SumTyped
<1>1. 0 \in N
    <2>1. ASSUME NEW s \in SUBSET S, Cardinality(s) = 0, NEW x \in s PROVE FALSE
        BY <1>0, <2>1, FS_EmptySet
    <2> QED
        BY <2>1
<1>2. ASSUME NEW n \in Nat, n \in N PROVE n + 1 \in N
    <2>1. ASSUME NEW s \in SUBSET S, Cardinality(s) = n + 1, NEW x \in s
          PROVE  Sum(s) = f[x] + Sum(s \ {x})
        <3> DEFINE p == Pick(s)
        <3>1. /\ IsFiniteSet(s) /\ s # {} /\ p \in s /\ f[p] \in Int /\ f[x] \in Int
              /\ s \ {p} \in SUBSET S /\ Cardinality(s \ {p}) = n
            BY <1>0, <2>1, Picked
        <3>2. s \ {x} \in SUBSET S /\ Cardinality(s \ {x}) = n
            BY <2>1, <3>1, FS_RemoveElement
        <3> HIDE DEF p
        <3>3. Sum(s) = f[p] + Sum(s \ {p})
            BY <3>1, SumPicked DEF p
        <3>4. CASE x # p
            <4> DEFINE r == (s \ {p}) \ {x}
            <4>1. (s \ {x}) \ {p} = r /\ r \in SUBSET S
                OBVIOUS
            <4>2. Sum(s \ {p}) = f[x] + Sum(r)
                BY <1>2, <3>1, <3>4
            <4>3. Sum(s \ {x}) = f[p] + Sum((s \ {x}) \ {p})
                BY <1>2, <3>1, <3>2, <3>4
            <4>4. Sum(r) \in Int
                BY <1>0, <4>1
            <4>5. Sum((s \ {x}) \ {p}) = Sum(r)
                BY <4>1
            <4>6. Sum(s) = f[p] + (f[x] + Sum(r)) /\ Sum(s \ {x}) = f[p] + Sum(r)
                BY <3>3, <4>2, <4>3, <4>5
            <4> HIDE DEF r, Sum
            <4> QED
                BY <3>1, <4>4, <4>6
        <3> QED
            BY <3>3, <3>4
    <2> QED
        BY <2>1
<1> HIDE DEF N
<1>3. Nat \subseteq N
    BY <1>1, <1>2, SetInduction
<1> QED
    BY <1>0, <1>3 DEF N

(* What one term of a sum is changed by, the sum is.                              *)
LEMMA SumUpdated ==
    ASSUME NEW S, IsFiniteSet(S), NEW f, NEW g, NEW a \in S,
           \A x \in S : f[x] \in Int /\ g[x] \in Int,
           \A x \in S : x # a => g[x] = f[x]
    PROVE  /\ SumFunctionOnSet(f, S) \in Int /\ SumFunctionOnSet(g, S) \in Int
           /\ SumFunctionOnSet(g, S) = SumFunctionOnSet(f, S) - f[a] + g[a]
<1> DEFINE R == S \ {a}
<1>1. IsFiniteSet(R)
    BY FS_Subset
<1>2. /\ SumFunctionOnSet(f, S) = f[a] + SumFunctionOnSet(f, R)
      /\ SumFunctionOnSet(g, S) = g[a] + SumFunctionOnSet(g, R)
    BY SumWithout
<1>3. /\ SumFunctionOnSet(f, R) \in Int /\ SumFunctionOnSet(f, S) \in Int
      /\ SumFunctionOnSet(g, S) \in Int
    BY <1>1, SumTyped
<1>4. \A x \in R : f[x] = g[x]
    OBVIOUS
<1> HIDE DEF R
<1>5. SumFunctionOnSet(f, R) = SumFunctionOnSet(g, R)
    BY <1>1, <1>4, SumSame
<1> QED
    BY <1>2, <1>3, <1>5

(* No term is larger than the sum of what is not negative.                        *)
LEMMA TermWithinSum ==
    ASSUME NEW S, IsFiniteSet(S), NEW f, \A x \in S : f[x] \in Nat, NEW a \in S
    PROVE  f[a] <= SumFunctionOnSet(f, S)
<1>1. SumFunctionOnSet(f, S) = f[a] + SumFunctionOnSet(f, S \ {a})
    BY SumWithout
<1>2. SumFunctionOnSet(f, S \ {a}) \in Nat
    BY FS_Subset, SumNatural
<1> QED
    BY <1>1, <1>2

LEMMA SumOfZeros ==
    ASSUME NEW S, IsFiniteSet(S), NEW f, \A x \in S : f[x] = 0
    PROVE  SumFunctionOnSet(f, S) = 0
<1> DEFINE P == {s \in SUBSET S : SumFunctionOnSet(f, s) = 0}
<1>1. {} \in P
    BY SumOfNothing
<1>2. ASSUME NEW s \in SUBSET S, s # {}, s \ {Pick(s)} \in P PROVE s \in P
    <2>1. IsFiniteSet(s) /\ Pick(s) \in S
        BY <1>2, FS_Subset, Picked
    <2>2. SumFunctionOnSet(f, s) = f[Pick(s)] + SumFunctionOnSet(f, s \ {Pick(s)})
        BY <1>2, <2>1, SumPicked
    <2> QED
        BY <1>2, <2>1, <2>2
<1> HIDE DEF P
<1>3. S \in P
    BY <1>1, <1>2, FiniteInduction
<1> QED
    BY <1>3 DEF P

LEMMA SumOfAll ==
    ASSUME NEW f
    PROVE  SumFunction(f) = SumFunctionOnSet(f, DOMAIN f)
BY DEF SumFunction
====
