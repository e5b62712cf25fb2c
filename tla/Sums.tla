-------------------------------- MODULE Sums --------------------------------
(***************************************************************************)
(* Induction over numbers and finite sets, and what it says of sums over   *)
(* finite sets (SumFunctionOnSet): the lemmas the proofs about counted and *)
(* charged amounts rest on. The library's induction theorems take the      *)
(* induction hypothesis as an operator; here it is a set of numbers, whose *)
(* least counterexample WellFoundedInduction provides.                     *)
(***************************************************************************)
EXTENDS Integers, Functions, FiniteSetsExt, FiniteSetTheorems, WellFoundedInduction, TLAPS

-----------------------------------------------------------------------------
(* Induction.                                                              *)

\* Numbers are well-founded: some element of a set of them is the least.
LEMMA LeastNumber ==
  ASSUME NEW T \in SUBSET Nat, T # {}
  PROVE  \E x \in T : \A y \in T : x <= y
<1> DEFINE R == OpToRel(<, Nat)
<1>1. IsWellFoundedOn(R, Nat)
  BY NatLessThanWellFounded
<1>2. \A x, y \in Nat : y < x => <<y, x>> \in R
  BY DEF OpToRel
<1> HIDE DEF R
<1>3. PICK x \in T : \A y \in T : ~(<<y, x>> \in R)
  BY <1>1, WFMin
<1>4. ASSUME NEW y \in T PROVE x <= y
  <2>1. ~(y < x)
    BY <1>2, <1>3
  <2> QED
    BY <2>1
<1> QED
  BY <1>4

\* The number nothing exceeds is what Max chooses.
LEMMA Greatest ==
  ASSUME NEW S, NEW m \in S, \A y \in S : m >= y
  PROVE  Max(S) \in S /\ \A y \in S : Max(S) >= y
<1>1. Max(S) = CHOOSE x \in S : \A y \in S : x >= y
  BY DEF Max
<1>2. \E x \in S : \A y \in S : x >= y
  OBVIOUS
<1> DEFINE P(x) == x \in S /\ \A y \in S : x >= y
<1>3. \E x : P(x)
  OBVIOUS
<1>4. P(CHOOSE x : P(x))
  BY <1>3, Zenon
<1> QED
  BY <1>1, <1>4

\* Induction over the numbers, for a set of them.
LEMMA NumbersAll ==
  ASSUME NEW T, 0 \in T, \A n \in Nat : n \in T => n + 1 \in T
  PROVE  \A n \in Nat : n \in T
<1> DEFINE Missing == {n \in Nat : n \notin T}
<1> SUFFICES ASSUME Missing # {} PROVE FALSE
  OBVIOUS
<1>1. PICK least \in Missing : \A n \in Missing : least <= n
  BY LeastNumber
<1>2. least \in Nat /\ least # 0 /\ least - 1 \in Nat
  OBVIOUS
<1>3. least - 1 \in T
  BY <1>1, <1>2
<1>4. (least - 1) + 1 \in T
  BY <1>2, <1>3
<1> QED
  BY <1>2, <1>4

\* Induction over the subsets of a finite set, for a family F of them: what holds of the
\* empty set, and of a set when it holds of the set without any one element, holds of all.
LEMMA SubsetsAll ==
  ASSUME NEW S, IsFiniteSet(S), NEW F, {} \in F,
         \A s \in SUBSET S : s # {} /\ (\A x \in s : s \ {x} \in F) => s \in F
  PROVE  \A s \in SUBSET S : s \in F
<1> DEFINE T == {n \in Nat : \A s \in SUBSET S : Cardinality(s) = n => s \in F}
<1>1. \A s \in SUBSET S : IsFiniteSet(s) /\ Cardinality(s) \in Nat
  BY FS_Subset, FS_CardinalityType
<1>2. 0 \in T
  BY <1>1, FS_EmptySet
<1>3. ASSUME NEW n \in Nat, n \in T PROVE n + 1 \in T
  <2> SUFFICES ASSUME NEW s \in SUBSET S, Cardinality(s) = n + 1 PROVE s \in F
    OBVIOUS
  <2>0. IsFiniteSet(s) /\ n + 1 # 0 /\ (n + 1) - 1 = n
    BY <1>1
  <2>1. s # {}
    BY <2>0, FS_EmptySet
  <2>2. ASSUME NEW x \in s PROVE s \ {x} \in F
    <3>1. Cardinality(s \ {x}) = Cardinality(s) - 1
      BY <2>0, FS_RemoveElement
    <3>2. Cardinality(s \ {x}) = n
      BY <2>0, <3>1
    <3>3. s \ {x} \in SUBSET S
      OBVIOUS
    <3> QED
      BY <1>3, <3>2, <3>3
  <2> QED
    BY <2>1, <2>2
<1> HIDE DEF T
<1>4. \A n \in Nat : n \in T
  BY <1>2, <1>3, NumbersAll
<1> QED
  BY <1>1, <1>4 DEF T

-----------------------------------------------------------------------------
(* Sums.                                                                   *)

\* The recursion by which the sum is computed: an element is chosen and taken away.
Step(f, g, s) ==
  IF s = {} THEN 0 ELSE f[CHOOSE x \in s : TRUE] + g[s \ {CHOOSE x \in s : TRUE}]

Summed(f, S) == CHOOSE g : g = [s \in SUBSET S |-> Step(f, g, s)]

LEMMA SumIsStepped ==
  ASSUME NEW f, NEW S
  PROVE  SumFunctionOnSet(f, S) = Summed(f, S)[S]
  BY DEF SumFunctionOnSet, FoldFunctionOnSet, MapThenFoldSet, Summed, Step

\* The recursion has a solution over the subsets of a finite set.
LEMMA StepsExist ==
  ASSUME NEW f, NEW S, IsFiniteSet(S)
  PROVE  \A s \in SUBSET S : Summed(f, S)[s] = Step(f, Summed(f, S), s)
<1> DEFINE Upto(n) == {s \in SUBSET S : Cardinality(s) <= n}
<1> DEFINE T == {n \in Nat : \E g : g = [s \in Upto(n) |-> Step(f, g, s)]}
<1>1. \A s \in SUBSET S : IsFiniteSet(s) /\ Cardinality(s) \in Nat
  BY FS_Subset, FS_CardinalityType
<1>2. \A s \in SUBSET S : s # {} =>
        LET x == CHOOSE y \in s : TRUE
        IN s \ {x} \in SUBSET S /\ Cardinality(s \ {x}) = Cardinality(s) - 1
  BY <1>1, FS_RemoveElement
<1>3. 0 \in T
  <2> DEFINE g == [s \in Upto(0) |-> 0]
  <2>1. \A s \in Upto(0) : s = {}
    BY <1>1, FS_EmptySet
  <2>2. g = [s \in Upto(0) |-> Step(f, g, s)]
    BY <2>1 DEF Step
  <2> QED
    BY <2>2
<1>4. ASSUME NEW n \in Nat, n \in T PROVE n + 1 \in T
  <2>1. PICK g : g = [s \in Upto(n) |-> Step(f, g, s)]
    BY <1>4
  <2> DEFINE h == [s \in Upto(n + 1) |-> Step(f, g, s)]
  <2>2. ASSUME NEW s \in Upto(n + 1) PROVE Step(f, g, s) = Step(f, h, s)
    <3>1. CASE s = {}
      BY <3>1 DEF Step
    <3>2. CASE s # {}
      <4> DEFINE rest == s \ {CHOOSE y \in s : TRUE}
      <4>1. rest \in Upto(n) /\ rest \in Upto(n + 1)
        BY <1>1, <1>2, <3>2
      <4>2. g[rest] = Step(f, g, rest)
        BY <2>1, <4>1
      <4>3. h[rest] = Step(f, g, rest)
        BY <4>1
      <4> QED
        BY <4>2, <4>3 DEF Step
    <3> QED
      BY <3>1, <3>2
  <2>3. h = [s \in Upto(n + 1) |-> Step(f, h, s)]
    BY <2>2
  <2> HIDE DEF h
  <2>4. \E k : k = [s \in Upto(n + 1) |-> Step(f, k, s)]
    BY <2>3
  <2>5. n + 1 \in Nat
    OBVIOUS
  <2> QED
    BY <2>4, <2>5
<1> HIDE DEF T
<1>5. Cardinality(S) \in T
  BY <1>1, <1>3, <1>4, NumbersAll
<1>6. Upto(Cardinality(S)) = SUBSET S
  BY <1>1, FS_Subset
<1>7. \E g : g = [s \in SUBSET S |-> Step(f, g, s)]
  BY <1>5, <1>6 DEF T
<1>8. Summed(f, S) = [s \in SUBSET S |-> Step(f, Summed(f, S), s)]
  BY <1>7 DEF Summed
<1> DEFINE sum == Summed(f, S)
<1> HIDE DEF sum
<1>9. sum = [s \in SUBSET S |-> Step(f, sum, s)]
  BY <1>8 DEF sum
<1>10. \A s \in SUBSET S : sum[s] = Step(f, sum, s)
  BY <1>9
<1> QED
  BY <1>10 DEF sum

\* The solution is the same whichever finite set it is made over.
LEMMA SummedAgrees ==
  ASSUME NEW f, NEW S, IsFiniteSet(S)
  PROVE  \A s \in SUBSET S : \A U \in SUBSET S : s \subseteq U => Summed(f, U)[s] = Summed(f, S)[s]
<1> DEFINE F == {s \in SUBSET S : \A U \in SUBSET S : s \subseteq U => Summed(f, U)[s] = Summed(f, S)[s]}
<1>1. \A U \in SUBSET S : \A s \in SUBSET U : Summed(f, U)[s] = Step(f, Summed(f, U), s)
  BY FS_Subset, StepsExist
<1>2. {} \in F
  BY <1>1 DEF Step
<1>3. ASSUME NEW s \in SUBSET S, s # {}, \A x \in s : s \ {x} \in F
      PROVE  s \in F
  <2> SUFFICES ASSUME NEW U \in SUBSET S, s \subseteq U
               PROVE  Summed(f, U)[s] = Summed(f, S)[s]
    OBVIOUS
  <2> DEFINE x == CHOOSE y \in s : TRUE
  <2>1. x \in s /\ s \ {x} \in F
    BY <1>3
  <2>2. Summed(f, U)[s \ {x}] = Summed(f, S)[s \ {x}]
    BY <2>1
  <2>3. Summed(f, U)[s] = f[x] + Summed(f, U)[s \ {x}]
    BY <1>1, <1>3 DEF Step
  <2>4. Summed(f, S)[s] = f[x] + Summed(f, S)[s \ {x}]
    BY <1>1, <1>3 DEF Step
  <2> QED
    BY <2>2, <2>3, <2>4
<1> HIDE DEF F
<1>4. \A s \in SUBSET S : s \in F
  BY <1>2, <1>3, SubsetsAll
<1> QED
  BY <1>4 DEF F

\* The sum over the empty set, and over a set of which the chosen element is taken away.
LEMMA SumChosen ==
  ASSUME NEW f, NEW S, IsFiniteSet(S)
  PROVE  /\ S = {} => SumFunctionOnSet(f, S) = 0
         /\ S # {} => \E x \in S :
              SumFunctionOnSet(f, S) = f[x] + SumFunctionOnSet(f, S \ {x})
<1> DEFINE g == Summed(f, S)
<1>1. SumFunctionOnSet(f, S) = g[S]
  BY SumIsStepped
<1>2. \A s \in SUBSET S : g[s] = Step(f, g, s)
  BY StepsExist
<1>3. \A x \in S : SumFunctionOnSet(f, S \ {x}) = g[S \ {x}]
  BY SumIsStepped, SummedAgrees
<1> HIDE DEF g
<1>4. g[S] = Step(f, g, S)
  BY <1>2
<1>5. CASE S = {}
  BY <1>1, <1>4, <1>5 DEF Step
<1>6. CASE S # {}
  <2> DEFINE x == CHOOSE y \in S : TRUE
  <2>1. x \in S
    BY <1>6
  <2>2. g[S] = f[x] + g[S \ {x}]
    BY <1>4, <1>6 DEF Step
  <2> HIDE DEF x
  <2> QED
    BY <1>1, <1>3, <1>6, <2>1, <2>2
<1> QED
  BY <1>5, <1>6

LEMMA SumEmpty ==
  ASSUME NEW f
  PROVE  SumFunctionOnSet(f, {}) = 0
BY SumChosen, FS_EmptySet

\* A sum of members of a set that 0 belongs to and addition stays in.
LEMMA SumWithin ==
  ASSUME NEW f, NEW S, IsFiniteSet(S), NEW N, 0 \in N, \A a, b \in N : a + b \in N, \A x \in S : f[x] \in N
  PROVE  SumFunctionOnSet(f, S) \in N
<1> DEFINE F == {s \in SUBSET S : SumFunctionOnSet(f, s) \in N}
<1>1. 0 \in N /\ \A a, b \in N : a + b \in N
  OBVIOUS
<1>2. {} \in F
  BY <1>1, SumEmpty
<1>3. ASSUME NEW s \in SUBSET S, s # {}, \A x \in s : s \ {x} \in F
      PROVE  s \in F
  <2>1. IsFiniteSet(s)
    BY FS_Subset
  <2>2. PICK x \in s : SumFunctionOnSet(f, s) = f[x] + SumFunctionOnSet(f, s \ {x})
    BY <1>3, <2>1, SumChosen
  <2>3. f[x] \in N /\ SumFunctionOnSet(f, s \ {x}) \in N
    BY <1>3
  <2> QED
    BY <1>1, <2>2, <2>3
<1> HIDE DEF F
<1>4. \A s \in SUBSET S : s \in F
  BY <1>2, <1>3, SubsetsAll
<1> QED
  BY <1>4 DEF F

\* A sum of numbers is a number; of natural numbers, a natural number.
LEMMA SumType ==
  ASSUME NEW f, NEW S, IsFiniteSet(S), NEW N, N \in {Int, Nat}, \A x \in S : f[x] \in N
  PROVE  SumFunctionOnSet(f, S) \in N
<1>1. 0 \in N /\ \A a, b \in N : a + b \in N
  BY SMT
<1> QED
  BY <1>1, SumWithin

\* Any element can be taken out of a sum.
LEMMA SumWithout ==
  ASSUME NEW f, NEW S, IsFiniteSet(S), \A x \in S : f[x] \in Int
  PROVE  \A y \in S : SumFunctionOnSet(f, S) = f[y] + SumFunctionOnSet(f, S \ {y})
<1> DEFINE Sum(s) == SumFunctionOnSet(f, s)
<1> DEFINE F == {s \in SUBSET S : \A z \in s : Sum(s) = f[z] + Sum(s \ {z})}
<1>1. \A s \in SUBSET S : IsFiniteSet(s) /\ Sum(s) \in Int
  BY FS_Subset, SumType
<1>2. {} \in F
  OBVIOUS
<1>3. ASSUME NEW s \in SUBSET S, s # {}, \A x \in s : s \ {x} \in F
      PROVE  s \in F
  <2> SUFFICES ASSUME NEW z \in s PROVE Sum(s) = f[z] + Sum(s \ {z})
    OBVIOUS
  <2>0. IsFiniteSet(s)
    BY <1>1
  <2>1. PICK x \in s : Sum(s) = f[x] + Sum(s \ {x})
    BY <1>3, <2>0, SumChosen
  <2>2. CASE x = z
    BY <2>1, <2>2
  <2>3. CASE x # z
    <3> DEFINE rest == (s \ {x}) \ {z}
    <3>1. rest = (s \ {z}) \ {x} /\ z \in s \ {x} /\ x \in s \ {z}
      BY <2>3
    <3>2. Sum(s \ {x}) = f[z] + Sum(rest)
      BY <1>3, <3>1
    <3>3. Sum(s \ {z}) = f[x] + Sum(rest)
      BY <1>3, <3>1
    <3>4. f[x] \in Int /\ f[z] \in Int /\ Sum(rest) \in Int
      BY <1>1
    <3> HIDE DEF Sum
    <3> QED
      BY <2>1, <3>2, <3>3, <3>4
  <2> QED
    BY <2>2, <2>3
<1> HIDE DEF F
<1>4. \A s \in SUBSET S : s \in F
  BY <1>2, <1>3, SubsetsAll
<1> QED
  BY <1>4 DEF F

\* A sum is no greater when no number in it is.
LEMMA SumMonotone ==
  ASSUME NEW f, NEW h, NEW S, IsFiniteSet(S),
         \A x \in S : f[x] \in Int /\ h[x] \in Int /\ f[x] <= h[x]
  PROVE  SumFunctionOnSet(f, S) <= SumFunctionOnSet(h, S)
<1> DEFINE F == {s \in SUBSET S : SumFunctionOnSet(f, s) <= SumFunctionOnSet(h, s)}
<1>1. \A s \in SUBSET S : /\ IsFiniteSet(s)
                          /\ SumFunctionOnSet(f, s) \in Int /\ SumFunctionOnSet(h, s) \in Int
  BY FS_Subset, SumType
<1>2. {} \in F
  BY SumEmpty
<1>3. ASSUME NEW s \in SUBSET S, s # {}, \A x \in s : s \ {x} \in F
      PROVE  s \in F
  <2>1. PICK x \in s : TRUE
    BY <1>3
  <2>2. /\ SumFunctionOnSet(f, s) = f[x] + SumFunctionOnSet(f, s \ {x})
        /\ SumFunctionOnSet(h, s) = h[x] + SumFunctionOnSet(h, s \ {x})
    BY <1>1, SumWithout
  <2>3. SumFunctionOnSet(f, s \ {x}) <= SumFunctionOnSet(h, s \ {x})
    BY <1>3
  <2>4. f[x] \in Int /\ h[x] \in Int /\ f[x] <= h[x] /\ s \ {x} \in SUBSET S
    OBVIOUS
  <2>5. SumFunctionOnSet(f, s \ {x}) \in Int /\ SumFunctionOnSet(h, s \ {x}) \in Int
    BY <1>1, <2>4
  <2>6. SumFunctionOnSet(f, s) <= SumFunctionOnSet(h, s)
    BY <2>2, <2>3, <2>4, <2>5
  <2> QED
    BY <2>6
<1> HIDE DEF F
<1>4. \A s \in SUBSET S : s \in F
  BY <1>2, <1>3, SubsetsAll
<1> QED
  BY <1>4 DEF F

\* Numbers that agree on the set have the same sum.
LEMMA SumSame ==
  ASSUME NEW f, NEW h, NEW S, IsFiniteSet(S),
         \A x \in S : f[x] \in Int /\ h[x] = f[x]
  PROVE  SumFunctionOnSet(f, S) = SumFunctionOnSet(h, S)
<1>1. /\ SumFunctionOnSet(f, S) <= SumFunctionOnSet(h, S)
      /\ SumFunctionOnSet(h, S) <= SumFunctionOnSet(f, S)
  BY SumMonotone
<1>2. SumFunctionOnSet(f, S) \in Int /\ SumFunctionOnSet(h, S) \in Int
  BY SumType
<1> QED
  BY <1>1, <1>2

\* A sum is that of a part and that of the rest.
LEMMA SumSplit ==
  ASSUME NEW f, NEW S, IsFiniteSet(S), \A x \in S : f[x] \in Int, NEW P \in SUBSET S
  PROVE  SumFunctionOnSet(f, S) = SumFunctionOnSet(f, P) + SumFunctionOnSet(f, S \ P)
<1> DEFINE Sum(s) == SumFunctionOnSet(f, s)
<1> DEFINE F == {s \in SUBSET S : Sum(s) = Sum(s \cap P) + Sum(s \ P)}
<1>1. \A s \in SUBSET S : IsFiniteSet(s) /\ Sum(s) \in Int
  BY FS_Subset, SumType
<1>2. {} \in F
  BY SumEmpty
<1>3. ASSUME NEW s \in SUBSET S, s # {}, \A x \in s : s \ {x} \in F
      PROVE  s \in F
  <2>1. PICK x \in s : TRUE
    BY <1>3
  <2>2. \A t \in SUBSET S : x \in t => Sum(t) = f[x] + Sum(t \ {x})
    BY <1>1, SumWithout
  <2>3. s \ {x} \in SUBSET S /\ s \cap P \in SUBSET S /\ s \ P \in SUBSET S
    OBVIOUS
  <2>4. Sum(s) = f[x] + Sum(s \ {x})
    BY <2>2
  <2>5. Sum(s \ {x}) = Sum((s \ {x}) \cap P) + Sum((s \ {x}) \ P)
    BY <1>3
  <2>6. /\ f[x] \in Int /\ Sum(s \cap P) \in Int /\ Sum(s \ P) \in Int
        /\ Sum((s \ {x}) \cap P) \in Int /\ Sum((s \ {x}) \ P) \in Int
    BY <1>1
  <2>7. CASE x \in P
    <3>1. (s \ {x}) \cap P = (s \cap P) \ {x} /\ (s \ {x}) \ P = s \ P
      BY <2>7
    <3>2. Sum(s \cap P) = f[x] + Sum((s \cap P) \ {x})
      BY <2>2, <2>3, <2>7
    <3>3. /\ Sum((s \ {x}) \cap P) = Sum((s \cap P) \ {x})
          /\ Sum((s \ {x}) \ P) = Sum(s \ P)
      BY <3>1, Zenon
    <3>4. Sum(s) = Sum(s \cap P) + Sum(s \ P)
      <4> HIDE DEF Sum
      <4> QED
        BY <2>4, <2>5, <2>6, <3>2, <3>3
    <3> QED
      BY <3>4
  <2>8. CASE x \notin P
    <3>1. (s \ {x}) \ P = (s \ P) \ {x} /\ (s \ {x}) \cap P = s \cap P
      BY <2>8
    <3>2. Sum(s \ P) = f[x] + Sum((s \ P) \ {x})
      BY <2>2, <2>3, <2>8
    <3>3. /\ Sum((s \ {x}) \cap P) = Sum(s \cap P)
          /\ Sum((s \ {x}) \ P) = Sum((s \ P) \ {x})
      BY <3>1, Zenon
    <3>4. Sum(s) = Sum(s \cap P) + Sum(s \ P)
      <4> HIDE DEF Sum
      <4> QED
        BY <2>4, <2>5, <2>6, <3>2, <3>3
    <3> QED
      BY <3>4
  <2> QED
    BY <2>7, <2>8
<1> HIDE DEF F
<1>4. \A s \in SUBSET S : s \in F
  BY <1>2, <1>3, SubsetsAll
<1>5. Sum(S) = Sum(S \cap P) + Sum(S \ P)
  BY <1>4 DEF F
<1>6. S \cap P = P
  OBVIOUS
<1> QED
  BY <1>5, <1>6

\* A part of a sum of natural numbers is no greater than the whole.
LEMMA SumPart ==
  ASSUME NEW f, NEW S, IsFiniteSet(S), \A x \in S : f[x] \in Nat, NEW P \in SUBSET S
  PROVE  SumFunctionOnSet(f, P) <= SumFunctionOnSet(f, S)
<1>1. IsFiniteSet(P) /\ IsFiniteSet(S \ P) /\ (S \ P) \subseteq S
  BY FS_Subset
<1>2. \A x \in P : f[x] \in Nat
  OBVIOUS
<1>3. \A x \in S \ P : f[x] \in Nat
  OBVIOUS
<1>4. SumFunctionOnSet(f, P) \in Nat
  BY <1>1, <1>2, SumType
<1>5. SumFunctionOnSet(f, S \ P) \in Nat
  BY <1>1, <1>3, SumType
<1>6. \A x \in S : f[x] \in Int
  OBVIOUS
<1>7. SumFunctionOnSet(f, S) = SumFunctionOnSet(f, P) + SumFunctionOnSet(f, S \ P)
  BY <1>6, SumSplit
<1> QED
  BY <1>4, <1>5, <1>7

-----------------------------------------------------------------------------
(* Counting.                                                               *)

\* What a finite set is mapped to is finite.
LEMMA ImageFinite ==
  ASSUME NEW S, IsFiniteSet(S), NEW f
  PROVE  IsFiniteSet({f[x] : x \in S})
<1> DEFINE T == {f[x] : x \in S}
<1> DEFINE g == [x \in S |-> f[x]]
<1>1. g \in Surjection(S, T)
  BY DEF Surjection
<1> QED
  BY <1>1, FS_Surjection

\* A finite set has as many elements as the sum of a one for each.
LEMMA SumOfOnes ==
  ASSUME NEW S, IsFiniteSet(S), NEW f, \A x \in S : f[x] \in {1}
  PROVE  SumFunctionOnSet(f, S) = Cardinality(S)
<1> DEFINE F == {s \in SUBSET S : SumFunctionOnSet(f, s) = Cardinality(s)}
<1>1. {} \in F
  <2>1. SumFunctionOnSet(f, {}) = 0 /\ Cardinality({}) = 0
    BY SumEmpty, FS_EmptySet
  <2> QED
    BY <2>1
<1>2. ASSUME NEW s \in SUBSET S, s # {}, \A x \in s : s \ {x} \in F
      PROVE  s \in F
  <2>1. IsFiniteSet(s) /\ Cardinality(s) \in Nat
    BY FS_Subset, FS_CardinalityType
  <2>2. PICK x \in s : SumFunctionOnSet(f, s) = f[x] + SumFunctionOnSet(f, s \ {x})
    BY <1>2, <2>1, SumChosen
  <2>3. Cardinality(s \ {x}) = Cardinality(s) - 1
    BY <2>1, FS_RemoveElement
  <2>4. SumFunctionOnSet(f, s \ {x}) = Cardinality(s \ {x}) /\ f[x] = 1
    BY <1>2
  <2>5. SumFunctionOnSet(f, s) = Cardinality(s)
    BY <2>1, <2>2, <2>3, <2>4
  <2> QED
    BY <2>5
<1> HIDE DEF F
<1>3. \A s \in SUBSET S : s \in F
  BY <1>1, <1>2, SubsetsAll
<1> QED
  BY <1>3 DEF F

\* The elements of S that a key files under b, and the sum of each group.
Group(S, key, b) == {x \in S : key[x] = b}

Grouped(f, S, key, B) == [b \in B |-> SumFunctionOnSet(f, Group(S, key, b))]

\* A sum is that of the sums of its groups, when every element is in one of them.
LEMMA SumOfGroups ==
  ASSUME NEW f, NEW S, IsFiniteSet(S), \A x \in S : f[x] \in Int,
         NEW B, IsFiniteSet(B), NEW key, \A x \in S : key[x] \in B
  PROVE  SumFunctionOnSet(Grouped(f, S, key, B), B) = SumFunctionOnSet(f, S)
<1> DEFINE g == Grouped(f, S, key, B)
<1> DEFINE Within(b) == {x \in S : key[x] \in b}
<1> DEFINE Sum(s) == SumFunctionOnSet(f, s)
<1> DEFINE F == {b \in SUBSET B : SumFunctionOnSet(g, b) = Sum(Within(b))}
<1>1. \A s \in SUBSET S : IsFiniteSet(s) /\ Sum(s) \in Int
  BY FS_Subset, SumType
<1>2. \A b \in B : g[b] = Sum(Group(S, key, b)) /\ Group(S, key, b) \in SUBSET S
  BY DEF Grouped, Group
<1> HIDE DEF g
<1>3. {} \in F
  <2>1. SumFunctionOnSet(g, {}) = 0 /\ Sum({}) = 0
    BY SumEmpty
  <2>2. Within({}) = {}
    OBVIOUS
  <2> QED
    BY <2>1, <2>2
<1>4. ASSUME NEW b \in SUBSET B, b # {}, \A x \in b : b \ {x} \in F
      PROVE  b \in F
  <2>1. IsFiniteSet(b)
    BY FS_Subset
  <2>2. PICK x \in b : SumFunctionOnSet(g, b) = g[x] + SumFunctionOnSet(g, b \ {x})
    BY <1>4, <2>1, SumChosen
  <2> DEFINE all == Within(b)
  <2> DEFINE part == Group(S, key, x)
  <2>3. all \in SUBSET S /\ part \in SUBSET all /\ all \ part = Within(b \ {x})
    BY DEF Group
  <2>4. IsFiniteSet(all) /\ \A y \in all : f[y] \in Int
    BY <1>1, <2>3
  <2>5. Sum(all) = Sum(part) + Sum(all \ part)
    BY <2>3, <2>4, SumSplit
  <2>6. SumFunctionOnSet(g, b \ {x}) = Sum(Within(b \ {x}))
    BY <1>4
  <2>7. g[x] = Sum(part)
    BY <1>2
  <2>8. Sum(all \ part) = Sum(Within(b \ {x}))
    BY <2>3, Zenon
  <2>9. SumFunctionOnSet(g, b) = Sum(all)
    <3> HIDE DEF Sum, all, part, Within
    <3> QED
      BY <2>2, <2>5, <2>6, <2>7, <2>8
  <2> QED
    BY <2>9
<1> HIDE DEF F
<1>5. \A b \in SUBSET B : b \in F
  BY <1>3, <1>4, SubsetsAll
<1>6. SumFunctionOnSet(g, B) = Sum(Within(B))
  BY <1>5 DEF F
<1>7. Within(B) = S
  OBVIOUS
<1> QED
  BY <1>6, <1>7 DEF g

\* So do the groups of a set have its elements between them.
LEMMA CountOfGroups ==
  ASSUME NEW S, IsFiniteSet(S), NEW B, IsFiniteSet(B), NEW key, \A x \in S : key[x] \in B,
         NEW g, \A b \in B : g[b] = Cardinality(Group(S, key, b))
  PROVE  SumFunctionOnSet(g, B) = Cardinality(S)
<1> DEFINE f == [x \in S |-> 1]
<1>1. \A x \in S : f[x] \in Int
  OBVIOUS
<1>2. SumFunctionOnSet(f, S) = Cardinality(S)
  <2>1. \A x \in S : f[x] \in {1}
    OBVIOUS
  <2> QED
    BY <2>1, SumOfOnes
<1> DEFINE h == Grouped(f, S, key, B)
<1>3. ASSUME NEW b \in B PROVE h[b] \in Int /\ g[b] = h[b]
  <2>1. Group(S, key, b) \in SUBSET S
    BY DEF Group
  <2>2. IsFiniteSet(Group(S, key, b)) /\ \A x \in Group(S, key, b) : f[x] \in {1}
    BY <2>1, FS_Subset
  <2>3. SumFunctionOnSet(f, Group(S, key, b)) = Cardinality(Group(S, key, b))
    BY <2>2, SumOfOnes
  <2>4. Cardinality(Group(S, key, b)) \in Nat
    BY <2>2, FS_CardinalityType
  <2> QED
    BY <2>3, <2>4 DEF Grouped
<1> HIDE DEF f
<1>4. SumFunctionOnSet(h, B) = SumFunctionOnSet(f, S)
  BY <1>1, SumOfGroups
<1> HIDE DEF h
<1>5. SumFunctionOnSet(h, B) = SumFunctionOnSet(g, B)
  BY <1>3, SumSame
<1> QED
  BY <1>2, <1>4, <1>5

\* Sets that cover V have at least its elements between them.
LEMMA CountOfCover ==
  ASSUME NEW V, IsFiniteSet(V), NEW B, IsFiniteSet(B), NEW part,
         \A b \in B : part[b] \subseteq V, \A v \in V : \E b \in B : v \in part[b],
         NEW g, \A b \in B : g[b] = Cardinality(part[b])
  PROVE  Cardinality(V) <= SumFunctionOnSet(g, B)
<1> DEFINE Covered(b) == {v \in V : \E c \in b : v \in part[c]}
<1> DEFINE F == {b \in SUBSET B : Cardinality(Covered(b)) <= SumFunctionOnSet(g, b)}
<1>1. \A s \in SUBSET V : IsFiniteSet(s) /\ Cardinality(s) \in Nat
  BY FS_Subset, FS_CardinalityType
<1>2. \A b \in B : g[b] \in Nat
  BY <1>1
<1>3. {} \in F
  <2>1. SumFunctionOnSet(g, {}) = 0 /\ Cardinality({}) = 0 /\ Covered({}) = {}
    BY SumEmpty, FS_EmptySet
  <2> QED
    BY <2>1
<1>4. ASSUME NEW b \in SUBSET B, b # {}, \A x \in b : b \ {x} \in F
      PROVE  b \in F
  <2>1. IsFiniteSet(b) /\ \A x \in b : IsFiniteSet(b \ {x})
    BY FS_Subset
  <2>2. PICK x \in b : SumFunctionOnSet(g, b) = g[x] + SumFunctionOnSet(g, b \ {x})
    BY <1>4, <2>1, SumChosen
  <2> DEFINE before == Covered(b \ {x})
  <2>3. /\ Covered(b) = part[x] \cup before
        /\ part[x] \in SUBSET V /\ before \in SUBSET V /\ part[x] \cap before \in SUBSET V
    OBVIOUS
  <2>4. /\ IsFiniteSet(part[x]) /\ IsFiniteSet(before)
        /\ Cardinality(part[x]) \in Nat /\ Cardinality(before) \in Nat
        /\ Cardinality(part[x] \cap before) \in Nat
    BY <1>1, <2>3
  <2>5. Cardinality(part[x] \cup before)
          = Cardinality(part[x]) + Cardinality(before) - Cardinality(part[x] \cap before)
    BY <2>4, FS_Union
  <2>6. Cardinality(before) <= SumFunctionOnSet(g, b \ {x})
    BY <1>4
  <2>7. SumFunctionOnSet(g, b \ {x}) \in Nat
    <3>1. \A y \in b \ {x} : g[y] \in Nat
      BY <1>2
    <3> QED
      BY <2>1, <3>1, SumType
  <2>8. g[x] = Cardinality(part[x])
    OBVIOUS
  <2>9. Cardinality(Covered(b)) <= SumFunctionOnSet(g, b)
    <3>1. Cardinality(Covered(b)) = Cardinality(part[x] \cup before)
      BY <2>3, Zenon
    <3> HIDE DEF before, Covered
    <3> QED
      BY <2>2, <2>4, <2>5, <2>6, <2>7, <2>8, <3>1
  <2> QED
    BY <2>9
<1> HIDE DEF F
<1>5. \A b \in SUBSET B : b \in F
  BY <1>3, <1>4, SubsetsAll
<1>6. Cardinality(Covered(B)) <= SumFunctionOnSet(g, B)
  BY <1>5 DEF F
<1>7. Covered(B) = V
  OBVIOUS
<1> QED
  BY <1>6, <1>7
=============================================================================
