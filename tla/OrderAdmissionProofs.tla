------------------------- MODULE OrderAdmissionProofs -------------------------
(***************************************************************************)
(* Proofs about OrderAdmission, for any finite sets of orders and contracts *)
(* and any quantities, positions and limits.  Positions and pending exits   *)
(* are sums over the orders of a contract, so the module begins with sums:  *)
(* the recursive function inside SumFunctionOnSet exists, and what it       *)
(* computes does not depend on the order of summation.                      *)
(***************************************************************************)
EXTENDS OrderAdmission, FiniteSetTheorems, TLAPS

-----------------------------------------------------------------------------
(* Sums over finite sets *)

\* Induction over the subsets of a finite set, as the existence of a least one.
LEMMA LeastSubset ==
    ASSUME NEW S, IsFiniteSet(S), NEW T, T \subseteq SUBSET S, T # {}
    PROVE  \E A \in T : \A B \in T : B \subseteq A => B = A
<1>1. IsWellFoundedOn(StrictSubsetOrdering(S), SUBSET S)
  BY Zenon, FS_StrictSubsetOrderingWellFounded, FS_FiniteSubsetsOfFinite
<1>2. PICK A \in T : \A B \in T : <<B, A>> \notin StrictSubsetOrdering(S)
  BY Zenon, <1>1, WFMin
<1>3. \A B \in T : B \subseteq A => B = A
  BY Zenon, <1>2 DEF StrictSubsetOrdering
<1> QED
  BY Zenon, <1>3

\* What holds of the empty set, and of a set when it holds of one element less, holds of
\* every finite set.
LEMMA FiniteInduction ==
    ASSUME NEW S, IsFiniteSet(S), NEW Good, {} \in Good,
           \A T \in SUBSET S : \A y \in T : T \ {y} \in Good => T \in Good
    PROVE  S \in Good
<1> DEFINE Bad == (SUBSET S) \ Good
<1>1. SUFFICES ASSUME Bad # {} PROVE FALSE
  BY Zenon
<1>2. Bad \subseteq SUBSET S
  BY Zenon
<1>3. PICK T \in Bad : \A B \in Bad : B \subseteq T => B = T
  <2> HIDE DEF Bad
  <2> QED
    BY <1>1, <1>2, LeastSubset
<1>4. PICK y \in T : TRUE
  BY <1>3
<1>5. T \ {y} \in Good
  BY Zenon, <1>3, <1>4
<1> QED
  BY Zenon, <1>3, <1>4, <1>5

LEMMA LeastNatural ==
    ASSUME NEW T, T \subseteq Nat, T # {}
    PROVE  \E n \in T : \A m \in T : n <= m
<1>1. PICK n \in T : \A m \in T : <<m, n>> \notin OpToRel(<, Nat)
  BY Zenon, NatLessThanWellFounded, WFMin
<1>2. \A m \in T : ~(m < n)
  BY Zenon, <1>1 DEF OpToRel
<1> QED
  BY <1>2

Pick(s) == CHOOSE x \in s : TRUE
Step(f, g, s) == IF s = {} THEN 0 ELSE f[Pick(s)] + g[s \ {Pick(s)}]

LEMMA Unfold ==
    ASSUME NEW f, NEW S
    PROVE  SumFunctionOnSet(f, S) = (CHOOSE g : g = [s \in SUBSET S |-> Step(f, g, s)])[S]
  BY Zenon DEF SumFunctionOnSet, FoldFunctionOnSet, MapThenFoldSet, Step, Pick

Computes(f, S, n) ==
    \E g \in [SUBSET S -> Int] : \A s \in SUBSET S : Cardinality(s) <= n => g[s] = Step(f, g, s)

\* Up to any cardinality there is a function that computes the sums.
LEMMA PartialSums ==
    ASSUME NEW S, IsFiniteSet(S), NEW f, \A x \in S : f[x] \in Int, NEW n \in Nat
    PROVE  Computes(f, S, n)
<1> DEFINE Good(k) == Computes(f, S, k)
           Bad == {k \in Nat : ~Good(k)}
<1>0. ASSUME NEW s \in SUBSET S
      PROVE  /\ Cardinality(s) \in Nat /\ (s = {} <=> Cardinality(s) = 0)
             /\ s # {} => /\ Pick(s) \in s /\ f[Pick(s)] \in Int
                          /\ s \ {Pick(s)} \in SUBSET S
                          /\ Cardinality(s \ {Pick(s)}) = Cardinality(s) - 1
  <2>1. IsFiniteSet(s) /\ Cardinality(s) \in Nat
    BY Zenon, FS_Subset, FS_CardinalityType
  <2>2. s = {} <=> Cardinality(s) = 0
    BY Zenon, <2>1, FS_EmptySet
  <2>3. s # {} => Pick(s) \in s
    BY Zenon DEF Pick
  <2>4. s # {} => Cardinality(s \ {Pick(s)}) = Cardinality(s) - 1
    BY Zenon, <2>1, <2>3, FS_RemoveElement
  <2> QED
    BY Zenon, <2>1, <2>2, <2>3, <2>4
<1>1. SUFFICES ASSUME ~Good(n) PROVE FALSE
  BY Zenon
<1>2. n \in Bad /\ Bad \subseteq Nat
  BY Zenon, <1>1
<1>2a. \A m \in Nat : m \in Bad <=> ~Good(m)
  BY Zenon
<1> HIDE DEF Bad, Good
<1>3. PICK k \in Bad : \A m \in Bad : k <= m
  BY Zenon, <1>2, LeastNatural
<1>4. k \in Nat /\ ~Good(k) /\ \A m \in Nat : m < k => Good(m)
  BY <1>2, <1>2a, <1>3
<1>5. k # 0
  <2>1. ASSUME k = 0 PROVE Good(k)
    <3> DEFINE g == [s \in SUBSET S |-> 0]
    <3>1. g \in [SUBSET S -> Int]
      OBVIOUS
    <3>2. \A s \in SUBSET S : Cardinality(s) <= k => g[s] = Step(f, g, s)
      <4> SUFFICES ASSUME NEW s \in SUBSET S, Cardinality(s) <= k
                   PROVE  g[s] = Step(f, g, s)
        BY Zenon
      <4>0. Cardinality(s) \in Nat /\ (s = {} <=> Cardinality(s) = 0)
        BY Zenon, <1>0
      <4>1. s = {}
        BY <4>0, <2>1
      <4> QED
        BY Zenon, <4>1 DEF Step
    <3> QED
      BY Zenon, <3>1, <3>2 DEF Good, Computes
  <2> QED
    BY Zenon, <2>1, <1>4
<1>6. PICK h \in [SUBSET S -> Int] : \A s \in SUBSET S : Cardinality(s) <= k - 1 => h[s] = Step(f, h, s)
  <2>1. k - 1 \in Nat /\ k - 1 < k
    BY <1>4, <1>5
  <2> QED
    BY Zenon, <2>1, <1>4 DEF Good, Computes
<1> DEFINE g == [s \in SUBSET S |-> Step(f, h, s)]
<1>7. g \in [SUBSET S -> Int]
  BY <1>0 DEF Step
<1>8. ASSUME NEW s \in SUBSET S, Cardinality(s) <= k PROVE g[s] = Step(f, g, s)
  <2>1. CASE s = {}
    BY Zenon, <2>1 DEF Step
  <2>2. CASE s # {}
    <3> DEFINE t == s \ {Pick(s)}
    <3>1. t \in SUBSET S /\ Cardinality(t) <= k - 1
      BY <2>2, <1>0, <1>8, <1>4
    <3>2. g[t] = h[t]
      BY Zenon, <3>1, <1>6
    <3>3. g[s] = f[Pick(s)] + h[t] /\ Step(f, g, s) = f[Pick(s)] + g[t]
      BY Zenon, <2>2 DEF Step
    <3> QED
      BY Zenon, <3>2, <3>3
  <2> QED
    BY Zenon, <2>1, <2>2
<1>9. Good(k)
  BY Zenon, <1>7, <1>8 DEF Good, Computes
<1> QED
  BY Zenon, <1>9, <1>4

\* The recursive function inside SumFunctionOnSet.
SumsOf(f, S) == CHOOSE g : g = [s \in SUBSET S |-> Step(f, g, s)]

LEMMA SumsDefined ==
    ASSUME NEW S, IsFiniteSet(S), NEW f, \A x \in S : f[x] \in Int
    PROVE  /\ SumsOf(f, S) = [s \in SUBSET S |-> Step(f, SumsOf(f, S), s)]
           /\ SumsOf(f, S) \in [SUBSET S -> Int]
<1>1. Cardinality(S) \in Nat /\ \A s \in SUBSET S : Cardinality(s) <= Cardinality(S)
  BY Zenon, FS_CardinalityType, FS_Subset
<1>2. PICK g \in [SUBSET S -> Int] : \A s \in SUBSET S : g[s] = Step(f, g, s)
  <2>0. PICK n \in Nat : n = Cardinality(S)
    BY Zenon, <1>1
  <2>1. Computes(f, S, n)
    BY Zenon, PartialSums
  <2> QED
    BY Zenon, <1>1, <2>0, <2>1 DEF Computes
<1>3. g = [s \in SUBSET S |-> Step(f, g, s)]
  BY Zenon, <1>2
<1>4. SumsOf(f, S) = [s \in SUBSET S |-> Step(f, SumsOf(f, S), s)]
  BY Zenon, <1>3 DEF SumsOf
<1>5. SumsOf(f, S) \in [SUBSET S -> Int]
  <2> DEFINE F == SumsOf(f, S)
             Bad == {s \in SUBSET S : F[s] \notin Int}
  <2>1. ASSUME Bad # {} PROVE FALSE
    <3>0. Bad \subseteq SUBSET S
      BY Zenon
    <3>1. PICK A \in Bad : \A B \in Bad : B \subseteq A => B = A
      <4> HIDE DEF Bad
      <4> QED
        BY <2>1, <3>0, LeastSubset
    <3>2. A \in SUBSET S /\ F[A] = Step(f, F, A) /\ F[A] \notin Int
      BY Zenon, <1>4
    <3>3. A # {} /\ Pick(A) \in A
      BY <3>2 DEF Step, Pick
    <3>4. F[A \ {Pick(A)}] \in Int
      BY <3>1, <3>2, <3>3
    <3> QED
      BY <3>2, <3>3, <3>4 DEF Step
  <2> QED
    BY Zenon, <2>1, <1>4
<1> QED
  BY Zenon, <1>4, <1>5

Summable(f, S) == IsFiniteSet(S) /\ \A x \in S : f[x] \in Int

LEMMA SummableSubset ==
    ASSUME NEW f, NEW S, Summable(f, S), NEW T, T \subseteq S
    PROVE  Summable(f, T)
  BY Zenon, FS_Subset DEF Summable

LEMMA SumsStep ==
    ASSUME NEW f, NEW S, Summable(f, S), NEW T, T \subseteq S
    PROVE  /\ SumsOf(f, S)[T] = Step(f, SumsOf(f, S), T)
           /\ SumsOf(f, S)[T] \in Int
<1>1. /\ SumsOf(f, S) = [s \in SUBSET S |-> Step(f, SumsOf(f, S), s)]
      /\ SumsOf(f, S) \in [SUBSET S -> Int]
  BY Zenon, SumsDefined DEF Summable
<1> QED
  BY Zenon, <1>1

\* The sums over the subsets of a set do not depend on the set.
LEMMA SumsAgree ==
    ASSUME NEW f, NEW S, Summable(f, S), NEW T, T \subseteq S
    PROVE  SumsOf(f, S)[T] = SumsOf(f, T)[T]
<1> DEFINE F == SumsOf(f, S)
           G == SumsOf(f, T)
           Bad == {A \in SUBSET T : F[A] # G[A]}
<1>1. Summable(f, T) /\ IsFiniteSet(T)
  BY Zenon, SummableSubset DEF Summable
<1>2. \A A \in SUBSET T : F[A] = Step(f, F, A) /\ G[A] = Step(f, G, A)
  BY Zenon, <1>1, SumsStep
<1> HIDE DEF F, G
<1>3. ASSUME Bad # {} PROVE FALSE
  <2>0. Bad \subseteq SUBSET T
    BY Zenon
  <2>1. PICK A \in Bad : \A B \in Bad : B \subseteq A => B = A
    <3> HIDE DEF Bad
    <3> QED
      BY <1>1, <1>3, <2>0, LeastSubset
  <2>2. A \in SUBSET T /\ F[A] # G[A] /\ F[A] = Step(f, F, A) /\ G[A] = Step(f, G, A)
    BY Zenon, <1>2
  <2>3. A # {} /\ Pick(A) \in A
    BY Zenon, <2>2 DEF Step, Pick
  <2>4. F[A \ {Pick(A)}] = G[A \ {Pick(A)}]
    BY <2>1, <2>2, <2>3
  <2> QED
    BY Zenon, <2>2, <2>3, <2>4 DEF Step
<1> QED
  BY Zenon, <1>3 DEF F, G

LEMMA SumPick ==
    ASSUME NEW f, NEW S, Summable(f, S)
    PROVE  /\ SumFunctionOnSet(f, S) \in Int
           /\ S = {} => SumFunctionOnSet(f, S) = 0
           /\ S # {} => SumFunctionOnSet(f, S) = f[Pick(S)] + SumFunctionOnSet(f, S \ {Pick(S)})
<1>1. \A T \in SUBSET S : SumFunctionOnSet(f, T) = SumsOf(f, T)[T]
  BY Zenon, Unfold DEF SumsOf
<1>2. SumsOf(f, S)[S] = Step(f, SumsOf(f, S), S) /\ SumsOf(f, S)[S] \in Int
  BY Zenon, SumsStep
<1>3. S # {} => Pick(S) \in S
  BY Zenon DEF Pick
<1>4. S # {} => SumsOf(f, S)[S \ {Pick(S)}] = SumsOf(f, S \ {Pick(S)})[S \ {Pick(S)}]
  BY Zenon, SumsAgree
<1> QED
  BY Zenon, <1>1, <1>2, <1>3, <1>4 DEF Step

\* Any element may be taken out of a sum.
LEMMA SumRemove ==
    ASSUME NEW f, NEW S, Summable(f, S), NEW x \in S
    PROVE  SumFunctionOnSet(f, S) = f[x] + SumFunctionOnSet(f, S \ {x})
<1> DEFINE Sum(T) == SumFunctionOnSet(f, T)
           Splits(T) == \A y \in T : Sum(T) = f[y] + Sum(T \ {y})
           Bad == {T \in SUBSET S : ~Splits(T)}
<1>1. IsFiniteSet(S) /\ \A T \in SUBSET S : Summable(f, T)
  BY Zenon, SummableSubset DEF Summable
<1>2. \A T \in SUBSET S : /\ Sum(T) \in Int
                          /\ T # {} => Pick(T) \in T /\ Sum(T) = f[Pick(T)] + Sum(T \ {Pick(T)})
  BY Zenon, <1>1, SumPick DEF Pick
<1>2a. \A y \in S : f[y] \in Int
  BY Zenon DEF Summable
<1> HIDE DEF Sum
<1>3. ASSUME Bad # {} PROVE FALSE
  <2>0. Bad \subseteq SUBSET S
    BY Zenon
  <2>1. PICK T \in Bad : \A B \in Bad : B \subseteq T => B = T
    <3> HIDE DEF Bad
    <3> QED
      BY <1>1, <1>3, <2>0, LeastSubset
  <2>2. T \in SUBSET S /\ ~Splits(T) /\ \A B \in SUBSET T : B # T => Splits(B)
    BY Zenon, <2>1
  <2>3. PICK y \in T : Sum(T) # f[y] + Sum(T \ {y})
    BY Zenon, <2>2
  <2> DEFINE p == Pick(T)
  <2>4. p \in T /\ Sum(T) = f[p] + Sum(T \ {p}) /\ y # p
    BY Zenon, <1>2, <2>2, <2>3
  <2>5. Splits(T \ {p}) /\ Splits(T \ {y})
    BY Zenon, <2>2, <2>3, <2>4
  <2>6. Sum(T \ {p}) = f[y] + Sum((T \ {p}) \ {y}) /\ Sum(T \ {y}) = f[p] + Sum((T \ {y}) \ {p})
    BY Zenon, <2>3, <2>4, <2>5
  <2>7. (T \ {p}) \ {y} = (T \ {y}) \ {p} /\ Sum((T \ {p}) \ {y}) \in Int
    BY Zenon, <1>2, <2>2
  <2>8. f[p] \in Int /\ f[y] \in Int
    BY Zenon, <1>2a, <2>2, <2>3, <2>4
  <2> DEFINE rest == Sum((T \ {p}) \ {y})
  <2>9. Sum(T) = f[p] + (f[y] + rest) /\ Sum(T \ {y}) = f[p] + rest /\ rest \in Int
    BY Zenon, <2>4, <2>6, <2>7
  <2> HIDE DEF p, rest
  <2>10. f[y] + (f[p] + rest) = f[p] + (f[y] + rest)
    BY <2>8, <2>9
  <2> QED
    BY Zenon, <2>3, <2>9, <2>10
<1> QED
  BY Zenon, <1>3 DEF Sum

LEMMA SumFacts ==
    ASSUME NEW f, NEW S, Summable(f, S), NEW T \in SUBSET S
    PROVE  /\ SumFunctionOnSet(f, T) \in Int
           /\ T = {} => SumFunctionOnSet(f, T) = 0
           /\ \A y \in T : SumFunctionOnSet(f, T) = f[y] + SumFunctionOnSet(f, T \ {y})
<1>1. Summable(f, T)
  BY Zenon, SummableSubset
<1>2. SumFunctionOnSet(f, T) \in Int /\ (T = {} => SumFunctionOnSet(f, T) = 0)
  BY Zenon, <1>1, SumPick
<1>3. ASSUME NEW y \in T PROVE SumFunctionOnSet(f, T) = f[y] + SumFunctionOnSet(f, T \ {y})
  BY <1>1, SumRemove
<1> QED
  BY Zenon, <1>2, <1>3

LEMMA SumAdd ==
    ASSUME NEW f, NEW g, NEW h, NEW S, Summable(f, S), Summable(g, S), Summable(h, S),
           \A x \in S : h[x] = f[x] + g[x]
    PROVE  SumFunctionOnSet(h, S) = SumFunctionOnSet(f, S) + SumFunctionOnSet(g, S)
<1> DEFINE F(T) == SumFunctionOnSet(f, T)
           G(T) == SumFunctionOnSet(g, T)
           H(T) == SumFunctionOnSet(h, T)
           Good == {T \in SUBSET S : H(T) = F(T) + G(T)}
<1>1. ASSUME NEW T \in SUBSET S
      PROVE  /\ F(T) \in Int /\ G(T) \in Int
             /\ T = {} => F(T) = 0 /\ G(T) = 0 /\ H(T) = 0
             /\ \A y \in T : /\ F(T) = f[y] + F(T \ {y}) /\ G(T) = g[y] + G(T \ {y})
                             /\ H(T) = h[y] + H(T \ {y})
  BY SumFacts
<1>2. IsFiniteSet(S) /\ \A y \in S : f[y] \in Int /\ g[y] \in Int
  BY Zenon DEF Summable
<1> HIDE DEF F, G, H
<1>3. {} \in Good
  BY <1>1
<1>4. ASSUME NEW T \in SUBSET S, NEW y \in T, T \ {y} \in Good PROVE T \in Good
  <2>1. /\ F(T) = f[y] + F(T \ {y}) /\ G(T) = g[y] + G(T \ {y}) /\ H(T) = h[y] + H(T \ {y})
        /\ F(T \ {y}) \in Int /\ G(T \ {y}) \in Int
    BY Zenon, <1>1
  <2>2. f[y] \in Int /\ g[y] \in Int /\ h[y] = f[y] + g[y]
    BY Zenon, <1>2
  <2>3. H(T \ {y}) = F(T \ {y}) + G(T \ {y})
    BY Zenon, <1>4
  <2> QED
    BY <2>1, <2>2, <2>3
<1>5. S \in Good
  <2> HIDE DEF Good
  <2> QED
    BY Zenon, <1>2, <1>3, <1>4, FiniteInduction
<1> QED
  BY Zenon, <1>5 DEF F, G, H

LEMMA SumMono ==
    ASSUME NEW f, NEW g, NEW S, Summable(f, S), Summable(g, S), \A x \in S : f[x] <= g[x]
    PROVE  SumFunctionOnSet(f, S) <= SumFunctionOnSet(g, S)
<1> DEFINE F(T) == SumFunctionOnSet(f, T)
           G(T) == SumFunctionOnSet(g, T)
           Good == {T \in SUBSET S : F(T) <= G(T)}
<1>1. ASSUME NEW T \in SUBSET S
      PROVE  /\ F(T) \in Int /\ G(T) \in Int
             /\ T = {} => F(T) = 0 /\ G(T) = 0
             /\ \A y \in T : F(T) = f[y] + F(T \ {y}) /\ G(T) = g[y] + G(T \ {y})
  BY SumFacts
<1>2. IsFiniteSet(S) /\ \A y \in S : f[y] \in Int /\ g[y] \in Int
  BY Zenon DEF Summable
<1> HIDE DEF F, G
<1>3. {} \in Good
  BY <1>1
<1>4. ASSUME NEW T \in SUBSET S, NEW y \in T, T \ {y} \in Good PROVE T \in Good
  <2>1. /\ F(T) = f[y] + F(T \ {y}) /\ G(T) = g[y] + G(T \ {y})
        /\ F(T \ {y}) \in Int /\ G(T \ {y}) \in Int
    BY Zenon, <1>1
  <2>2. f[y] \in Int /\ g[y] \in Int /\ f[y] <= g[y]
    BY Zenon, <1>2
  <2>3. F(T \ {y}) <= G(T \ {y})
    BY Zenon, <1>4
  <2> QED
    BY <2>1, <2>2, <2>3
<1>5. S \in Good
  <2> HIDE DEF Good
  <2> QED
    BY Zenon, <1>2, <1>3, <1>4, FiniteInduction
<1> QED
  BY Zenon, <1>5 DEF F, G

\* A sum over a part of a set is one over the whole set.
LEMMA SumPart ==
    ASSUME NEW f, NEW g, NEW S, NEW P, P \subseteq S, Summable(f, P), Summable(g, S),
           \A x \in S : g[x] = IF x \in P THEN f[x] ELSE 0
    PROVE  SumFunctionOnSet(g, S) = SumFunctionOnSet(f, P)
<1> DEFINE F(T) == SumFunctionOnSet(f, T)
           G(T) == SumFunctionOnSet(g, T)
           Good == {T \in SUBSET S : G(T) = F(T \cap P)}
<1>1. ASSUME NEW T \in SUBSET S
      PROVE  /\ G(T) \in Int /\ (T = {} => G(T) = 0)
             /\ \A y \in T : G(T) = g[y] + G(T \ {y})
  BY Zenon, SumFacts
<1>2. ASSUME NEW T \in SUBSET P
      PROVE  /\ F(T) \in Int /\ (T = {} => F(T) = 0)
             /\ \A y \in T : F(T) = f[y] + F(T \ {y})
  BY SumFacts
<1> HIDE DEF F, G
<1>3. {} \in Good
  <2>1. {} \cap P = {}
    BY Zenon
  <2> QED
    BY Zenon, <1>1, <1>2, <2>1
<1>4. ASSUME NEW T \in SUBSET S, NEW y \in T, T \ {y} \in Good PROVE T \in Good
  <2>1. G(T \ {y}) = F((T \ {y}) \cap P) /\ G(T) = g[y] + G(T \ {y})
    BY Zenon, <1>1, <1>4
  <2>2. CASE y \in P
    <3>1. T \cap P \in SUBSET P /\ y \in T \cap P /\ (T \cap P) \ {y} = (T \ {y}) \cap P
      BY Zenon, <2>2
    <3>2. F(T \cap P) = f[y] + F((T \ {y}) \cap P)
      BY <1>2, <3>1
    <3> QED
      BY Zenon, <2>1, <2>2, <3>2
  <2>3. CASE y \notin P
    <3>1. (T \ {y}) \cap P = T \cap P /\ T \cap P \in SUBSET P
      BY Zenon, <2>3
    <3>2. g[y] = 0 /\ F(T \cap P) \in Int
      BY Zenon, <1>2, <2>3, <3>1
    <3>3. G(T) = 0 + F(T \cap P)
      BY Zenon, <2>1, <3>1, <3>2
    <3>4. 0 + F(T \cap P) = F(T \cap P)
      BY <3>2
    <3> QED
      BY Zenon, <3>3, <3>4
  <2> QED
    BY Zenon, <2>2, <2>3
<1>5. S \in Good
  <2>1. IsFiniteSet(S)
    BY Zenon DEF Summable
  <2> HIDE DEF Good
  <2> QED
    BY Zenon, <1>3, <1>4, <2>1, FiniteInduction
<1>6. S \cap P = P
  BY Zenon
<1> QED
  BY Zenon, <1>5, <1>6 DEF F, G

LEMMA SumZero ==
    ASSUME NEW f, NEW S, Summable(f, S), \A x \in S : f[x] = 0
    PROVE  SumFunctionOnSet(f, S) = 0
<1>1. Summable(f, {}) /\ SumFunctionOnSet(f, {}) = 0
  BY Zenon, SummableSubset, SumPick
<1> QED
  BY <1>1, SumPart

\* A sum of naturals is one, and no summand exceeds it.
LEMMA SumNat ==
    ASSUME NEW f, NEW S, Summable(f, S), \A x \in S : f[x] >= 0
    PROVE  /\ SumFunctionOnSet(f, S) \in Nat
           /\ \A x \in S : f[x] <= SumFunctionOnSet(f, S)
<1>1. ASSUME NEW T, T \subseteq S PROVE SumFunctionOnSet(f, T) \in Int /\ SumFunctionOnSet(f, T) >= 0
  <2> DEFINE z == [x \in T |-> 0]
  <2>1. Summable(f, T) /\ IsFiniteSet(T)
    BY Zenon, <1>1, SummableSubset DEF Summable
  <2>2. Summable(z, T) /\ \A x \in T : z[x] = 0 /\ z[x] <= f[x]
    BY <1>1, <2>1 DEF Summable
  <2> HIDE DEF z
  <2>3. SumFunctionOnSet(z, T) = 0 /\ SumFunctionOnSet(z, T) <= SumFunctionOnSet(f, T)
    BY Zenon, <2>1, <2>2, SumZero, SumMono
  <2> QED
    BY Zenon, <2>1, <2>3, SumPick
<1>2. ASSUME NEW x \in S PROVE f[x] <= SumFunctionOnSet(f, S)
  <2>1. SumFunctionOnSet(f, S) = f[x] + SumFunctionOnSet(f, S \ {x}) /\ f[x] \in Int
    BY SumRemove DEF Summable
  <2> QED
    BY <1>1, <2>1
<1> QED
  BY <1>1, <1>2

-----------------------------------------------------------------------------
(* The inductive invariant *)

Unsent == {"idle", "positions", "orders", "ready", "snapshot"}
Over == {"complete", "ended"}

TypeInv ==
    /\ TypeOK
    /\ filled \in [Orders -> Nat] /\ rowFilled \in [Orders -> Nat] /\ posFilled \in [Orders -> Nat]

\* Where an order is against the broker, its books, its reservation and the lease.
OrderOf(o) ==
    /\ pc[o] \in Unsent => status[o] = "none" /\ o \notin reserved /\ o \notin settled
    /\ status[o] \in {"none", "queued", "refused"} => filled[o] = 0
    /\ status[o] = "open" => filled[o] < Size(o)
    /\ row[o] = "open" => rowFilled[o] < Size(o)
    /\ row[o] \in Over => status[o] = row[o] /\ rowFilled[o] = filled[o]
    /\ inStep => rowFilled[o] = posFilled[o]
    /\ o \in exits => pc[o] \notin {"idle", "positions", "orders"}
    /\ lease = o <=> pc[o] \in {"snapshot", "sent"}
OrderInv == \A o \in Orders : OrderOf(o)

\* An order that may still move the position, and overlaps with no other, is reserved;
\* it alone moves its contract, and the position book shows where it started and what of
\* its fills it shows.
CountOf(o) ==
    Loose(o) /\ o \notin overlapped =>
        /\ o \in reserved /\ o \notin settled
        /\ \A p \in On(Contract[o]) : p # o => ~Loose(p)
        /\ Shown(Contract[o]) = starting[o] + Direction(o) * posFilled[o]
CountInv == \A o \in Orders : CountOf(o)

\* The snapshot of the lease's holder still counts every contract that is exposed.
ExposedContracts == {c \in Contracts : Exposed(c)}
LimitInv ==
    overlapped = {} =>
        /\ Cardinality(ExposedContracts) <= MaxPositions
        /\ \A o \in Orders : pc[o] = "snapshot" => ExposedContracts \subseteq OpenPositions

\* The account starts within the limit.
StartsWithin == Cardinality({c \in Contracts : Start[c] # 0}) <= MaxPositions

\* One classification of a contract at a time.
Reading(o) == pc[o] \in {"positions", "orders"}
LockInv == \A o, p \in Orders : Reading(o) /\ Reading(p) /\ Contract[o] = Contract[p] => o = p

\* An exit that may still fill more than the position book shows.
Alive(o) == o \in exits /\ (pc[o] \in {"ready", "snapshot"} \/ Loose(o))

\* Such an exit has a hold, and a classification under way does not drop it.
HoldOf(o) ==
    /\ Alive(o) => hold[o] # "none" /\ kept[o] # "none"
    /\ \A p \in On(Contract[o]) : pc[p] = "orders" /\ hold[o] = "covered" => kept[o] # "unseen"
HoldInv == inStep /\ crashes = 0 => \A o \in Orders : HoldOf(o)

\* What a classification has read as pending is at least what the exits whose rows it
\* has seen open may still fill, unless it could not read the orders.
Covering(o) ==
    [p \in Orders |-> IF kept[p] = "covered" /\ Buys(p) = Buys(o) THEN Size(p) - rowFilled[p] ELSE 0]
PendingOf(o) ==
    pc[o] = "orders" => \/ Abs(net[o]) <= pending[o]
                        \/ SumFunctionOnSet(Covering(o), On(Contract[o])) <= pending[o]
PendingInv == \A o \in Orders : PendingOf(o)

\* Only exits have reached the broker on this contract.
Pure(c) == \A o \in On(c) : o \notin exits => status[o] \in {"none", "queued", "refused"}

\* On such a contract the exits under way oppose the position, and all of them together
\* do not exceed it.
Outstanding == [o \in Orders |-> IF Alive(o) THEN Size(o) - posFilled[o] ELSE 0]
FlipOf(c) ==
    /\ Start[c] >= 0 => Shown(c) >= 0
    /\ Start[c] <= 0 => Shown(c) <= 0
    /\ SumFunctionOnSet(Outstanding, On(c)) <= Abs(Shown(c))
    /\ \A o \in On(c) : Alive(o) => Opposes(o, Shown(c))
FlipInv == inStep /\ crashes = 0 /\ torn = {} => \A c \in Contracts : Pure(c) => FlipOf(c)

AdmissionInv ==
    /\ TypeInv /\ OrderInv /\ CountInv /\ (StartsWithin => LimitInv)
    /\ LockInv /\ HoldInv /\ PendingInv /\ FlipInv

-----------------------------------------------------------------------------
(* Quantities, positions and pending exits *)

LEMMA OrderFacts ==
    ASSUME NEW o \in Orders
    PROVE  /\ Size(o) \in Nat /\ Size(o) > 0
           /\ Direction(o) \in {1, -1} /\ (Direction(o) = 1 <=> Buys(o)) /\ Buys(o) \in BOOLEAN
           /\ Contract[o] \in Contracts /\ o \in On(Contract[o])
<1>1. Quantity[o] \in Int /\ Quantity[o] # 0 /\ Contract[o] \in Contracts
  BY Zenon, OrdersAssumption
<1> QED
  BY <1>1 DEF Size, Abs, Direction, Buys, On

LEMMA OnFacts ==
    ASSUME NEW c
    PROVE  /\ On(c) \subseteq Orders /\ IsFiniteSet(On(c))
           /\ \A o \in Orders : o \in On(c) <=> Contract[o] = c
<1>1. On(c) \subseteq Orders /\ \A o \in Orders : o \in On(c) <=> Contract[o] = c
  BY Zenon DEF On
<1> QED
  BY Zenon, <1>1, FS_Subset, OrdersAssumption

LEMMA AbsFacts == \A n \in Int : /\ Abs(n) \in Nat /\ (n >= 0 => Abs(n) = n) /\ (n <= 0 => Abs(n) = -n)
  BY DEF Abs

\* The net quantity of a contract depends on the fills of its orders only.
LEMMA NetSame ==
    ASSUME NEW c \in Contracts, NEW f \in [Orders -> Nat], NEW g \in [Orders -> Nat],
           \A o \in On(c) : f[o] = g[o]
    PROVE  Net(c, f) \in Int /\ Net(c, g) = Net(c, f)
<1>1. \A o \in On(c) : /\ Signed(f)[o] \in Int /\ Signed(g)[o] \in Int
                       /\ Signed(f)[o] <= Signed(g)[o] /\ Signed(g)[o] <= Signed(f)[o]
  <2> TAKE o \in On(c)
  <2>1. o \in Orders /\ Direction(o) \in {1, -1}
    BY Zenon, OnFacts, OrderFacts
  <2> QED
    BY <2>1 DEF Signed
<1>2. Summable(Signed(f), On(c)) /\ Summable(Signed(g), On(c))
  BY Zenon, <1>1, OnFacts DEF Summable
<1>3. /\ SumFunctionOnSet(Signed(f), On(c)) \in Int /\ SumFunctionOnSet(Signed(g), On(c)) \in Int
      /\ SumFunctionOnSet(Signed(f), On(c)) <= SumFunctionOnSet(Signed(g), On(c))
      /\ SumFunctionOnSet(Signed(g), On(c)) <= SumFunctionOnSet(Signed(f), On(c))
  BY Zenon, <1>1, <1>2, SumPick, SumMono
<1>4. Start[c] \in Int
  BY Zenon, StartAssumption
<1> QED
  BY <1>3, <1>4 DEF Net

\* A change of the fills of a contract moves its net quantity by their signed difference.
LEMMA NetDifference ==
    ASSUME NEW c \in Contracts, NEW f \in [Orders -> Nat], NEW g \in [Orders -> Nat],
           NEW d, \A o \in On(c) : d[o] = Direction(o) * (g[o] - f[o])
    PROVE  /\ Summable(d, On(c)) /\ SumFunctionOnSet(d, On(c)) \in Int
           /\ Net(c, g) = Net(c, f) + SumFunctionOnSet(d, On(c))
<1>1. \A o \in On(c) : /\ Signed(f)[o] \in Int /\ Signed(g)[o] \in Int /\ d[o] \in Int
                       /\ Signed(g)[o] = Signed(f)[o] + d[o]
  <2> TAKE o \in On(c)
  <2>1. o \in Orders /\ Direction(o) \in {1, -1}
    BY Zenon, OnFacts, OrderFacts
  <2> QED
    BY <2>1 DEF Signed
<1>2. Summable(Signed(f), On(c)) /\ Summable(Signed(g), On(c)) /\ Summable(d, On(c))
  BY Zenon, <1>1, OnFacts DEF Summable
<1>3. SumFunctionOnSet(Signed(g), On(c)) = SumFunctionOnSet(Signed(f), On(c)) + SumFunctionOnSet(d, On(c))
  BY <1>1, <1>2, SumAdd
<1>4. /\ Start[c] \in Int /\ SumFunctionOnSet(d, On(c)) \in Int
      /\ SumFunctionOnSet(Signed(f), On(c)) \in Int
  BY Zenon, <1>2, SumPick, StartAssumption
<1> QED
  BY <1>2, <1>3, <1>4 DEF Net

\* When one order fills more, the net quantity of its contract moves by as much.
LEMMA NetStep ==
    ASSUME NEW o \in Orders, NEW f \in [Orders -> Nat], NEW g \in [Orders -> Nat],
           \A p \in On(Contract[o]) : p # o => f[p] = g[p]
    PROVE  Net(Contract[o], g) = Net(Contract[o], f) + Direction(o) * (g[o] - f[o])
<1> DEFINE c == Contract[o]
           d == [p \in Orders |-> Direction(p) * (g[p] - f[p])]
<1>1. c \in Contracts /\ o \in On(c) /\ Direction(o) \in {1, -1}
  BY Zenon, OrderFacts
<1>2. \A p \in On(c) : d[p] = Direction(p) * (g[p] - f[p])
  BY Zenon, OnFacts
<1>3. \A p \in On(c) \ {o} : d[p] = 0
  <2> TAKE p \in On(c) \ {o}
  <2>1. p \in Orders /\ Direction(p) \in {1, -1} /\ f[p] = g[p]
    BY Zenon, OnFacts, OrderFacts
  <2> QED
    BY <2>1, <1>2
<1> HIDE DEF d, c
<1>4. Summable(d, On(c)) /\ Net(c, g) = Net(c, f) + SumFunctionOnSet(d, On(c))
  BY Zenon, <1>1, <1>2, NetDifference
<1>5. SumFunctionOnSet(d, On(c)) = d[o] + SumFunctionOnSet(d, On(c) \ {o})
  BY <1>1, <1>4, SumRemove
<1>6. SumFunctionOnSet(d, On(c) \ {o}) = 0
  BY Zenon, <1>3, <1>4, SummableSubset, SumZero
<1>7. d[o] = Direction(o) * (g[o] - f[o]) /\ d[o] \in Int
  BY <1>1, <1>2
<1> QED
  BY <1>4, <1>5, <1>6, <1>7 DEF c

-----------------------------------------------------------------------------
(* Types *)

RequestType ==
    /\ pc \in [Orders -> {"idle", "positions", "orders", "ready", "snapshot", "sent", "done"}]
    /\ net \in [Orders -> Int] /\ pending \in [Orders -> Nat]
    /\ kept \in [Orders -> {"unseen", "none", "bound", "covered"}]
    /\ hold \in [Orders -> {"none", "flight", "unknown", "bound", "covered"}]
LeaseType ==
    /\ lease \in Orders \cup {NoOrder} /\ worst \in [Contracts -> Int] /\ settled \subseteq Orders
    /\ reserved \subseteq Orders /\ acknowledged \subseteq Orders /\ starting \in [Orders -> Int]
BrokerType ==
    /\ status \in [Orders -> {"none", "queued", "open", "refused", "complete", "ended"}]
    /\ row \in [Orders -> {"absent", "open", "complete", "ended"}]
    /\ filled \in [Orders -> Nat] /\ rowFilled \in [Orders -> Nat] /\ posFilled \in [Orders -> Nat]
    /\ \A o \in Orders : filled[o] <= Size(o) /\ rowFilled[o] <= filled[o] /\ posFilled[o] <= filled[o]
WorldType ==
    /\ inStep \in BOOLEAN /\ crashes \in 0 .. MaxCrashes
    /\ exits \subseteq Orders /\ torn \subseteq exits /\ overlapped \subseteq Orders

LEMMA TypeParts == TypeInv <=> RequestType /\ LeaseType /\ BrokerType /\ WorldType
<1>1. ASSUME filled \in [Orders -> Nat], rowFilled \in [Orders -> Nat], posFilled \in [Orders -> Nat],
             NEW o \in Orders
      PROVE  /\ filled[o] \in 0 .. Size(o) <=> filled[o] <= Size(o)
             /\ rowFilled[o] \in 0 .. filled[o] <=> rowFilled[o] <= filled[o]
             /\ posFilled[o] \in 0 .. filled[o] <=> posFilled[o] <= filled[o]
  BY <1>1, OrderFacts
<1> QED
  BY Zenon, <1>1 DEF TypeInv, TypeOK, RequestType, LeaseType, BrokerType, WorldType

LEMMA ShownType == ASSUME BrokerType, NEW c \in Contracts PROVE Shown(c) \in Int
  BY Zenon, NetSame DEF BrokerType, Shown

LEMMA PendingType ==
    ASSUME BrokerType, NEW c, NEW buys
    PROVE  PendingExits(c, buys) \in Nat
<1> DEFINE f == [o \in Orders |-> Size(o) - rowFilled[o]]
           S == {o \in On(c) : row[o] = "open" /\ Buys(o) = buys}
<1>1. S \subseteq Orders /\ IsFiniteSet(S)
  BY Zenon, OnFacts, FS_Subset
<1>2. \A o \in S : f[o] \in Int /\ f[o] >= 0
  BY <1>1, OrderFacts DEF BrokerType
<1> HIDE DEF f, S
<1>3. SumFunctionOnSet(f, S) \in Nat
  BY Zenon, <1>1, <1>2, SumNat DEF Summable
<1> QED
  BY Zenon, <1>3 DEF f, S, PendingExits

LEMMA UncertainFacts ==
    ASSUME BrokerType, NEW c, NEW buys
    PROVE  /\ UncertainOn(c, buys) \in Nat
           /\ \A o \in On(c) : Buys(o) = buys => Uncertain(o) <= UncertainOn(c, buys)
           /\ \A o \in Orders : Uncertain(o) \in Nat
<1> DEFINE f == [o \in Orders |-> Uncertain(o)]
           S == {o \in On(c) : Buys(o) = buys}
<1>1. S \subseteq Orders /\ IsFiniteSet(S)
  BY Zenon, OnFacts, FS_Subset
<1>2. \A o \in Orders : Uncertain(o) \in Nat
  <2> TAKE o \in Orders
  <2>1. Size(o) \in Nat /\ Size(o) - rowFilled[o] \in Nat
    BY OrderFacts DEF BrokerType
  <2> QED
    BY <2>1 DEF Uncertain
<1>3. \A o \in S : f[o] \in Int /\ f[o] >= 0 /\ f[o] = Uncertain(o)
  BY <1>1, <1>2
<1> HIDE DEF f
<1>4. SumFunctionOnSet(f, S) \in Nat /\ \A o \in S : f[o] <= SumFunctionOnSet(f, S)
  <2> HIDE DEF S
  <2> QED
    BY Zenon, <1>1, <1>3, SumNat DEF Summable
<1>5. UncertainOn(c, buys) = SumFunctionOnSet(f, S)
  BY Zenon DEF f, UncertainOn
<1> QED
  BY Zenon, <1>2, <1>3, <1>4, <1>5

\* _worst_case_positions picks one of the three positions, none of them further from flat.
LEMMA FurthestFacts ==
    ASSUME NEW n \in Int, NEW b \in Int, NEW s \in Int
    PROVE  /\ Furthest(n, b, s) \in Int
           /\ n # 0 \/ n + b # 0 \/ n + s # 0 => Furthest(n, b, s) # 0
<1> DEFINE Best(m) == \A k \in {n, n + b, n + s} : Abs(k) < Abs(m) \/ (Abs(k) = Abs(m) /\ k <= m)
<1>1. Best(n) \/ Best(n + b) \/ Best(n + s)
  BY DEF Abs
<1>2. \E m \in {n, n + b, n + s} : Best(m)
  BY Zenon, <1>1
<1>3. Furthest(n, b, s) \in {n, n + b, n + s} /\ Best(Furthest(n, b, s))
  BY Zenon, <1>2 DEF Furthest
<1> QED
  BY <1>3 DEF Abs

LEMMA WorstType == ASSUME BrokerType, NEW c \in Contracts PROVE WorstCase(c) \in Int
<1> DEFINE buys == UncertainOn(c, TRUE)
           sells == UncertainOn(c, FALSE)
<1>1. Shown(c) \in Int /\ buys \in Nat /\ sells \in Nat
  BY Zenon, ShownType, UncertainFacts
<1> HIDE DEF buys, sells
<1>2. buys \in Int /\ -sells \in Int
  BY <1>1
<1> QED
  BY Zenon, <1>1, <1>2, FurthestFacts DEF WorstCase, buys, sells

LEMMA HoldTypes ==
    ASSUME RequestType
    PROVE  /\ \A p \in Orders, r \in BOOLEAN : Observed(p, r) \in {"unseen", "none", "bound", "covered"}
           /\ \A c : WrittenBack(c) \in [Orders -> {"none", "flight", "unknown", "bound", "covered"}]
  BY Zenon DEF RequestType, Observed, WrittenBack

LEMMA InitTypes == Init => TypeInv
<1> SUFFICES ASSUME Init PROVE RequestType /\ LeaseType /\ BrokerType /\ WorldType
  BY Zenon, TypeParts
<1>1. RequestType
  BY DEF Init, RequestType, Everywhere, Zero
<1>2. LeaseType
  BY StartAssumption DEF Init, LeaseType, Zero
<1>3. BrokerType
  BY OrderFacts DEF Init, BrokerType, Everywhere, Zero
<1>4. WorldType
  BY BoundsAssumption DEF Init, WorldType
<1> QED
  BY Zenon, <1>1, <1>2, <1>3, <1>4

LEMMA RequestTypeNext == ASSUME TypeInv, [Next]_vars PROVE RequestType'
<1> RequestType /\ BrokerType
  BY Zenon, TypeParts
<1> USE DEF RequestType, Goto, readVars
<1>1. ASSUME NEW o \in Orders, ReadPositions(o) PROVE RequestType'
  BY Zenon, <1>1, ShownType, OrderFacts DEF ReadPositions
<1>2. ASSUME NEW o \in Orders, PositionsUnreadable(o) PROVE RequestType'
  BY <1>2 DEF PositionsUnreadable
<1>3. ASSUME NEW o \in Orders, ReadOrders(o) PROVE RequestType'
  BY <1>3, PendingType, AbsFacts, HoldTypes DEF ReadOrders
<1>4. ASSUME NEW o \in Orders, Classify(o) PROVE RequestType'
  BY <1>4, HoldTypes DEF Classify
<1>5. ASSUME NEW o \in Orders, Snapshot(o) \/ Admit(o) PROVE RequestType'
  BY Zenon, <1>5 DEF Snapshot, Admit
<1>6. ASSUME NEW o \in Orders, NoSnapshot(o) \/ Refuse(o) \/ FailBeforeInvoke(o) PROVE RequestType'
  BY Zenon, <1>6 DEF NoSnapshot, Refuse, FailBeforeInvoke, Released
<1>7. ASSUME NEW o \in Orders, Acknowledge(o) \/ NoAnswer(o) PROVE RequestType'
  BY Zenon, <1>7 DEF Acknowledge, NoAnswer, OutcomeUnknown, Bind
<1>8. ASSUME NEW o \in Orders, Invoke(o) \/ Cancelled(o) \/ Fill(o) \/ End(o) \/ ShowRow(o) \/ ShowFills(o)
      PROVE RequestType'
  BY Zenon, <1>8 DEF Invoke, Cancelled, Fill, End, ShowRow, ShowFills
<1>9. CASE ShowAll \/ UNCHANGED vars
  BY Zenon, <1>9 DEF ShowAll, vars
<1>10. CASE Crash
  BY <1>10 DEF Crash, Everywhere, Zero
<1> QED
  BY Zenon, <1>1, <1>2, <1>3, <1>4, <1>5, <1>6, <1>7, <1>8, <1>9, <1>10 DEF Next

LEMMA LeaseTypeNext == ASSUME TypeInv, [Next]_vars PROVE LeaseType'
<1> LeaseType /\ BrokerType
  BY Zenon, TypeParts
<1> USE DEF LeaseType, snapshotVars, reservationVars, FreeLease
<1>1. ASSUME NEW o \in Orders, \/ ReadPositions(o) \/ PositionsUnreadable(o) \/ ReadOrders(o)
                               \/ Classify(o) \/ NoSnapshot(o)
      PROVE LeaseType'
  BY Zenon, <1>1 DEF ReadPositions, PositionsUnreadable, ReadOrders, Classify, NoSnapshot
<1>2. ASSUME NEW o \in Orders, Snapshot(o) PROVE LeaseType'
  <2>1. Settled \subseteq Orders
    BY Zenon DEF Settled
  <2> QED
    BY Zenon, <1>2, <2>1, WorstType DEF Snapshot
<1>3. ASSUME NEW o \in Orders, Admit(o) PROVE LeaseType'
  BY Zenon, <1>3, OrderFacts DEF Admit, Reserve
<1>4. ASSUME NEW o \in Orders, Refuse(o) \/ FailBeforeInvoke(o) \/ Acknowledge(o) \/ NoAnswer(o)
      PROVE LeaseType'
  BY Zenon, <1>4, StartAssumption DEF Refuse, FailBeforeInvoke, Acknowledge, NoAnswer,
     OutcomeUnknown
<1>5. ASSUME NEW o \in Orders, Invoke(o) \/ Cancelled(o) \/ Fill(o) \/ End(o) \/ ShowRow(o) \/ ShowFills(o)
      PROVE LeaseType'
  BY Zenon, <1>5 DEF Invoke, Cancelled, Fill, End, ShowRow, ShowFills
<1>6. CASE ShowAll \/ UNCHANGED vars
  BY Zenon, <1>6 DEF ShowAll, vars
<1>7. CASE Crash
  BY Zenon, <1>7, StartAssumption DEF Crash
<1> QED
  BY Zenon, <1>1, <1>2, <1>3, <1>4, <1>5, <1>6, <1>7 DEF Next

LEMMA BrokerTypeNext == ASSUME TypeInv, [Next]_vars PROVE BrokerType'
<1> BrokerType
  BY Zenon, TypeParts
<1> USE DEF BrokerType, brokerVars, bookVars
<1>1. ASSUME NEW o \in Orders, \/ ReadPositions(o) \/ PositionsUnreadable(o) \/ ReadOrders(o)
                               \/ Classify(o) \/ NoSnapshot(o) \/ Snapshot(o)
      PROVE BrokerType'
  BY Zenon, <1>1 DEF ReadPositions, PositionsUnreadable, ReadOrders, Classify, NoSnapshot, Snapshot
<1>2. ASSUME NEW o \in Orders, Refuse(o) \/ Acknowledge(o) \/ NoAnswer(o) PROVE BrokerType'
  BY Zenon, <1>2 DEF Refuse, Acknowledge, NoAnswer
<1>3. ASSUME NEW o \in Orders, Admit(o) \/ Invoke(o) \/ FailBeforeInvoke(o) \/ Cancelled(o) \/ End(o)
      PROVE BrokerType'
  BY Zenon, <1>3 DEF Admit, Invoke, FailBeforeInvoke, Cancelled, End
<1>4. ASSUME NEW o \in Orders, Fill(o) PROVE BrokerType'
  BY <1>4, OrderFacts DEF Fill
<1>5. ASSUME NEW o \in Orders, ShowRow(o) PROVE BrokerType'
  BY <1>5 DEF ShowRow, Listed
<1>6. ASSUME NEW o \in Orders, ShowFills(o) PROVE BrokerType'
  BY <1>6 DEF ShowFills
<1>7. CASE ShowAll
  BY <1>7 DEF ShowAll, Listed
<1>8. CASE Crash \/ UNCHANGED vars
  BY Zenon, <1>8 DEF Crash, vars
<1> QED
  BY Zenon, <1>1, <1>2, <1>3, <1>4, <1>5, <1>6, <1>7, <1>8 DEF Next

LEMMA WorldTypeNext == ASSUME TypeInv, [Next]_vars PROVE WorldType'
<1> WorldType
  BY Zenon, TypeParts
<1> USE DEF WorldType, worldVars, history
<1>1. ASSUME NEW o \in Orders, \/ ReadPositions(o) \/ PositionsUnreadable(o) \/ ReadOrders(o)
                               \/ NoSnapshot(o) \/ Snapshot(o) \/ Refuse(o) \/ Acknowledge(o) \/ NoAnswer(o)
      PROVE WorldType'
  BY Zenon, <1>1 DEF ReadPositions, PositionsUnreadable, ReadOrders, NoSnapshot, Snapshot, Refuse,
     Acknowledge,
              NoAnswer
<1>2. ASSUME NEW o \in Orders, \/ Invoke(o) \/ FailBeforeInvoke(o) \/ Cancelled(o) \/ Fill(o) \/ End(o)
                               \/ ShowRow(o) \/ ShowFills(o)
      PROVE WorldType'
  BY Zenon, <1>2 DEF Invoke, FailBeforeInvoke, Cancelled, Fill, End, ShowRow, ShowFills
<1>3. ASSUME NEW o \in Orders, Classify(o) PROVE WorldType'
  BY Zenon, <1>3 DEF Classify
<1>4. ASSUME NEW o \in Orders, Admit(o) PROVE WorldType'
  BY Zenon, <1>4, OnFacts DEF Admit, Overlap
<1>5. CASE ShowAll \/ UNCHANGED vars
  BY Zenon, <1>5 DEF ShowAll, vars
<1>6. CASE Crash
  BY <1>6, BoundsAssumption DEF Crash
<1> QED
  BY Zenon, <1>1, <1>2, <1>3, <1>4, <1>5, <1>6 DEF Next

LEMMA TypeNext == ASSUME TypeInv, [Next]_vars PROVE TypeInv'
  BY RequestTypeNext, LeaseTypeNext, BrokerTypeNext, WorldTypeNext, TypeParts, PTL

-----------------------------------------------------------------------------
(* Orders against their books, reservations and the lease *)

LEMMA InitOrders == Init => OrderInv
<1> SUFFICES ASSUME Init, NEW o \in Orders PROVE OrderOf(o)
  BY Zenon DEF OrderInv
<1>1. /\ pc[o] = "idle" /\ status[o] = "none" /\ row[o] = "absent" /\ lease = NoOrder
      /\ filled[o] = 0 /\ rowFilled[o] = 0 /\ posFilled[o] = 0
      /\ reserved = {} /\ settled = {} /\ exits = {}
  BY Zenon DEF Init, Everywhere, Zero
<1>2. o # NoOrder
  BY Zenon, OrdersAssumption
<1> QED
  BY Zenon, <1>1, <1>2 DEF OrderOf, Over

LEMMA OrderNext == ASSUME TypeInv, OrderInv, [Next]_vars PROVE OrderInv'
<1> RequestType /\ LeaseType /\ BrokerType /\ WorldType
  BY Zenon, TypeParts
<1> NoOrder \notin Orders
  BY Zenon, OrdersAssumption
<1> SUFFICES ASSUME NEW p \in Orders PROVE OrderOf(p)'
  BY Zenon DEF OrderInv
<1>0. OrderOf(p) /\ Size(p) > 0 /\ Size(p) \in Nat
  BY Zenon, OrderFacts DEF OrderInv
<1> USE DEF OrderOf, Unsent, Over, Goto, readVars, snapshotVars, reservationVars, brokerVars, bookVars,
            worldVars, history
<1>1. ASSUME NEW o \in Orders, ReadPositions(o) \/ PositionsUnreadable(o) \/ ReadOrders(o) PROVE OrderOf(p)'
  BY <1>0, <1>1 DEF RequestType, ReadPositions, PositionsUnreadable, ReadOrders
<1>2. ASSUME NEW o \in Orders, Classify(o) PROVE OrderOf(p)'
  BY Zenon, <1>0, <1>2 DEF RequestType, Classify
<1>3. ASSUME NEW o \in Orders, Snapshot(o) PROVE OrderOf(p)'
  BY Zenon, <1>0, <1>3 DEF RequestType, Snapshot, Settled
<1>4. ASSUME NEW o \in Orders, NoSnapshot(o) PROVE OrderOf(p)'
  BY Zenon, <1>0, <1>4 DEF RequestType, NoSnapshot
<1>5. ASSUME NEW o \in Orders, Admit(o) PROVE OrderOf(p)'
  BY Zenon, <1>0, <1>5 DEF RequestType, BrokerType, Admit, Reserve
<1>6. ASSUME NEW o \in Orders, Refuse(o) PROVE OrderOf(p)'
  <2>1. OrderOf(o)
    BY Zenon DEF OrderInv
  <2> QED
    BY Zenon, <1>0, <1>6, <2>1 DEF RequestType, Refuse, FreeLease
<1>7. ASSUME NEW o \in Orders, FailBeforeInvoke(o) \/ Acknowledge(o) \/ NoAnswer(o) PROVE OrderOf(p)'
  <2>1. OrderOf(o)
    BY Zenon DEF OrderInv
  <2> QED
    BY <1>0, <1>7, <2>1 DEF RequestType, BrokerType, FailBeforeInvoke, Acknowledge, NoAnswer,
                            OutcomeUnknown, FreeLease
<1>8. ASSUME NEW o \in Orders, Invoke(o) \/ Cancelled(o) PROVE OrderOf(p)'
  BY <1>0, <1>8 DEF BrokerType, Invoke, Cancelled
<1>9. ASSUME NEW o \in Orders, Fill(o) \/ End(o) PROVE OrderOf(p)'
  BY SMTT(30), <1>0, <1>9 DEF BrokerType, Fill, End
<1>10. ASSUME NEW o \in Orders, ShowRow(o) \/ ShowFills(o) PROVE OrderOf(p)'
  BY <1>0, <1>10 DEF BrokerType, ShowRow, ShowFills, Listed
<1>11. CASE ShowAll
  BY Zenon, <1>0, <1>11 DEF BrokerType, ShowAll, Listed
<1>12. CASE Crash
  BY Zenon, <1>0, <1>12 DEF RequestType, BrokerType, Crash, FreeLease
<1>13. CASE UNCHANGED vars
  BY Zenon, <1>0, <1>13 DEF vars
<1> QED
  BY Zenon, <1>1, <1>2, <1>3, <1>4, <1>5, <1>6, <1>7, <1>8, <1>9, <1>10, <1>11, <1>12, <1>13
     DEF Next

-----------------------------------------------------------------------------
(* Every exposure is counted *)

\* Steps of one order that leave what it and the others may still do as it is.
Quiet(o) ==
    \/ ReadPositions(o) \/ PositionsUnreadable(o) \/ ReadOrders(o) \/ Classify(o) \/ NoSnapshot(o)
    \/ Refuse(o) \/ Acknowledge(o) \/ NoAnswer(o) \/ ShowRow(o)
Moves(o) ==
    Invoke(o) \/ FailBeforeInvoke(o) \/ Cancelled(o) \/ Fill(o) \/ End(o) \/ ShowFills(o)

LEMMA NextKinds ==
    [Next]_vars => \/ \E o \in Orders : Quiet(o) \/ Moves(o) \/ Snapshot(o) \/ Admit(o)
                   \/ ShowAll \/ Crash \/ UNCHANGED vars
  BY Zenon DEF Next, Quiet, Moves

LEMMA QuietFrame ==
    ASSUME NEW o \in Orders, Quiet(o)
    PROVE  /\ UNCHANGED <<status, filled, posFilled, starting, overlapped, inStep, crashes>>
           /\ \/ UNCHANGED <<reserved, settled>>
              \/ settled' = {} /\ (reserved' = reserved \/ reserved' = reserved \ settled)
<1> USE DEF brokerVars, bookVars, snapshotVars, reservationVars, worldVars, history, FreeLease
<1>1. CASE ReadPositions(o) \/ PositionsUnreadable(o) \/ ReadOrders(o)
  BY Zenon, <1>1 DEF ReadPositions, PositionsUnreadable, ReadOrders
<1>2. CASE Classify(o) \/ NoSnapshot(o) \/ ShowRow(o)
  BY Zenon, <1>2 DEF Classify, NoSnapshot, ShowRow
<1>3. CASE Refuse(o) \/ Acknowledge(o) \/ NoAnswer(o)
  BY Zenon, <1>3 DEF Refuse, Acknowledge, NoAnswer, OutcomeUnknown
<1> QED
  BY Zenon, <1>1, <1>2, <1>3 DEF Quiet

\* Only the admission of an order makes it loose.
LEMMA LooseShrinks ==
    ASSUME TypeInv, [Next]_vars, \A o \in Orders : ~Admit(o), NEW p \in Orders, Loose(p)'
    PROVE  Loose(p)
<1> BrokerType
  BY Zenon, TypeParts
<1> USE DEF BrokerType, Loose, brokerVars, bookVars
<1>1. ASSUME NEW o \in Orders, Quiet(o) PROVE Loose(p)
  BY Zenon, <1>1, QuietFrame
<1>2. ASSUME NEW o \in Orders, Moves(o) PROVE Loose(p)
  BY Zenon, <1>2 DEF Moves, Invoke, FailBeforeInvoke, Cancelled, Fill, End, ShowFills
<1>3. ASSUME NEW o \in Orders, Snapshot(o) PROVE Loose(p)
  BY Zenon, <1>3 DEF Snapshot
<1>4. CASE ShowAll \/ Crash \/ UNCHANGED vars
  BY Zenon, <1>4 DEF ShowAll, Crash, vars
<1> QED
  BY Zenon, <1>1, <1>2, <1>3, <1>4, NextKinds

\* A reservation the books have settled is of an order that is not loose, or overlaps.
LEMMA SettledIsDone ==
    ASSUME TypeInv, OrderInv, CountInv, NEW p \in Settled
    PROVE  p \in Orders /\ (Loose(p) => p \in overlapped)
<1> LeaseType /\ BrokerType
  BY Zenon, TypeParts
<1>1. p \in Orders /\ p \notin Projected /\ p \in reserved /\ RowOf(p) \in Over
  BY Zenon DEF Settled, LeaseType, Over
<1>2. row[p] \in Over /\ status[p] = row[p] /\ rowFilled[p] = filled[p] /\ RowOf(p) # "absent"
  BY Zenon, <1>1 DEF RowOf, OrderInv, OrderOf, Over
<1>3. rowFilled[p] > 0 => Represented(p)
  BY Zenon, <1>1 DEF Projected
<1>4. SUFFICES ASSUME Loose(p), p \notin overlapped PROVE FALSE
  BY Zenon, <1>1
<1>5. Shown(Contract[p]) = starting[p] + Direction(p) * posFilled[p] /\ filled[p] # posFilled[p]
  BY Zenon, <1>1, <1>2, <1>4 DEF CountInv, CountOf, Loose, Over
<1>6. /\ filled[p] \in Nat /\ posFilled[p] \in Nat /\ posFilled[p] <= filled[p] /\ starting[p] \in Int
      /\ Direction(p) \in {1, -1} /\ (Direction(p) = 1 <=> Buys(p))
  BY Zenon, <1>1, OrderFacts DEF BrokerType, LeaseType
<1>7. Represented(p)
  BY <1>2, <1>3, <1>5, <1>6
<1>8. /\ Buys(p) => starting[p] + posFilled[p] >= starting[p] + filled[p]
      /\ ~Buys(p) => starting[p] - posFilled[p] <= starting[p] - filled[p]
  BY <1>2, <1>5, <1>6, <1>7 DEF Represented
<1> QED
  BY <1>5, <1>6, <1>8

\* CountInv survives a step that makes no order loose, shows fills and settles nothing
\* that is loose.
LEMMA CountStays ==
    ASSUME TypeInv, CountInv, posFilled' \in [Orders -> Nat],
           \A q \in Orders : Loose(q)' => Loose(q),
           \A q \in Orders : posFilled'[q] \in {posFilled[q], filled[q]},
           \A q \in Orders : Loose(q)' /\ q \notin overlapped /\ q \in reserved /\ q \notin settled =>
                                q \in reserved' /\ q \notin settled',
           UNCHANGED <<starting, overlapped>>
    PROVE  CountInv'
<1> BrokerType /\ LeaseType
  BY Zenon, TypeParts
<1> SUFFICES ASSUME NEW p \in Orders, Loose(p)', p \notin overlapped
             PROVE  /\ p \in reserved' /\ p \notin settled'
                    /\ \A q \in On(Contract[p]) : q # p => ~Loose(q)'
                    /\ Shown(Contract[p])' = starting[p] + Direction(p) * posFilled'[p]
  BY Zenon DEF CountInv, CountOf
<1>1. /\ p \in reserved /\ p \notin settled
      /\ \A q \in On(Contract[p]) : q # p => ~Loose(q)
      /\ Shown(Contract[p]) = starting[p] + Direction(p) * posFilled[p]
  BY Zenon DEF CountInv, CountOf
<1>2. \A q \in On(Contract[p]) : q # p => posFilled[q] = posFilled'[q]
  BY Zenon, <1>1, OnFacts DEF Loose
<1>3. Net(Contract[p], posFilled') = Net(Contract[p], posFilled) + Direction(p) * (posFilled'[p] - posFilled[p])
  BY Zenon, <1>2, NetStep DEF BrokerType
<1>4. Shown(Contract[p])' = Net(Contract[p], posFilled') /\ Shown(Contract[p]) = Net(Contract[p], posFilled)
  BY Zenon DEF Shown
<1>5. /\ Direction(p) \in {1, -1} /\ posFilled[p] \in Nat /\ posFilled'[p] \in Nat /\ starting[p] \in Int
  BY Zenon, OrderFacts DEF BrokerType, LeaseType
<1>6. Shown(Contract[p])' = starting[p] + Direction(p) * posFilled'[p]
  BY <1>1, <1>3, <1>4, <1>5
<1> QED
  BY Zenon, <1>1, <1>6, OnFacts

LEMMA InitCount == Init => CountInv
  BY Zenon DEF Init, CountInv, CountOf, Loose, Everywhere, Zero

LEMMA CountNext == ASSUME TypeInv, OrderInv, CountInv, [Next]_vars PROVE CountInv'
<1> LeaseType /\ BrokerType /\ BrokerType'
  BY Zenon, TypeParts, BrokerTypeNext
<1>0. posFilled' \in [Orders -> Nat]
  BY Zenon DEF BrokerType
<1> USE DEF brokerVars, bookVars, snapshotVars, reservationVars, history
<1>1. ASSUME NEW o \in Orders, Admit(o) PROVE CountInv'
  <2>1. /\ status' = [status EXCEPT ![o] = "queued"] /\ reserved' = (reserved \ settled) \cup {o}
        /\ starting' = [starting EXCEPT ![o] = worst[Contract[o]]]
        /\ overlapped' = overlapped \cup Overlap(o)
        /\ UNCHANGED <<filled, posFilled, settled>> /\ pc[o] = "snapshot"
    BY Zenon, <1>1 DEF Admit, Reserve
  <2>2. status[o] = "none" /\ o \notin settled /\ filled[o] = 0 /\ posFilled[o] = 0
    BY <2>1 DEF OrderInv, OrderOf, Unsent, BrokerType
  <2>3. \A p \in Orders : p # o => (Loose(p)' <=> Loose(p))
    BY Zenon, <2>1 DEF Loose, BrokerType
  <2>4. \A c : Shown(c)' = Shown(c)
    BY Zenon, <2>1 DEF Shown, Net, Signed
  <2> SUFFICES ASSUME NEW p \in Orders, Loose(p)', p \notin overlapped'
               PROVE  /\ p \in reserved' /\ p \notin settled'
                      /\ \A q \in On(Contract[p]) : q # p => ~Loose(q)'
                      /\ Shown(Contract[p])' = starting'[p] + Direction(p) * posFilled'[p]
    BY Zenon DEF CountInv, CountOf
  <2>5. CASE p = o
    <3>1. /\ {q \in On(Contract[o]) \ {o} : Loose(q)} = {}
          /\ worst[Contract[o]] = Shown(Contract[o])
      BY Zenon, <2>1, <2>5 DEF Overlap
    <3>2. \A q \in On(Contract[p]) : q # p => ~Loose(q)'
      BY Zenon, <2>3, <2>5, <3>1, OnFacts
    <3>3. starting'[o] = Shown(Contract[o]) /\ Direction(o) * posFilled'[o] = 0 /\ Shown(Contract[o]) \in Int
      BY <2>1, <2>2, <3>1, OrderFacts, ShownType DEF LeaseType
    <3> QED
      BY <2>1, <2>2, <2>4, <2>5, <3>2, <3>3
  <2>6. CASE p # o
    <3>1. /\ p \in reserved /\ p \notin settled
          /\ \A q \in On(Contract[p]) : q # p => ~Loose(q)
          /\ Shown(Contract[p]) = starting[p] + Direction(p) * posFilled[p]
      BY Zenon, <2>1, <2>3, <2>6 DEF CountInv, CountOf
    <3>2. Contract[p] # Contract[o]
      <4>1. SUFFICES ASSUME Contract[p] = Contract[o] PROVE p \in Overlap(o)
        BY Zenon, <2>1
      <4>2. p \in {q \in On(Contract[o]) \ {o} : Loose(q)}
        BY Zenon, <2>3, <2>6, <4>1, OnFacts
      <4> QED
        BY Zenon, <4>2 DEF Overlap
    <3>3. \A q \in On(Contract[p]) : q # p => ~Loose(q)'
      BY Zenon, <2>3, <3>1, <3>2, OnFacts
    <3>4. starting'[p] = starting[p]
      BY Zenon, <2>1, <2>6 DEF LeaseType
    <3> QED
      BY Zenon, <2>1, <2>4, <3>1, <3>3, <3>4
  <2> QED
    BY Zenon, <2>5, <2>6
<1>2. CASE \A o \in Orders : ~Admit(o)
  <2>0. \A q \in Orders : Loose(q)' => Loose(q)
    BY Zenon, <1>2, LooseShrinks
  <2>1. ASSUME NEW o \in Orders, Quiet(o) PROVE CountInv'
    BY Zenon, <1>0, <2>0, <2>1, QuietFrame, CountStays
  <2>2. ASSUME NEW o \in Orders, Invoke(o) \/ Cancelled(o) \/ Fill(o) \/ End(o) \/ ShowFills(o)
        PROVE CountInv'
    <3>1. UNCHANGED <<reserved, settled, starting, overlapped>>
      BY Zenon, <2>2 DEF Invoke, Cancelled, Fill, End, ShowFills
    <3>2. \A q \in Orders : posFilled'[q] \in {posFilled[q], filled[q]}
      BY Zenon, <2>2 DEF Invoke, Cancelled, Fill, End, ShowFills, BrokerType
    <3> QED
      BY Zenon, <1>0, <2>0, <3>1, <3>2, CountStays
  <2>3. ASSUME NEW o \in Orders, FailBeforeInvoke(o) PROVE CountInv'
    <3>1. /\ reserved' = reserved \ {o} /\ settled' = {}
          /\ UNCHANGED <<filled, posFilled, starting, overlapped>>
          /\ status[o] = "queued" /\ status' = [status EXCEPT ![o] = "none"]
      BY Zenon, <2>3 DEF FailBeforeInvoke, FreeLease
    <3>2. ~Loose(o)'
      BY <3>1 DEF Loose, OrderInv, OrderOf, BrokerType
    <3>3. \A q \in Orders : Loose(q)' /\ q \in reserved => q \in reserved' /\ q \notin settled'
      BY Zenon, <3>1, <3>2
    <3> QED
      BY Zenon, <1>0, <2>0, <3>1, <3>3, CountStays
  <2>4. ASSUME NEW o \in Orders, Snapshot(o) PROVE CountInv'
    <3>1. UNCHANGED <<reserved, starting, overlapped, status, filled, posFilled>> /\ settled' = Settled
      BY Zenon, <2>4 DEF Snapshot
    <3>2. \A q \in Orders : Loose(q) /\ q \notin overlapped => q \notin Settled
      BY Zenon, SettledIsDone
    <3> QED
      BY Zenon, <1>0, <2>0, <3>1, <3>2, CountStays
  <2>5. CASE ShowAll
    <3>1. posFilled' = filled /\ UNCHANGED <<reserved, settled, starting, overlapped>>
      BY Zenon, <2>5 DEF ShowAll
    <3> QED
      BY Zenon, <1>0, <2>0, <3>1, CountStays
  <2>6. CASE Crash \/ UNCHANGED vars
    <3>1. /\ UNCHANGED <<reserved, starting, overlapped, posFilled>> /\ (settled' = {} \/ settled' = settled)
      BY Zenon, <2>6 DEF Crash, vars, FreeLease
    <3> QED
      BY Zenon, <1>0, <2>0, <3>1, CountStays
  <2> QED
    BY Zenon, <1>2, <2>1, <2>2, <2>3, <2>4, <2>5, <2>6, NextKinds DEF Moves
<1> QED
  BY Zenon, <1>1, <1>2

-----------------------------------------------------------------------------
(* The position limit *)

\* An order that may still move the position is projected or open in the order book.
LEMMA LooseIsUncertain ==
    ASSUME TypeInv, OrderInv, CountInv, NEW p \in Orders, Loose(p), p \notin overlapped
    PROVE  Uncertain(p) \in Nat /\ Uncertain(p) > 0
<1> LeaseType /\ BrokerType
  BY Zenon, TypeParts
<1>1. /\ Size(p) \in Nat /\ Size(p) > 0 /\ rowFilled[p] \in Nat /\ Size(p) - rowFilled[p] \in Nat
      /\ row[p] \in {"absent", "open", "complete", "ended"}
  BY OrderFacts DEF BrokerType
<1>2. p \in reserved /\ (row[p] = "open" => rowFilled[p] < Size(p))
  BY Zenon DEF CountInv, CountOf, OrderInv, OrderOf
<1>3. CASE row[p] = "open"
  BY <1>1, <1>2, <1>3 DEF Uncertain
<1>4. CASE row[p] # "open"
  <2>1. p \notin Settled
    BY Zenon, SettledIsDone
  <2>2. p \in Projected
    BY Zenon, <1>1, <1>2, <1>4, <2>1 DEF Settled, RowOf, Projected
  <2> QED
    BY <1>1, <1>4, <2>2 DEF Uncertain
<1> QED
  BY Zenon, <1>3, <1>4

\* A contract whose orders are all at rest has the position its book shows.
LEMMA AtRest ==
    ASSUME TypeInv, NEW c \in Contracts, \A p \in On(c) : ~Loose(p)
    PROVE  Net(c, filled) = Shown(c) /\ (Exposed(c) <=> Shown(c) # 0)
<1> BrokerType
  BY Zenon, TypeParts
<1>1. \A p \in On(c) : posFilled[p] = filled[p] /\ status[p] \notin {"queued", "open"}
  BY Zenon DEF Loose
<1>2. Net(c, filled) = Net(c, posFilled)
  BY Zenon, <1>1, NetSame DEF BrokerType
<1> QED
  BY Zenon, <1>1, <1>2 DEF Shown, Exposed

\* Before any overlap the projected portfolio has every contract that is exposed.
LEMMA ExposureIsProjected ==
    ASSUME TypeInv, OrderInv, CountInv, overlapped = {}, NEW c \in Contracts, Exposed(c)
    PROVE  WorstCase(c) # 0
<1> LeaseType /\ BrokerType
  BY Zenon, TypeParts
<1> DEFINE n == Shown(c)
           buys == UncertainOn(c, TRUE)
           sells == UncertainOn(c, FALSE)
<1>1. n \in Int /\ buys \in Nat /\ sells \in Nat
  BY Zenon, ShownType, UncertainFacts
<1>2. n # 0 \/ buys > 0 \/ sells > 0
  <2>1. CASE \A p \in On(c) : ~Loose(p)
    BY Zenon, <2>1, AtRest
  <2>2. ASSUME NEW p \in On(c), Loose(p) PROVE buys > 0 \/ sells > 0
    <3>1. p \in Orders /\ Uncertain(p) \in Nat /\ Uncertain(p) > 0
      BY Zenon, <2>2, LooseIsUncertain, OnFacts
    <3>2. CASE Buys(p) = TRUE
      <4>1. Uncertain(p) <= buys
        BY Zenon, <3>2, UncertainFacts
      <4> HIDE DEF n, buys, sells
      <4> QED
        BY <1>1, <3>1, <4>1
    <3>3. CASE Buys(p) = FALSE
      <4>1. Uncertain(p) <= sells
        BY Zenon, <3>3, UncertainFacts
      <4> HIDE DEF n, buys, sells
      <4> QED
        BY <1>1, <3>1, <4>1
    <3> QED
      BY Zenon, <3>1, <3>2, <3>3, OrderFacts
  <2> QED
    BY Zenon, <2>1, <2>2
<1>3. WorstCase(c) = Furthest(n, buys, -sells)
  BY Zenon DEF WorstCase
<1> HIDE DEF n, buys, sells
<1>4. buys \in Int /\ -sells \in Int /\ (n # 0 \/ n + buys # 0 \/ n + (-sells) # 0)
  BY <1>1, <1>2
<1> QED
  BY Zenon, <1>1, <1>3, <1>4, FurthestFacts

\* Only the admission of an order exposes a contract.
LEMMA ExposedShrinks ==
    ASSUME TypeInv, [Next]_vars, \A o \in Orders : ~Admit(o), NEW c \in Contracts, Exposed(c)'
    PROVE  Exposed(c)
<1> BrokerType
  BY Zenon, TypeParts
<1> USE DEF brokerVars, bookVars
<1>1. ASSUME UNCHANGED filled,
             \A p \in Orders : status'[p] \in {"queued", "open"} => status[p] \in {"queued", "open"}
      PROVE  Exposed(c)
  BY Zenon, <1>1, OnFacts DEF Exposed, Net, Signed
<1>2. ASSUME NEW o \in Orders, Quiet(o) PROVE Exposed(c)
  BY Zenon, <1>1, <1>2, QuietFrame
<1>3. ASSUME NEW o \in Orders,
             Invoke(o) \/ FailBeforeInvoke(o) \/ Cancelled(o) \/ End(o) \/ ShowFills(o)
      PROVE Exposed(c)
  <2>1. UNCHANGED filled
    BY Zenon, <1>3 DEF Invoke, FailBeforeInvoke, Cancelled, End, ShowFills
  <2>2. \A p \in Orders : status'[p] \in {"queued", "open"} => status[p] \in {"queued", "open"}
    BY Zenon, <1>3 DEF Invoke, FailBeforeInvoke, Cancelled, End, ShowFills, BrokerType
  <2> QED
    BY Zenon, <1>1, <2>1, <2>2
<1>4. ASSUME NEW o \in Orders, Fill(o) PROVE Exposed(c)
  <2>1. /\ status[o] = "open" /\ \A p \in Orders : p # o => filled'[p] = filled[p] /\ status'[p] = status[p]
        /\ filled' \in [Orders -> Nat]
    BY <1>4, OrderFacts DEF Fill, BrokerType
  <2>2. CASE Contract[o] = c
    BY Zenon, <2>1, <2>2, OnFacts DEF Exposed
  <2>3. CASE Contract[o] # c
    <3>1. \A p \in On(c) : filled'[p] = filled[p] /\ status'[p] = status[p]
      BY Zenon, <2>1, <2>3, OnFacts
    <3>2. Net(c, filled') = Net(c, filled)
      BY ZenonT(40), <2>1, <3>1, NetSame DEF BrokerType
    <3> QED
      BY Zenon, <3>1, <3>2 DEF Exposed
  <2> QED
    BY Zenon, <2>2, <2>3
<1>5. ASSUME NEW o \in Orders, Snapshot(o) PROVE Exposed(c)
  BY Zenon, <1>1, <1>5 DEF Snapshot
<1>6. CASE ShowAll \/ Crash \/ UNCHANGED vars
  <2>1. UNCHANGED filled
    BY Zenon, <1>6 DEF ShowAll, Crash, vars
  <2>2. \A p \in Orders : status'[p] \in {"queued", "open"} => status[p] \in {"queued", "open"}
    BY Zenon, <1>6 DEF ShowAll, Crash, vars
  <2> QED
    BY Zenon, <1>1, <2>1, <2>2
<1> QED
  BY Zenon, <1>2, <1>3, <1>4, <1>5, <1>6, NextKinds DEF Moves

\* A snapshot that somebody acts on stays as it was taken.
LEMMA SnapshotStays ==
    ASSUME TypeInv, OrderInv, [Next]_vars, \A o \in Orders : ~Admit(o) /\ ~Snapshot(o)
    PROVE  /\ overlapped' = overlapped
           /\ \A p \in Orders : pc'[p] = "snapshot" => pc[p] = "snapshot" /\ worst' = worst
<1> RequestType
  BY Zenon, TypeParts
<1>0. \A o, p \in Orders : pc[o] \in {"snapshot", "sent"} /\ pc[p] \in {"snapshot", "sent"} => o = p
  BY Zenon DEF OrderInv, OrderOf
<1> USE DEF Goto, snapshotVars, history, RequestType
<1>1. ASSUME NEW o \in Orders,
             ReadPositions(o) \/ PositionsUnreadable(o) \/ ReadOrders(o) \/ Classify(o) \/ NoSnapshot(o)
      PROVE  /\ overlapped' = overlapped /\ worst' = worst
             /\ \A p \in Orders : pc'[p] = "snapshot" => pc[p] = "snapshot"
  BY Zenon, <1>1 DEF ReadPositions, PositionsUnreadable, ReadOrders, Classify, NoSnapshot
<1>2. ASSUME NEW o \in Orders, Refuse(o) \/ Acknowledge(o) \/ NoAnswer(o) \/ FailBeforeInvoke(o)
      PROVE  overlapped' = overlapped /\ \A p \in Orders : pc'[p] # "snapshot"
  <2>1. overlapped' = overlapped /\ pc[o] \in {"snapshot", "sent"} /\ pc' = [pc EXCEPT ![o] = "done"]
    BY Zenon, <1>2 DEF Refuse, Acknowledge, NoAnswer, FailBeforeInvoke
  <2> QED
    BY Zenon, <1>0, <2>1
<1>3. ASSUME NEW o \in Orders,
             Invoke(o) \/ Cancelled(o) \/ Fill(o) \/ End(o) \/ ShowRow(o) \/ ShowFills(o)
      PROVE  UNCHANGED <<overlapped, worst, pc>>
  BY Zenon, <1>3 DEF Invoke, Cancelled, Fill, End, ShowRow, ShowFills
<1>4. CASE ShowAll \/ UNCHANGED vars
  BY Zenon, <1>4 DEF ShowAll, vars
<1>5. CASE Crash
  BY Zenon, <1>5 DEF Crash
<1> QED
  BY Zenon, <1>1, <1>2, <1>3, <1>4, <1>5, NextKinds DEF Quiet, Moves

LEMMA LimitNext == ASSUME TypeInv, OrderInv, CountInv, LimitInv, [Next]_vars PROVE LimitInv'
<1> RequestType /\ LeaseType /\ BrokerType
  BY Zenon, TypeParts
<1>0. \A S \in SUBSET Contracts : IsFiniteSet(S) /\ Cardinality(S) \in Nat
  BY Zenon, OrdersAssumption, FS_Subset, FS_CardinalityType
<1>1. ASSUME NEW o \in Orders, Admit(o), overlapped' = {}
      PROVE  /\ Cardinality(ExposedContracts') <= MaxPositions
             /\ \A p \in Orders : pc'[p] # "snapshot"
  <2> DEFINE c == Contract[o]
             E == ExposedContracts
  <2>1. /\ pc[o] = "snapshot" /\ pc' = [pc EXCEPT ![o] = "sent"]
        /\ WithinLimits(o) /\ overlapped = {} /\ Overlap(o) = {}
        /\ status' = [status EXCEPT ![o] = "queued"] /\ filled' = filled
    BY Zenon, <1>1 DEF Admit, Goto
  <2>2. \A p \in Orders : pc'[p] # "snapshot"
    BY Zenon, <2>1 DEF OrderInv, OrderOf, RequestType
  <2>3. c \in Contracts /\ o \in On(c) /\ o \notin {p \in On(c) \ {o} : Loose(p)}
    BY Zenon, OrderFacts
  <2>4. worst[c] = Shown(c) /\ \A p \in On(c) : ~Loose(p)
    <3>1. {p \in On(c) \ {o} : Loose(p)} = {} /\ worst[c] = Shown(c)
      BY Zenon, <2>1 DEF Overlap
    <3>2. ~Loose(o)
      BY <2>1 DEF OrderInv, OrderOf, Unsent, Loose, BrokerType
    <3> QED
      BY Zenon, <3>1, <3>2
  <2>5. ASSUME NEW d \in Contracts, Exposed(d)' PROVE d = c \/ Exposed(d)
    <3>1. SUFFICES ASSUME d # c PROVE Exposed(d)
      BY Zenon
    <3>2. \A p \in On(d) : status'[p] = status[p]
      BY Zenon, <2>1, <2>3, <3>1, OnFacts DEF BrokerType
    <3> QED
      BY Zenon, <2>1, <2>5, <3>2 DEF Exposed, Net, Signed
  <2>6. E \subseteq Contracts /\ E \subseteq OpenPositions /\ E' \subseteq E \cup {c}
    BY Zenon, <2>1, <2>3, <2>5 DEF ExposedContracts, LimitInv
  <2>7. CASE StrictReduction(o)
    <3>1. Exposed(c)
      BY Zenon, <2>3, <2>4, <2>7, AtRest DEF StrictReduction, Opposes
    <3>2. E' \subseteq E
      BY Zenon, <2>3, <2>6, <3>1 DEF ExposedContracts
    <3>3. Cardinality(E') <= Cardinality(E) /\ Cardinality(E) <= MaxPositions
      BY Zenon, <1>0, <2>1, <2>6, <3>2, FS_Subset DEF LimitInv
    <3>4. Cardinality(E') \in Nat /\ Cardinality(E) \in Nat
      BY Zenon, <1>0, <2>6, <3>2
    <3> HIDE DEF E
    <3>5. Cardinality(E') <= MaxPositions
      BY <3>3, <3>4, BoundsAssumption
    <3> QED
      BY Zenon, <2>2, <3>5 DEF E
  <2>8. CASE Cardinality(OpenPositions) < MaxPositions
    <3>1. OpenPositions \in SUBSET Contracts /\ E \in SUBSET Contracts
      BY Zenon, <2>6 DEF OpenPositions
    <3>2. Cardinality(E) <= Cardinality(OpenPositions)
      BY Zenon, <1>0, <2>6, <3>1, FS_Subset
    <3>3. E \cup {c} \in SUBSET Contracts
      BY Zenon, <2>3, <2>6
    <3>4. Cardinality(E \cup {c}) <= Cardinality(E) + 1
      BY SMTT(30), <1>0, <3>1, FS_AddElement
    <3>5. Cardinality(E') <= Cardinality(E \cup {c})
      BY Zenon, <1>0, <2>6, <3>3, FS_Subset
    <3>6. /\ Cardinality(E') \in Nat /\ Cardinality(E) \in Nat /\ Cardinality(E \cup {c}) \in Nat
          /\ Cardinality(OpenPositions) \in Nat
      BY Zenon, <1>0, <2>6, <3>1, <3>3
    <3> HIDE DEF E, c
    <3>7. Cardinality(E') <= MaxPositions
      BY SMTT(30), <2>8, <3>2, <3>4, <3>5, <3>6, BoundsAssumption
    <3> QED
      BY Zenon, <2>2, <3>7 DEF E
  <2> QED
    BY Zenon, <2>1, <2>7, <2>8 DEF WithinLimits
<1>2. ASSUME \A o \in Orders : ~Admit(o), overlapped' = {}, overlapped = {}
      PROVE  ExposedContracts' \subseteq ExposedContracts /\ Cardinality(ExposedContracts') <= MaxPositions
  <2>1. ExposedContracts' \subseteq ExposedContracts /\ ExposedContracts \in SUBSET Contracts
    BY Zenon, <1>2, ExposedShrinks DEF ExposedContracts
  <2>2. /\ Cardinality(ExposedContracts') <= Cardinality(ExposedContracts)
        /\ Cardinality(ExposedContracts') \in Nat /\ Cardinality(ExposedContracts) \in Nat
    BY Zenon, <1>0, <2>1, FS_Subset
  <2>3. Cardinality(ExposedContracts) <= MaxPositions
    BY Zenon, <1>2 DEF LimitInv
  <2> QED
    BY <2>1, <2>2, <2>3, BoundsAssumption
<1>3. ASSUME NEW o \in Orders, Snapshot(o), \A p \in Orders : ~Admit(p) PROVE LimitInv'
  <2>1. UNCHANGED overlapped /\ worst' = [c \in Contracts |-> WorstCase(c)]
    BY Zenon, <1>3 DEF Snapshot, history
  <2>2. ASSUME overlapped = {}, NEW c \in ExposedContracts PROVE c \in OpenPositions'
    <3>1. c \in Contracts /\ WorstCase(c) # 0
      BY Zenon, <2>2, ExposureIsProjected DEF ExposedContracts
    <3> QED
      BY Zenon, <2>1, <3>1 DEF OpenPositions
  <2> QED
    BY Zenon, <1>2, <1>3, <2>1, <2>2 DEF LimitInv
<1>4. ASSUME \A o \in Orders : ~Admit(o) /\ ~Snapshot(o) PROVE LimitInv'
  <2>1. /\ overlapped' = overlapped
        /\ \A p \in Orders : pc'[p] = "snapshot" => pc[p] = "snapshot" /\ worst' = worst
    BY Zenon, <1>4, SnapshotStays
  <2>2. ASSUME overlapped' = {}, NEW p \in Orders, pc'[p] = "snapshot"
        PROVE  ExposedContracts' \subseteq OpenPositions'
    <3>1. ExposedContracts' \subseteq ExposedContracts /\ ExposedContracts \subseteq OpenPositions
      BY Zenon, <1>2, <1>4, <2>1, <2>2 DEF LimitInv
    <3> QED
      BY Zenon, <2>1, <2>2, <3>1 DEF OpenPositions
  <2> QED
    BY Zenon, <1>2, <1>4, <2>1, <2>2 DEF LimitInv
<1> QED
  BY Zenon, <1>1, <1>3, <1>4 DEF LimitInv

\* At first no order is loose, so the exposed contracts are those with a position.
LEMMA InitLimit == ASSUME StartsWithin PROVE Init => LimitInv
<1> SUFFICES ASSUME Init PROVE LimitInv
  BY Zenon
<1>1. TypeInv
  BY Zenon, InitTypes
<1>2. \A p \in Orders : ~Loose(p) /\ pc[p] = "idle" /\ posFilled[p] = 0
  BY Zenon DEF Init, Loose, Everywhere, Zero
<1>3. ASSUME NEW c \in Contracts PROVE Exposed(c) <=> Start[c] # 0
  <2>1. On(c) \subseteq Orders /\ IsFiniteSet(On(c))
    BY Zenon, OnFacts
  <2>2. \A p \in On(c) : Signed(posFilled)[p] = 0
    <3> TAKE p \in On(c)
    <3>1. p \in Orders /\ Direction(p) \in {1, -1} /\ posFilled[p] = 0
      BY Zenon, <1>2, <2>1, OrderFacts
    <3> QED
      BY <3>1 DEF Signed
  <2>3. Summable(Signed(posFilled), On(c))
    BY <2>1, <2>2 DEF Summable
  <2>4. Start[c] \in Int /\ SumFunctionOnSet(Signed(posFilled), On(c)) = 0
    BY Zenon, <2>2, <2>3, SumZero, StartAssumption
  <2>5. Shown(c) = Start[c]
    BY <2>4 DEF Shown, Net
  <2>6. \A p \in On(c) : ~Loose(p)
    BY Zenon, <1>2, <2>1
  <2> QED
    BY Zenon, <1>1, <2>5, <2>6, AtRest
<1>4. ExposedContracts = {c \in Contracts : Start[c] # 0}
  BY Zenon, <1>3 DEF ExposedContracts
<1> QED
  BY Zenon, <1>2, <1>4 DEF LimitInv, StartsWithin

-----------------------------------------------------------------------------
(* The locks and the holds of exits *)

LEMMA InitLock == Init => LockInv
  BY Zenon DEF Init, LockInv, Reading, Everywhere

\* A contract's orders are read by the step of one order only.
LEMMA ReadingGrows ==
    ASSUME TypeInv, [Next]_vars, NEW p \in Orders, Reading(p)'
    PROVE  \/ Reading(p) /\ (pc'[p] = "orders" /\ pc[p] # "orders" => ReadOrders(p))
           \/ ReadPositions(p) /\ pc'[p] = "positions"
<1> RequestType
  BY Zenon, TypeParts
<1> USE DEF Goto, Reading, RequestType
<1>1. ASSUME NEW o \in Orders,
             ReadPositions(o) \/ PositionsUnreadable(o) \/ ReadOrders(o)
      PROVE  \/ Reading(p) /\ (pc'[p] = "orders" /\ pc[p] # "orders" => ReadOrders(p))
             \/ ReadPositions(p) /\ pc'[p] = "positions"
  <2>1. CASE o = p
    BY <1>1, <2>1 DEF ReadPositions, PositionsUnreadable, ReadOrders
  <2>2. CASE o # p
    <3>1. pc'[p] = pc[p]
      BY Zenon, <1>1, <2>2 DEF ReadPositions, PositionsUnreadable, ReadOrders
    <3> QED
      BY Zenon, <3>1
  <2> QED
    BY Zenon, <2>1, <2>2
<1>2. ASSUME NEW o \in Orders, Classify(o) \/ Snapshot(o) \/ NoSnapshot(o) \/ Admit(o) \/ Refuse(o)
      PROVE  pc'[p] = pc[p]
  BY Zenon, <1>2 DEF Classify, Snapshot, NoSnapshot, Admit, Refuse
<1>3. ASSUME NEW o \in Orders, FailBeforeInvoke(o) \/ Acknowledge(o) \/ NoAnswer(o)
      PROVE  pc'[p] = pc[p]
  BY Zenon, <1>3 DEF FailBeforeInvoke, Acknowledge, NoAnswer
<1>4. ASSUME NEW o \in Orders,
             Invoke(o) \/ Cancelled(o) \/ Fill(o) \/ End(o) \/ ShowRow(o) \/ ShowFills(o)
      PROVE  pc' = pc
  BY Zenon, <1>4 DEF Invoke, Cancelled, Fill, End, ShowRow, ShowFills
<1>5. CASE ShowAll \/ UNCHANGED vars
  BY Zenon, <1>5 DEF ShowAll, vars
<1>6. CASE Crash
  BY Zenon, <1>6 DEF Crash
<1> QED
  BY Zenon, <1>1, <1>2, <1>3, <1>4, <1>5, <1>6, NextKinds DEF Quiet, Moves, Reading

LEMMA LockNext == ASSUME TypeInv, LockInv, [Next]_vars PROVE LockInv'
<1> SUFFICES ASSUME NEW o \in Orders, NEW p \in Orders, Reading(o)', Reading(p)', Contract[o] = Contract[p],
                    o # p
             PROVE  FALSE
  BY Zenon DEF LockInv
<1> RequestType
  BY Zenon, TypeParts
<1>0. o \in On(Contract[p]) /\ p \in On(Contract[o])
  BY Zenon, OnFacts
<1>1. ASSUME ReadPositions(o) PROVE FALSE
  <2>1. ~Reading(p) /\ pc'[p] = pc[p]
    BY Zenon, <1>0, <1>1 DEF ReadPositions, Goto, Reading, RequestType
  <2> QED
    BY Zenon, <2>1 DEF Reading
<1>2. ASSUME ReadPositions(p) PROVE FALSE
  <2>1. ~Reading(o) /\ pc'[o] = pc[o]
    BY Zenon, <1>0, <1>2 DEF ReadPositions, Goto, Reading, RequestType
  <2> QED
    BY Zenon, <2>1 DEF Reading
<1>3. CASE Reading(o) /\ Reading(p)
  BY Zenon, <1>3 DEF LockInv
<1> QED
  BY Zenon, <1>1, <1>2, <1>3, ReadingGrows

\* Only a classification makes an exit.
LEMMA ExitsStay ==
    ASSUME [Next]_vars, \A o \in Orders : ~Classify(o)
    PROVE  exits' = exits
<1> USE DEF history
<1>1. ASSUME NEW o \in Orders, ReadPositions(o) \/ PositionsUnreadable(o) \/ ReadOrders(o) \/ NoSnapshot(o)
                               \/ Snapshot(o) \/ Admit(o) \/ Refuse(o)
      PROVE exits' = exits
  BY Zenon, <1>1 DEF ReadPositions, PositionsUnreadable, ReadOrders, NoSnapshot, Snapshot, Admit,
     Refuse
<1>2. ASSUME NEW o \in Orders, FailBeforeInvoke(o) \/ Acknowledge(o) \/ NoAnswer(o) \/ Moves(o) \/ ShowRow(o)
      PROVE exits' = exits
  BY Zenon, <1>2 DEF FailBeforeInvoke, Acknowledge, NoAnswer, Moves, ShowRow, Invoke, Cancelled,
     Fill, End, ShowFills
<1>3. CASE ShowAll \/ Crash \/ UNCHANGED vars
  BY Zenon, <1>3 DEF ShowAll, Crash, vars
<1> QED
  BY Zenon, <1>1, <1>2, <1>3, NextKinds DEF Quiet

\* Only a classification makes an exit live.
LEMMA AliveShrinks ==
    ASSUME TypeInv, OrderInv, [Next]_vars, \A o \in Orders : ~Classify(o), NEW p \in Orders, Alive(p)'
    PROVE  Alive(p)
<1> RequestType /\ BrokerType
  BY Zenon, TypeParts
<1>1. exits' = exits
  BY Zenon, ExitsStay
<1>2. p \in exits /\ pc[p] \notin {"idle", "positions", "orders"}
  BY Zenon, <1>1 DEF Alive, OrderInv, OrderOf
<1> USE DEF Goto, RequestType
<1>3. ASSUME NEW o \in Orders, Admit(o) PROVE Alive(p)
  <2>1. CASE o = p
    BY Zenon, <1>2, <1>3, <2>1 DEF Admit, Alive
  <2>2. CASE o # p
    BY Zenon, <1>2, <1>3, <2>2 DEF Admit, Alive, Loose, BrokerType, bookVars
  <2> QED
    BY Zenon, <2>1, <2>2
<1>4. ASSUME \A o \in Orders : ~Admit(o) PROVE Alive(p)
  <2>1. SUFFICES ASSUME pc'[p] \in {"ready", "snapshot"} PROVE pc[p] \in {"ready", "snapshot"}
    BY Zenon, <1>2, <1>4, LooseShrinks DEF Alive
  <2>2. ASSUME NEW o \in Orders, ReadPositions(o) \/ PositionsUnreadable(o) \/ ReadOrders(o) \/ NoSnapshot(o)
        PROVE pc[p] \in {"ready", "snapshot"}
    BY Zenon, <1>2, <2>1, <2>2 DEF ReadPositions, PositionsUnreadable, ReadOrders, NoSnapshot
  <2>3. ASSUME NEW o \in Orders, Snapshot(o) \/ Refuse(o) \/ FailBeforeInvoke(o) \/ Acknowledge(o) \/ NoAnswer(o)
        PROVE pc[p] \in {"ready", "snapshot"}
    BY Zenon, <1>2, <2>1, <2>3 DEF Snapshot, Refuse, FailBeforeInvoke, Acknowledge, NoAnswer
  <2>4. ASSUME NEW o \in Orders,
               Invoke(o) \/ Cancelled(o) \/ Fill(o) \/ End(o) \/ ShowRow(o) \/ ShowFills(o)
        PROVE  pc' = pc
    BY Zenon, <2>4 DEF Invoke, Cancelled, Fill, End, ShowRow, ShowFills
  <2>5. CASE ShowAll \/ UNCHANGED vars
    BY Zenon, <2>1, <2>5 DEF ShowAll, vars
  <2>6. CASE Crash
    BY Zenon, <2>1, <2>6 DEF Crash
  <2> QED
    BY Zenon, <1>4, <2>1, <2>2, <2>3, <2>4, <2>5, <2>6, NextKinds DEF Quiet, Moves
<1> QED
  BY Zenon, <1>3, <1>4

LEMMA InitHold == Init => HoldInv
  BY Zenon DEF Init, HoldInv, HoldOf, Alive, Everywhere, Zero

\* An exit whose row the order book shows closed is over, with books in step.
LEMMA ClosedIsNotAlive ==
    ASSUME TypeInv, OrderInv, inStep, NEW p \in Orders, row[p] \in Over
    PROVE  ~Alive(p)
<1>1. status[p] = row[p] /\ rowFilled[p] = filled[p] /\ rowFilled[p] = posFilled[p]
  BY Zenon DEF OrderInv, OrderOf
<1>2. pc[p] \notin {"ready", "snapshot"}
  BY Zenon, <1>1 DEF OrderInv, OrderOf, Unsent, Over
<1> QED
  BY Zenon, <1>1, <1>2 DEF Alive, Loose, Over

\* Holds that stay, or lose no exit under way, keep HoldInv.
LEMMA HoldStays ==
    ASSUME TypeInv, OrderInv, HoldInv, [Next]_vars, \A o \in Orders : ~Classify(o) /\ ~ReadOrders(o),
           inStep /\ crashes = 0,
           \A p \in Orders : Alive(p)' /\ hold[p] # "none" => hold'[p] # "none",
           \A p \in Orders : hold'[p] = "covered" => hold[p] = "covered",
           kept' = kept
    PROVE  HoldInv'
<1> SUFFICES ASSUME NEW o \in Orders PROVE HoldOf(o)'
  BY Zenon DEF HoldInv
<1>1. HoldOf(o)
  BY Zenon DEF HoldInv
<1>2. Alive(o)' => Alive(o)
  BY Zenon, AliveShrinks
<1>3. ASSUME NEW p \in On(Contract[o]), pc'[p] = "orders" PROVE pc[p] = "orders"
  <2>1. p \in Orders /\ Reading(p)'
    BY Zenon, <1>3, OnFacts DEF Reading
  <2> QED
    BY Zenon, <1>3, <2>1, ReadingGrows
<1> QED
  BY Zenon, <1>1, <1>2, <1>3 DEF HoldOf

LEMMA HoldNext == ASSUME TypeInv, OrderInv, LockInv, HoldInv, [Next]_vars PROVE HoldInv'
<1> RequestType /\ BrokerType /\ WorldType
  BY Zenon, TypeParts
<1>0. SUFFICES ASSUME inStep', crashes' = 0 PROVE HoldInv'
  BY Zenon DEF HoldInv
<1> USE DEF readVars, worldVars, brokerVars, bookVars
<1>1. ASSUME NEW o \in Orders, ReadOrders(o) PROVE HoldInv'
  <2>1. PICK readable \in BOOLEAN :
          kept' = [p \in Orders |-> IF p \in On(Contract[o]) THEN Observed(p, readable) ELSE kept[p]]
    BY Zenon, <1>1 DEF ReadOrders
  <2>2. /\ UNCHANGED <<hold, inStep, crashes, status, filled, posFilled, exits>>
        /\ pc[o] = "positions" /\ pc' = [pc EXCEPT ![o] = "orders"]
    BY Zenon, <1>1 DEF ReadOrders, Goto, history
  <2> SUFFICES ASSUME NEW p \in Orders PROVE HoldOf(p)'
    BY Zenon DEF HoldInv
  <2>3. HoldOf(p)
    BY Zenon, <1>0, <2>2 DEF HoldInv
  <2>4. Alive(p)' => Alive(p)
    BY Zenon, <2>2 DEF Alive, Loose, RequestType
  <2>5. CASE p \in On(Contract[o])
    <3>1. kept'[p] = Observed(p, readable)
      BY Zenon, <2>1, <2>5
    <3>2. Alive(p) => row[p] \notin Over
      BY Zenon, <1>0, <2>2, ClosedIsNotAlive
    <3>3. Alive(p)' => hold'[p] # "none" /\ kept'[p] # "none"
      BY Zenon, <2>2, <2>3, <2>4, <3>1, <3>2 DEF HoldOf, Observed, Over
    <3>4. hold'[p] = "covered" => kept'[p] # "unseen"
      BY Zenon, <2>2, <3>1 DEF Observed
    <3> QED
      BY Zenon, <3>3, <3>4 DEF HoldOf
  <2>6. CASE p \notin On(Contract[o])
    <3>1. kept'[p] = kept[p] /\ \A q \in On(Contract[p]) : pc'[q] = pc[q]
      BY Zenon, <2>1, <2>2, <2>6, OnFacts DEF RequestType
    <3> QED
      BY Zenon, <2>2, <2>3, <2>4, <3>1 DEF HoldOf
  <2> QED
    BY Zenon, <2>5, <2>6
<1>2. ASSUME NEW o \in Orders, Classify(o) PROVE HoldInv'
  <2> DEFINE h == WrittenBack(Contract[o])
  <2>1. /\ pc[o] = "orders" /\ pc' \in {[pc EXCEPT ![o] = "ready"], [pc EXCEPT ![o] = "done"]}
        /\ kept' = [p \in Orders |-> IF p \in On(Contract[o]) THEN "unseen" ELSE kept[p]]
        /\ UNCHANGED <<inStep, crashes, status, filled, posFilled>>
        /\ \/ hold' = h /\ exits' = exits
           \/ hold' = [h EXCEPT ![o] = "flight"] /\ exits' = exits \cup {o}
    BY Zenon, <1>2 DEF Classify, Goto
  <2> HIDE DEF h
  <2>2. /\ h \in [Orders -> {"none", "flight", "unknown", "bound", "covered"}]
        /\ o \in On(Contract[o])
    BY Zenon, HoldTypes, OrderFacts DEF h
  <2> SUFFICES ASSUME NEW p \in Orders PROVE HoldOf(p)'
    BY Zenon DEF HoldInv
  <2>3. HoldOf(p)
    BY Zenon, <1>0, <2>1 DEF HoldInv
  <2>4. o \notin exits
    BY Zenon, <2>1 DEF OrderInv, OrderOf
  <2>5. p # o => (Alive(p)' => Alive(p)) /\ hold'[p] = h[p]
    BY Zenon, <2>1, <2>2 DEF Alive, Loose, RequestType
  <2>6. CASE p \in On(Contract[o])
    <3>1. kept'[p] = "unseen"
      BY Zenon, <2>1, <2>6
    <3>2. \A q \in On(Contract[p]) : pc'[q] # "orders"
      <4> TAKE q \in On(Contract[p])
      <4>1. q \in Orders /\ Contract[q] = Contract[o]
        BY Zenon, <2>6, OnFacts
      <4>2. Reading(q) => q = o
        BY Zenon, <2>1, <4>1 DEF LockInv, Reading
      <4> QED
        BY Zenon, <2>1, <4>1, <4>2 DEF RequestType, Reading
    <3>3. Alive(p)' => hold'[p] # "none"
      <4>1. CASE p = o
        BY Zenon, <2>1, <2>2, <2>4, <4>1 DEF Alive
      <4>2. CASE p # o
        <5>1. h[p] = IF kept[p] # "unseen" THEN kept[p] ELSE IF hold[p] = "bound" THEN "unknown" ELSE hold[p]
          BY Zenon, <2>6 DEF h, WrittenBack
        <5> QED
          BY Zenon, <2>3, <2>5, <4>2, <5>1 DEF HoldOf
      <4> QED
        BY Zenon, <4>1, <4>2
    <3> QED
      BY Zenon, <3>1, <3>2, <3>3 DEF HoldOf
  <2>7. CASE p \notin On(Contract[o])
    <3>1. kept'[p] = kept[p] /\ h[p] = hold[p] /\ p # o /\ \A q \in On(Contract[p]) : pc'[q] = pc[q]
      BY <2>1, <2>2, <2>7, OnFacts DEF RequestType, h, WrittenBack
    <3> QED
      BY Zenon, <2>3, <2>5, <3>1 DEF HoldOf
  <2> QED
    BY Zenon, <2>6, <2>7
<1>3. ASSUME \A o \in Orders : ~Classify(o) /\ ~ReadOrders(o) PROVE HoldInv'
  <2>1. ASSUME NEW o \in Orders, NoSnapshot(o) \/ Refuse(o) \/ FailBeforeInvoke(o) PROVE HoldInv'
    <3>1. /\ UNCHANGED <<kept, inStep, crashes, filled, posFilled>> /\ hold' = [hold EXCEPT ![o] = "none"]
          /\ pc' = [pc EXCEPT ![o] = "done"]
          /\ \/ status' = status /\ pc[o] \in Unsent
             \/ status' = [status EXCEPT ![o] = "none"] /\ status[o] = "queued"
      BY Zenon, <2>1 DEF NoSnapshot, Refuse, FailBeforeInvoke, Released, Goto, Unsent
    <3>2. status'[o] = "none" /\ filled[o] = 0 /\ posFilled[o] = 0
      BY <3>1 DEF OrderInv, OrderOf, BrokerType
    <3>3. ~Alive(o)'
      BY Zenon, <3>1, <3>2 DEF Alive, Loose, RequestType
    <3> QED
      BY Zenon, <1>0, <1>3, <3>1, <3>3, HoldStays DEF RequestType
  <2>2. ASSUME NEW o \in Orders, Acknowledge(o) \/ NoAnswer(o) PROVE HoldInv'
    <3>1. /\ UNCHANGED <<kept, inStep, crashes>>
          /\ \A p \in Orders : \/ hold'[p] = hold[p]
                               \/ hold[p] = "flight" /\ hold'[p] \in {"bound", "unknown"}
      BY Zenon, <2>2 DEF Acknowledge, NoAnswer, OutcomeUnknown, Bind, RequestType
    <3>2. /\ \A p \in Orders : hold[p] # "none" => hold'[p] # "none"
          /\ \A p \in Orders : hold'[p] = "covered" => hold[p] = "covered"
      BY Zenon, <3>1
    <3> QED
      BY Zenon, <1>0, <1>3, <3>1, <3>2, HoldStays
  <2>3. ASSUME UNCHANGED <<hold, kept, inStep, crashes>> PROVE HoldInv'
    BY Zenon, <1>0, <1>3, <2>3, HoldStays
  <2>4. ASSUME NEW o \in Orders, ReadPositions(o) \/ PositionsUnreadable(o) \/ Snapshot(o) \/ Admit(o)
        PROVE  UNCHANGED <<hold, kept, inStep, crashes>>
    BY Zenon, <2>4 DEF ReadPositions, PositionsUnreadable, Snapshot, Admit
  <2>5. ASSUME NEW o \in Orders,
               Invoke(o) \/ Cancelled(o) \/ Fill(o) \/ End(o) \/ ShowRow(o) \/ ShowFills(o)
        PROVE  UNCHANGED <<hold, kept, inStep, crashes>>
    BY Zenon, <2>5 DEF Invoke, Cancelled, Fill, End, ShowRow, ShowFills
  <2>6. CASE ShowAll \/ UNCHANGED vars
    <3>1. UNCHANGED <<hold, kept, inStep, crashes>>
      BY Zenon, <2>6 DEF ShowAll, vars
    <3> QED
      BY Zenon, <2>3, <3>1
  <2>7. CASE Crash
    <3>1. crashes' = crashes + 1 /\ crashes \in Nat
      BY <2>7, BoundsAssumption DEF Crash, WorldType
    <3> QED
      BY SMTT(30), <1>0, <3>1
  <2> QED
    BY Zenon, <1>3, <2>1, <2>2, <2>3, <2>4, <2>5, <2>6, <2>7, NextKinds DEF Quiet, Moves
<1> QED
  BY Zenon, <1>1, <1>2, <1>3

-----------------------------------------------------------------------------
(* What a classification has read as pending *)

LEMMA CoveringSummable ==
    ASSUME BrokerType, NEW o \in Orders
    PROVE  /\ Summable(Covering(o), On(Contract[o])) /\ SumFunctionOnSet(Covering(o), On(Contract[o])) \in Int
           /\ \A p \in Orders : Covering(o)[p] >= 0
<1>1. \A p \in Orders : Size(p) - rowFilled[p] \in Nat
  <2> TAKE p \in Orders
  <2> QED
    BY OrderFacts DEF BrokerType
<1>2. \A p \in Orders : Covering(o)[p] \in Int /\ Covering(o)[p] >= 0
  BY <1>1 DEF Covering
<1>3. Summable(Covering(o), On(Contract[o]))
  BY Zenon, <1>2, OnFacts DEF Summable
<1> QED
  BY Zenon, <1>2, <1>3, SumPick

LEMMA InitPending == Init => PendingInv
  BY Zenon DEF Init, PendingInv, PendingOf, Everywhere

\* While a classification is between its two reads and its decision, what it has read stays.
LEMMA ReadStays ==
    ASSUME TypeInv, LockInv, [Next]_vars, NEW o \in Orders, pc[o] = "orders", pc'[o] = "orders"
    PROVE  net'[o] = net[o] /\ pending'[o] = pending[o] /\ \A p \in On(Contract[o]) : kept'[p] = kept[p]
<1> RequestType
  BY Zenon, TypeParts
<1> USE DEF Goto, readVars, RequestType
<1>1. ASSUME NEW q \in Orders, ReadOrders(q) \/ Classify(q)
      PROVE  net'[o] = net[o] /\ pending'[o] = pending[o] /\ \A p \in On(Contract[o]) : kept'[p] = kept[p]
  <2>1. Reading(q) /\ Reading(o) /\ q # o
    BY Zenon, <1>1 DEF ReadOrders, Classify, Reading
  <2>2. Contract[q] # Contract[o]
    BY Zenon, <2>1 DEF LockInv
  <2>3. \A p \in On(Contract[o]) : p \in Orders /\ p \notin On(Contract[q])
    BY <2>2, OnFacts
  <2>4. CASE ReadOrders(q)
    BY ZenonT(40), <2>1, <2>3, <2>4 DEF ReadOrders
  <2>5. CASE Classify(q)
    BY Zenon, <2>1, <2>3, <2>5 DEF Classify
  <2> QED
    BY Zenon, <1>1, <2>4, <2>5
<1>2. ASSUME NEW q \in Orders, ReadPositions(q) \/ PositionsUnreadable(q)
      PROVE  net'[o] = net[o] /\ UNCHANGED <<pending, kept>>
  BY Zenon, <1>2 DEF ReadPositions, PositionsUnreadable
<1>3. ASSUME NEW q \in Orders, Snapshot(q) \/ NoSnapshot(q) \/ Admit(q) \/ Refuse(q) \/ FailBeforeInvoke(q)
      PROVE  UNCHANGED <<net, pending, kept>>
  BY Zenon, <1>3 DEF Snapshot, NoSnapshot, Admit, Refuse, FailBeforeInvoke
<1>4. ASSUME NEW q \in Orders, Acknowledge(q) \/ NoAnswer(q) \/ Invoke(q) \/ Cancelled(q)
      PROVE  UNCHANGED <<net, pending, kept>>
  BY Zenon, <1>4 DEF Acknowledge, NoAnswer, Invoke, Cancelled
<1>5. ASSUME NEW q \in Orders, Fill(q) \/ End(q) \/ ShowRow(q) \/ ShowFills(q)
      PROVE  UNCHANGED <<net, pending, kept>>
  BY Zenon, <1>5 DEF Fill, End, ShowRow, ShowFills
<1>6. CASE ShowAll \/ UNCHANGED vars
  BY Zenon, <1>6 DEF ShowAll, vars
<1>7. CASE Crash
  BY Zenon, <1>7 DEF Crash
<1> QED
  BY Zenon, <1>1, <1>2, <1>3, <1>4, <1>5, <1>6, <1>7, NextKinds DEF Quiet, Moves

\* The order book never takes a fill back.
LEMMA RowsGrow == ASSUME TypeInv, [Next]_vars, NEW p \in Orders PROVE rowFilled[p] <= rowFilled'[p]
<1> BrokerType
  BY Zenon, TypeParts
<1>0. rowFilled[p] \in Nat /\ filled[p] \in Nat /\ rowFilled[p] <= filled[p]
  BY Zenon DEF BrokerType
<1>1. SUFFICES rowFilled'[p] \in {rowFilled[p], filled[p]}
  BY <1>0
<1> USE DEF bookVars
<1>2. ASSUME NEW o \in Orders, \/ ReadPositions(o) \/ PositionsUnreadable(o) \/ ReadOrders(o) \/ Classify(o)
                               \/ Snapshot(o) \/ NoSnapshot(o) \/ Admit(o) \/ Refuse(o)
      PROVE rowFilled' = rowFilled
  BY Zenon, <1>2 DEF ReadPositions, PositionsUnreadable, ReadOrders, Classify, Snapshot,
     NoSnapshot, Admit, Refuse
<1>3. ASSUME NEW o \in Orders, \/ FailBeforeInvoke(o) \/ Acknowledge(o) \/ NoAnswer(o) \/ Invoke(o)
                               \/ Cancelled(o) \/ Fill(o) \/ End(o) \/ ShowFills(o)
      PROVE rowFilled' = rowFilled
  BY Zenon, <1>3 DEF FailBeforeInvoke, Acknowledge, NoAnswer, Invoke, Cancelled, Fill, End,
     ShowFills
<1>4. ASSUME NEW o \in Orders, ShowRow(o) PROVE rowFilled'[p] \in {rowFilled[p], filled[p]}
  BY Zenon, <1>4 DEF ShowRow, BrokerType
<1>5. CASE ShowAll \/ Crash \/ UNCHANGED vars
  BY Zenon, <1>5 DEF ShowAll, Crash, vars
<1> QED
  BY Zenon, <1>2, <1>3, <1>4, <1>5, NextKinds DEF Quiet, Moves

LEMMA PendingNext == ASSUME TypeInv, LockInv, PendingInv, [Next]_vars PROVE PendingInv'
<1> RequestType /\ BrokerType /\ BrokerType' /\ RequestType'
  BY Zenon, TypeParts, BrokerTypeNext, RequestTypeNext
<1> SUFFICES ASSUME NEW o \in Orders, pc'[o] = "orders" PROVE PendingOf(o)'
  BY Zenon DEF PendingInv, PendingOf
<1> DEFINE c == Contract[o]
           C == Covering(o)
<1>0. /\ Summable(C, On(c)) /\ SumFunctionOnSet(C, On(c)) \in Int
      /\ Summable(C', On(c)) /\ SumFunctionOnSet(C', On(c)) \in Int
  <2>1. \A p \in Orders : Size(p) - rowFilled'[p] \in Int
    BY OrderFacts DEF BrokerType
  <2>2. \A p \in Orders : C'[p] \in Int
    BY <2>1 DEF Covering
  <2>3. Summable(C', On(c))
    BY Zenon, <2>2, OnFacts DEF Summable
  <2> QED
    BY Zenon, <2>3, CoveringSummable, SumPick
<1>1. CASE pc[o] = "orders"
  <2>1. net'[o] = net[o] /\ pending'[o] = pending[o] /\ \A p \in On(c) : kept'[p] = kept[p]
    BY Zenon, <1>1, ReadStays
  <2>2. \A p \in On(c) : C'[p] <= C[p]
    <3> TAKE p \in On(c)
    <3>1. p \in Orders /\ kept'[p] = kept[p]
      BY Zenon, <2>1, OnFacts
    <3>2. rowFilled[p] <= rowFilled'[p] /\ rowFilled[p] \in Nat /\ rowFilled'[p] \in Nat /\ Size(p) \in Nat
      BY Zenon, <3>1, RowsGrow, OrderFacts DEF BrokerType
    <3> QED
      BY <3>1, <3>2 DEF Covering
  <2> HIDE DEF C, c
  <2>3. SumFunctionOnSet(C', On(c)) <= SumFunctionOnSet(C, On(c))
    BY Zenon, <1>0, <2>2, SumMono
  <2>4. pending[o] \in Int /\ net[o] \in Int
    BY DEF RequestType
  <2>5. Abs(net[o]) <= pending[o] \/ SumFunctionOnSet(C, On(c)) <= pending[o]
    BY Zenon, <1>1 DEF PendingInv, PendingOf, C, c
  <2>6. Abs(net[o]) <= pending[o] \/ SumFunctionOnSet(C', On(c)) <= pending[o]
    BY SMTT(30), <1>0, <2>3, <2>4, <2>5
  <2> QED
    BY Zenon, <2>1, <2>6 DEF PendingOf, C, c
<1>2. CASE pc[o] # "orders"
  <2>1. ReadOrders(o)
    BY Zenon, <1>2, ReadingGrows DEF Reading
  <2>2. PICK readable \in BOOLEAN :
          /\ kept' = [p \in Orders |-> IF p \in On(c) THEN Observed(p, readable) ELSE kept[p]]
          /\ pending' = [pending EXCEPT ![o] = IF readable THEN PendingExits(c, Buys(o)) ELSE Abs(net[o])]
    BY Zenon, <2>1 DEF ReadOrders
  <2>3. net' = net /\ rowFilled' = rowFilled
    BY Zenon, <2>1 DEF ReadOrders, bookVars
  <2>4. CASE ~readable
    <3>1. pending'[o] = Abs(net[o]) /\ Abs(net[o]) \in Nat
      BY Zenon, <2>2, <2>4, AbsFacts DEF RequestType
    <3>2. Abs(net'[o]) <= pending'[o]
      BY <2>3, <3>1
    <3> QED
      BY Zenon, <3>2 DEF PendingOf
  <2>5. CASE readable
    <3> DEFINE f == [p \in Orders |-> Size(p) - rowFilled[p]]
               P == {p \in On(c) : row[p] = "open" /\ Buys(p) = Buys(o)}
               g == [p \in Orders |-> IF p \in P THEN f[p] ELSE 0]
    <3>1. On(c) \subseteq Orders /\ P \subseteq On(c) /\ IsFiniteSet(P) /\ IsFiniteSet(On(c))
      BY Zenon, OnFacts, FS_Subset
    <3>2. \A p \in Orders : f[p] \in Int /\ f[p] >= 0 /\ f[p] = Size(p) - rowFilled[p]
      BY SMTT(30), OrderFacts DEF BrokerType
    <3>3. \A p \in On(c) : C'[p] <= g[p]
      <4> TAKE p \in On(c)
      <4>1. p \in Orders /\ kept'[p] = Observed(p, readable)
        BY Zenon, <2>2, <3>1
      <4>2. kept'[p] = "covered" => row[p] = "open"
        BY Zenon, <2>5, <4>1 DEF Observed
      <4>3. C'[p] = IF kept'[p] = "covered" /\ Buys(p) = Buys(o) THEN f[p] ELSE 0
        BY Zenon, <2>3, <4>1 DEF Covering
      <4>4. g[p] = IF p \in P THEN f[p] ELSE 0
        BY Zenon, <4>1
      <4>5. kept'[p] = "covered" /\ Buys(p) = Buys(o) => p \in P
        BY Zenon, <4>2
      <4>6. f[p] \in Int /\ f[p] >= 0
        BY Zenon, <3>2, <4>1
      <4> HIDE DEF C, f, P, g
      <4> QED
        BY SMTT(30), <4>3, <4>4, <4>5, <4>6
    <3>4. pending'[o] = SumFunctionOnSet(f, P)
      BY Zenon, <2>2, <2>5 DEF PendingExits, RequestType
    <3>5. \A p \in On(c) : g[p] = IF p \in P THEN f[p] ELSE 0
      BY Zenon, <3>1
    <3> HIDE DEF C, c, f, P, g
    <3>6. Summable(f, P) /\ Summable(g, On(c))
      BY SMTT(30), <3>1, <3>2, <3>5 DEF Summable
    <3>7. SumFunctionOnSet(g, On(c)) = SumFunctionOnSet(f, P)
      BY <3>1, <3>5, <3>6, SumPart
    <3>8. SumFunctionOnSet(C', On(c)) <= SumFunctionOnSet(g, On(c))
      BY Zenon, <1>0, <3>3, <3>6, SumMono
    <3>9. SumFunctionOnSet(C', On(c)) <= pending'[o]
      BY Zenon, <3>4, <3>7, <3>8
    <3> QED
      BY Zenon, <3>9 DEF PendingOf, C, c
  <2> QED
    BY Zenon, <2>4, <2>5
<1> QED
  BY Zenon, <1>1, <1>2

-----------------------------------------------------------------------------
(* Exits never exceed the position they close *)

LEMMA LeftToClose ==
    \A p, e, q, s, n \in Int : p + e <= q /\ q <= Abs(s) /\ Abs(n) = Abs(s) - e => p <= Abs(n)
  BY AbsFacts

LEMMA OneMoreSummand ==
    \A x, y \in Int, z \in Nat : x <= y => z + x <= (0 + y) + z
  OBVIOUS

LEMMA WithinBoth ==
    \A a, b \in Int, z, m \in Nat : a <= b + z /\ b + z <= m => a <= m
  OBVIOUS

\* A position that moves towards flat by no more than its size keeps its sign.
LEMMA NearerToFlat ==
    ASSUME NEW s \in Int, NEW n \in Int, NEW d \in Int, NEW e \in Int, NEW q \in Int,
           e >= 0, e <= q, q <= Abs(s), n = s + d, s < 0 => d = e, s >= 0 => d + e = 0
    PROVE  Abs(n) = Abs(s) - e /\ (s >= 0 => n >= 0) /\ (s <= 0 => n <= 0)
<1>1. CASE s < 0
  BY <1>1, AbsFacts
<1>2. CASE s >= 0
  BY <1>2, AbsFacts
<1> QED
  BY SMTT(30), <1>1, <1>2

LEMMA LeftFacts == ASSUME BrokerType, NEW p \in Orders PROVE Size(p) - posFilled[p] \in Nat
  BY OrderFacts DEF BrokerType

LEMMA OutstandingSummable ==
    ASSUME BrokerType, NEW c
    PROVE  /\ Summable(Outstanding, On(c)) /\ SumFunctionOnSet(Outstanding, On(c)) \in Int
           /\ \A p \in Orders : Outstanding[p] \in Int /\ Outstanding[p] >= 0
<1>1. \A p \in Orders : Size(p) - posFilled[p] \in Nat
  <2> TAKE p \in Orders
  <2> QED
    BY OrderFacts DEF BrokerType
<1>2. \A p \in Orders : Outstanding[p] \in Int /\ Outstanding[p] >= 0
  BY <1>1 DEF Outstanding
<1>3. Summable(Outstanding, On(c))
  BY Zenon, <1>2, OnFacts DEF Summable
<1> QED
  BY Zenon, <1>2, <1>3, SumPick

LEMMA OutstandingSummableNext ==
    ASSUME BrokerType', NEW c
    PROVE  /\ Summable(Outstanding', On(c)) /\ SumFunctionOnSet(Outstanding', On(c)) \in Int
           /\ \A p \in Orders : Outstanding'[p] \in Int /\ Outstanding'[p] >= 0
<1>1. \A p \in Orders : Size(p) - posFilled'[p] \in Nat
  <2> TAKE p \in Orders
  <2> QED
    BY OrderFacts DEF BrokerType
<1>2. \A p \in Orders : Outstanding'[p] \in Int /\ Outstanding'[p] >= 0
  BY <1>1 DEF Outstanding
<1>3. Summable(Outstanding', On(c))
  BY Zenon, <1>2, OnFacts DEF Summable
<1> QED
  BY Zenon, <1>2, <1>3, SumPick

LEMMA ShownInt ==
    ASSUME BrokerType, NEW c \in Contracts
    PROVE  Shown(c) \in Int /\ Net(c, filled) \in Int
<1>1. posFilled \in [Orders -> Nat] /\ filled \in [Orders -> Nat]
  BY Zenon DEF BrokerType
<1> QED
  BY Zenon, <1>1, NetSame DEF Shown

LEMMA InitFlip == Init => FlipInv
<1> SUFFICES ASSUME Init, NEW c \in Contracts PROVE FlipOf(c)
  BY Zenon DEF FlipInv
<1>0. posFilled = Zero /\ Zero \in [Orders -> Nat] /\ exits = {}
  BY Zenon DEF Init, Zero
<1>1. \A o \in On(c) : Signed(Zero)[o] = 0
  <2> TAKE o \in On(c)
  <2>1. o \in Orders /\ Direction(o) \in {1, -1} /\ Zero[o] = 0
    BY Zenon, OnFacts, OrderFacts DEF Zero
  <2> QED
    BY <2>1 DEF Signed
<1>2. Summable(Signed(Zero), On(c))
  BY <1>1, OnFacts DEF Summable
<1>3. Start[c] \in Int /\ Shown(c) = Start[c]
  BY SMTT(30), <1>0, <1>1, <1>2, SumZero, StartAssumption DEF Shown, Net
<1>4. \A o \in Orders : ~Alive(o) /\ Outstanding[o] = 0
  BY Zenon, <1>0 DEF Alive, Outstanding
<1>5. Summable(Outstanding, On(c)) /\ \A o \in On(c) : Outstanding[o] = 0
  BY <1>4, OnFacts DEF Summable
<1>6. SumFunctionOnSet(Outstanding, On(c)) = 0
  BY Zenon, <1>5, SumZero
<1> QED
  BY SMTT(30), <1>3, <1>4, <1>6, OnFacts, AbsFacts DEF FlipOf

\* An order that reached the broker, and was no exit, is none later.
LEMMA PureShrinks ==
    ASSUME TypeInv, OrderInv, [Next]_vars, NEW c \in Contracts, Pure(c)'
    PROVE  Pure(c)
<1> RequestType /\ BrokerType
  BY Zenon, TypeParts
<1> SUFFICES ASSUME NEW p \in On(c), p \notin exits,
                    status[p] \notin {"none", "queued", "refused"}
             PROVE  FALSE
  BY Zenon DEF Pure
<1>1. p \in Orders /\ pc[p] \notin Unsent
  BY Zenon, OnFacts DEF OrderInv, OrderOf
<1>2. p \notin exits'
  <2>1. CASE \A o \in Orders : ~Classify(o)
    BY Zenon, <2>1, ExitsStay
  <2>2. ASSUME NEW o \in Orders, Classify(o) PROVE p \notin exits'
    <3>1. o # p /\ (exits' = exits \/ exits' = exits \cup {o})
      BY Zenon, <1>1, <2>2 DEF Classify, Unsent
    <3> QED
      BY Zenon, <3>1
  <2> QED
    BY Zenon, <2>1, <2>2
<1>3. status'[p] \notin {"none", "queued", "refused"}
  <2> USE DEF BrokerType, brokerVars
  <2>1. ASSUME NEW o \in Orders, Quiet(o) PROVE status' = status
    BY Zenon, <2>1, QuietFrame
  <2>2. ASSUME NEW o \in Orders, Moves(o) PROVE status'[p] \notin {"none", "queued", "refused"}
    BY Zenon, <1>1, <2>2 DEF Moves, Invoke, FailBeforeInvoke, Cancelled, Fill, End, ShowFills
  <2>3. ASSUME NEW o \in Orders, Snapshot(o) \/ Admit(o) PROVE status'[p] = status[p]
    BY Zenon, <1>1, <2>3 DEF Snapshot, Admit, Unsent
  <2>4. CASE ShowAll \/ Crash \/ UNCHANGED vars
    BY Zenon, <1>1, <2>4 DEF ShowAll, Crash, vars
  <2> QED
    BY Zenon, <2>1, <2>2, <2>3, <2>4, NextKinds
<1> QED
  BY Zenon, <1>1, <1>2, <1>3 DEF Pure

\* Exits that come to an end, or wait, while the position book shows the same.
LEMMA FlipStays ==
    ASSUME BrokerType, BrokerType', NEW c \in Contracts, FlipOf(c), posFilled' = posFilled,
           \A p \in On(c) : Alive(p)' => Alive(p)
    PROVE  FlipOf(c)'
<1> DEFINE q == Outstanding
<1>1. Shown(c)' = Shown(c) /\ Shown(c) \in Int
  BY Zenon, ShownInt DEF Shown, Net, Signed
<1>2. \A p \in On(c) : q'[p] <= q[p]
  <2> TAKE p \in On(c)
  <2>1. p \in Orders /\ (Alive(p)' => Alive(p)) /\ Size(p) - posFilled[p] \in Nat
    BY OnFacts, OrderFacts DEF BrokerType
  <2> QED
    BY <2>1 DEF Outstanding
<1>3. /\ Summable(q, On(c)) /\ SumFunctionOnSet(q, On(c)) \in Int
      /\ Summable(q', On(c)) /\ SumFunctionOnSet(q', On(c)) \in Int
  BY Zenon, OutstandingSummable, OutstandingSummableNext
<1>4. SumFunctionOnSet(q', On(c)) <= SumFunctionOnSet(q, On(c))
  <2> HIDE DEF q
  <2> QED
    BY Zenon, <1>2, <1>3, SumMono
<1>5. SumFunctionOnSet(q', On(c)) <= Abs(Shown(c))
  BY <1>1, <1>3, <1>4, AbsFacts DEF FlipOf
<1>6. \A o \in On(c) : Alive(o)' => Opposes(o, Shown(c))
  BY Zenon DEF FlipOf
<1>7. (Start[c] >= 0 => Shown(c) >= 0) /\ (Start[c] <= 0 => Shown(c) <= 0)
  BY Zenon DEF FlipOf
<1> QED
  BY Zenon, <1>1, <1>5, <1>6, <1>7 DEF FlipOf

\* What the position book still has to show of an order's fills.
Unseen == [o \in Orders |-> filled[o] - posFilled[o]]

\* Fills the position book does not show are of live exits: they bring the position
\* nearer to flat by their sum, and not beyond.
LEMMA FillsKeepSign ==
    ASSUME TypeInv, OrderInv, NEW c \in Contracts, Pure(c), FlipOf(c)
    PROVE  /\ Summable(Unseen, On(c)) /\ SumFunctionOnSet(Unseen, On(c)) \in Int
           /\ Abs(Net(c, filled)) = Abs(Shown(c)) - SumFunctionOnSet(Unseen, On(c))
           /\ Shown(c) >= 0 => Net(c, filled) >= 0
           /\ Shown(c) <= 0 => Net(c, filled) <= 0
           /\ \A o \in On(c) : /\ Unseen[o] = filled[o] - posFilled[o] /\ Unseen[o] >= 0
                               /\ Unseen[o] # 0 => Alive(o)
<1> BrokerType
  BY Zenon, TypeParts
<1> DEFINE e == Unseen
           d == [o \in Orders |-> Direction(o) * e[o]]
           E == SumFunctionOnSet(e, On(c))
           D == SumFunctionOnSet(d, On(c))
           q == Outstanding
           Q == SumFunctionOnSet(q, On(c))
           s == Shown(c)
           n == Net(c, filled)
<1>1. ASSUME NEW o \in On(c)
      PROVE  /\ o \in Orders /\ e[o] = filled[o] - posFilled[o] /\ e[o] \in Nat
             /\ e[o] # 0 => Alive(o)
             /\ e[o] <= q[o]
             /\ d[o] = Direction(o) * (filled[o] - posFilled[o])
  <2>1. o \in Orders
    BY Zenon, OnFacts
  <2>2. /\ e[o] = filled[o] - posFilled[o] /\ e[o] \in Nat /\ filled[o] \in Nat /\ posFilled[o] \in Nat
        /\ filled[o] <= Size(o) /\ Size(o) \in Nat
    BY <2>1, OrderFacts DEF BrokerType, Unseen
  <2>3. ASSUME e[o] # 0 PROVE Alive(o)
    <3>1. filled[o] # 0 /\ filled[o] # posFilled[o]
      BY <2>2, <2>3 DEF BrokerType
    <3>2. o \in exits
      BY Zenon, <2>1, <3>1 DEF OrderInv, OrderOf, Pure
    <3> QED
      BY Zenon, <3>1, <3>2 DEF Alive, Loose
  <2>4. q[o] = IF Alive(o) THEN Size(o) - posFilled[o] ELSE 0
    BY Zenon, <2>1 DEF Outstanding
  <2>5. e[o] <= q[o]
    BY SMTT(30), <2>2, <2>3, <2>4
  <2> QED
    BY Zenon, <2>1, <2>2, <2>3, <2>5
<1>2. Summable(e, On(c)) /\ E \in Int /\ E >= 0
  <2> HIDE DEF e, d, q
  <2>0. \A o \in On(c) : e[o] \in Nat
    BY Zenon, <1>1
  <2>1. Summable(e, On(c)) /\ \A o \in On(c) : e[o] >= 0
    BY <2>0, OnFacts DEF Summable
  <2>2. SumFunctionOnSet(e, On(c)) \in Nat
    BY Zenon, <2>1, SumNat
  <2> QED
    BY <2>1, <2>2
<1>3. Summable(q, On(c)) /\ Q \in Int
  BY Zenon, OutstandingSummable
<1>4. E <= Q
  <2> HIDE DEF e, q
  <2> QED
    BY Zenon, <1>1, <1>2, <1>3, SumMono
<1>5. Summable(d, On(c)) /\ D \in Int /\ n = s + D
  <2>1. filled \in [Orders -> Nat] /\ posFilled \in [Orders -> Nat]
    BY Zenon DEF BrokerType
  <2>2. \A o \in On(c) : d[o] = Direction(o) * (filled[o] - posFilled[o])
    BY Zenon, <1>1
  <2> HIDE DEF d
  <2> QED
    BY Zenon, <2>1, <2>2, NetDifference DEF Shown
<1>6. s \in Int /\ n \in Int
  BY Zenon, ShownInt
<1>7. \A o \in On(c) : e[o] # 0 => Opposes(o, s)
  BY Zenon, <1>1 DEF FlipOf
<1>8. Q <= Abs(s)
  BY Zenon DEF FlipOf
<1>9. s < 0 => D = E
  <2> SUFFICES ASSUME s < 0 PROVE D = E
    BY Zenon
  <2>1. \A o \in On(c) : d[o] <= e[o] /\ e[o] <= d[o]
    <3> TAKE o \in On(c)
    <3>1. /\ o \in Orders /\ e[o] \in Nat /\ d[o] = Direction(o) * e[o] /\ Direction(o) \in {1, -1}
          /\ (Direction(o) = 1 <=> Buys(o)) /\ (e[o] # 0 => Opposes(o, s))
      BY Zenon, <1>1, <1>7, OrderFacts
    <3>2. e[o] # 0 => Direction(o) = 1
      BY Zenon, <3>1 DEF Opposes
    <3> HIDE DEF d, e
    <3> QED
      BY <3>1, <3>2
  <2> HIDE DEF d, e
  <2>2. D <= E /\ E <= D
    BY Zenon, <1>2, <1>5, <2>1, SumMono
  <2> QED
    BY <1>2, <1>5, <2>2
<1>10. s >= 0 => D + E = 0
  <2> SUFFICES ASSUME s >= 0 PROVE D + E = 0
    BY Zenon
  <2> DEFINE z == [o \in Orders |-> 0]
  <2>1. \A o \in On(c) : z[o] = d[o] + e[o] /\ z[o] = 0
    <3> TAKE o \in On(c)
    <3>1. /\ o \in Orders /\ e[o] \in Nat /\ d[o] = Direction(o) * e[o] /\ Direction(o) \in {1, -1}
          /\ (Direction(o) = 1 <=> Buys(o)) /\ (e[o] # 0 => Opposes(o, s))
      BY Zenon, <1>1, <1>7, OrderFacts
    <3>2. e[o] # 0 => Direction(o) = -1
      <4>1. ~(s < 0)
        BY <1>6
      <4>2. e[o] # 0 => ~Buys(o)
        BY Zenon, <3>1, <4>1 DEF Opposes
      <4> QED
        BY Zenon, <3>1, <4>2
    <3>3. z[o] = 0
      BY Zenon, <3>1
    <3> HIDE DEF d, e, z
    <3> QED
      BY <3>1, <3>2, <3>3
  <2>2. Summable(z, On(c))
    BY <2>1, OnFacts DEF Summable
  <2> HIDE DEF d, e, z
  <2>3. SumFunctionOnSet(z, On(c)) = 0
    BY Zenon, <2>1, <2>2, SumZero
  <2>4. \A o \in On(c) : z[o] = d[o] + e[o]
    BY Zenon, <2>1
  <2>5. SumFunctionOnSet(z, On(c)) = D + E
    BY SMTT(30), <1>2, <1>5, <2>2, <2>4, SumAdd
  <2> QED
    BY Zenon, <2>3, <2>5
<1> HIDE DEF d, D, E, Q, s, n
<1>11. /\ Abs(n) = Abs(s) - E
       /\ s >= 0 => n >= 0
       /\ s <= 0 => n <= 0
  BY SMTT(30), <1>2, <1>3, <1>4, <1>5, <1>6, <1>8, <1>9, <1>10, NearerToFlat
<1> QED
  BY <1>1, <1>2, <1>11 DEF E, s, n

\* A broker that updates both books keeps every exit within what is left to close.
LEMMA FlipShowAll ==
    ASSUME TypeInv, OrderInv, NEW c \in Contracts, Pure(c), FlipOf(c), ShowAll, BrokerType'
    PROVE  FlipOf(c)'
<1> BrokerType
  BY Zenon, TypeParts
<1> DEFINE e == Unseen
           E == SumFunctionOnSet(e, On(c))
           q == Outstanding
           Q == SumFunctionOnSet(q, On(c))
           P == SumFunctionOnSet(q', On(c))
           h == [o \in Orders |-> q'[o] + e[o]]
           s == Shown(c)
           n == Net(c, filled)
<1>1. UNCHANGED <<pc, status, filled, exits>> /\ posFilled' = filled
  BY Zenon DEF ShowAll, brokerVars, history
<1>2. Shown(c)' = n /\ n \in Int /\ s \in Int
  BY Zenon, <1>1, ShownInt DEF Shown, Net, Signed
<1>3. /\ Summable(e, On(c)) /\ E \in Int /\ Abs(n) = Abs(s) - E
      /\ s >= 0 => n >= 0
      /\ s <= 0 => n <= 0
      /\ \A o \in On(c) : e[o] = filled[o] - posFilled[o] /\ e[o] >= 0 /\ (e[o] # 0 => Alive(o))
  BY ZenonT(40), FillsKeepSign
<1>4. ASSUME NEW o \in On(c)
      PROVE  /\ Alive(o)' => Alive(o) /\ q'[o] > 0
             /\ q'[o] \in Int /\ e[o] \in Int /\ h[o] = q'[o] + e[o] /\ h[o] <= q[o]
  <2>1. /\ o \in Orders /\ Size(o) \in Nat /\ Size(o) > 0 /\ filled[o] \in Nat /\ posFilled[o] \in Nat
        /\ filled[o] <= Size(o) /\ posFilled[o] <= filled[o]
    BY Zenon, OnFacts, OrderFacts DEF BrokerType
  <2>2. /\ q[o] = IF Alive(o) THEN Size(o) - posFilled[o] ELSE 0
        /\ q'[o] = IF Alive(o)' THEN Size(o) - filled[o] ELSE 0
    BY Zenon, <1>1, <2>1 DEF Outstanding
  <2>3. Alive(o)' => Alive(o) /\ status[o] \in {"none", "queued", "open"}
    BY Zenon, <1>1, <2>1 DEF Alive, Loose, OrderInv, OrderOf, Unsent
  <2>4. Alive(o)' => filled[o] < Size(o)
    BY Zenon, <2>1, <2>3 DEF OrderInv, OrderOf
  <2>5. e[o] = filled[o] - posFilled[o] /\ (e[o] # 0 => Alive(o))
    BY Zenon, <1>3
  <2>6. h[o] = q'[o] + e[o]
    BY Zenon, <2>1
  <2> HIDE DEF e, q, h
  <2> QED
    BY SMTT(30), <2>1, <2>2, <2>3, <2>4, <2>5, <2>6
<1>5. /\ Summable(q, On(c)) /\ Q \in Int /\ Summable(q', On(c)) /\ P \in Int
      /\ \A o \in On(c) : q'[o] >= 0
  BY Zenon, OutstandingSummable, OutstandingSummableNext, OnFacts
<1>6. Summable(h, On(c))
  <2>1. \A o \in On(c) : h[o] \in Int
    <3> HIDE DEF e, q, h
    <3> QED
      BY <1>4
  <2> QED
    BY Zenon, <2>1, OnFacts DEF Summable
<1>7. P + E <= Q
  <2> HIDE DEF e, q, h
  <2>0. \A o \in On(c) : h[o] = q'[o] + e[o] /\ h[o] <= q[o]
    BY ZenonT(40), <1>4
  <2>1. SumFunctionOnSet(h, On(c)) = P + E /\ SumFunctionOnSet(h, On(c)) <= Q
    BY SMTT(30), <1>3, <1>5, <1>6, <2>0, SumAdd, SumMono
  <2> QED
    BY Zenon, <2>1
<1>8. Q <= Abs(s) /\ (Start[c] >= 0 => s >= 0) /\ (Start[c] <= 0 => s <= 0)
  BY Zenon DEF FlipOf
<1>9. \A o \in On(c) : q'[o] <= P
  <2> HIDE DEF q
  <2> QED
    BY Zenon, <1>5, SumNat
<1>10. P <= Abs(n)
  <2> HIDE DEF e, q, h, s, n, E, P, Q
  <2> QED
    BY ZenonT(40), <1>2, <1>3, <1>5, <1>7, <1>8, LeftToClose
<1>11. ASSUME NEW o \in On(c), Alive(o)' PROVE Opposes(o, n)
  <2>1. Opposes(o, s) /\ q'[o] > 0 /\ q'[o] <= P /\ q'[o] \in Int
    BY Zenon, <1>4, <1>9, <1>11 DEF FlipOf
  <2> HIDE DEF e, q, h, s, n, E, P, Q
  <2>2. Abs(n) > 0
    BY <1>2, <1>5, <1>10, <2>1, AbsFacts
  <2> QED
    BY <1>2, <1>3, <2>1, <2>2 DEF Opposes, Abs
<1>12. (Start[c] >= 0 => n >= 0) /\ (Start[c] <= 0 => n <= 0)
  BY Zenon, <1>3, <1>8
<1> QED
  BY Zenon, <1>2, <1>10, <1>11, <1>12 DEF FlipOf

\* When an exit qualifies, every live exit of its contract is one whose row the
\* classification has seen, so that what it leaves of the position covers them all.
LEMMA FlipClassify ==
    ASSUME TypeInv, OrderInv, HoldInv, PendingInv, inStep, crashes = 0, BrokerType',
           NEW o \in Orders, Classify(o), torn' = {}, Pure(Contract[o]), FlipOf(Contract[o])
    PROVE  FlipOf(Contract[o])'
<1> RequestType /\ BrokerType /\ WorldType
  BY Zenon, TypeParts
<1> DEFINE c == Contract[o]
           h == WrittenBack(c)
           q == Outstanding
           rest == On(c) \ {o}
<1>0. c \in Contracts /\ o \in On(c) /\ On(c) \subseteq Orders /\ Size(o) \in Nat /\ Size(o) > 0
  BY Zenon, OrderFacts, OnFacts
<1>1. /\ pc[o] = "orders" /\ UNCHANGED <<status, filled, posFilled>>
      /\ pc' \in {[pc EXCEPT ![o] = "ready"], [pc EXCEPT ![o] = "done"]}
  BY Zenon DEF Classify, Goto, brokerVars, bookVars
<1>2. o \notin exits /\ status[o] = "none" /\ filled[o] = 0 /\ posFilled[o] = 0
  BY <1>1 DEF OrderInv, OrderOf, Unsent, BrokerType
<1>3. \A p \in On(c) : p # o => (Alive(p)' => p \in exits' /\ (pc[p] \in {"ready", "snapshot"} \/ Loose(p)))
  BY Zenon, <1>0, <1>1 DEF Alive, Loose, RequestType
<1>4. CASE exits' = exits
  <2>1. \A p \in On(c) : Alive(p)' => Alive(p)
    BY Zenon, <1>2, <1>3, <1>4 DEF Alive
  <2> QED
    BY Zenon, <1>0, <1>1, <2>1, FlipStays
<1>5. CASE exits' # exits
  <2>1. /\ ~ExitPending(o, h) /\ Qualifies(o, h) /\ exits' = exits \cup {o}
        /\ Shown(c) = net[o] /\ pc' = [pc EXCEPT ![o] = "ready"]
    BY Zenon, <1>5 DEF Classify, Goto
  <2>2. Opposes(o, net[o]) /\ Held(c, h) = {}
    BY Zenon, <2>1 DEF ExitPending, Qualifies
  <2>3. ASSUME NEW p \in On(c), Alive(p) PROVE kept[p] = "covered" /\ Buys(p) = Buys(o)
    <3>1. p \in Orders /\ HoldOf(p) /\ c = Contract[p]
      BY Zenon, <1>0, OnFacts DEF HoldInv
    <3>2. kept[p] # "none" /\ (hold[p] = "covered" => kept[p] # "unseen") /\ hold[p] # "none"
      BY Zenon, <1>0, <1>1, <2>3, <3>1 DEF HoldOf
    <3>3. h[p] \notin {"flight", "unknown", "bound"}
      BY Zenon, <2>2 DEF Held
    <3>4. h[p] = IF kept[p] # "unseen" THEN kept[p] ELSE IF hold[p] = "bound" THEN "unknown" ELSE hold[p]
      BY Zenon, <3>1 DEF WrittenBack
    <3>5. kept[p] = "covered"
      BY Zenon, <3>1, <3>2, <3>3, <3>4 DEF RequestType
    <3>6. Opposes(p, Shown(c))
      BY Zenon, <2>3 DEF FlipOf
    <3> QED
      BY Zenon, <2>1, <2>2, <3>5, <3>6 DEF Opposes
  <2>4. /\ Summable(q, On(c)) /\ SumFunctionOnSet(q, On(c)) \in Int
        /\ Summable(q', On(c)) /\ SumFunctionOnSet(q', On(c)) \in Int
    BY Zenon, OutstandingSummable, OutstandingSummableNext
  <2>5. /\ Summable(Covering(o), On(c)) /\ SumFunctionOnSet(Covering(o), On(c)) \in Int
        /\ \A p \in Orders : Covering(o)[p] >= 0
    BY Zenon, CoveringSummable
  <2>6. \A p \in On(c) : q[p] <= Covering(o)[p]
    <3> TAKE p \in On(c)
    <3>1. /\ p \in Orders /\ rowFilled[p] = posFilled[p] /\ posFilled[p] \in Nat /\ Size(p) \in Nat
          /\ Covering(o)[p] >= 0
      BY Zenon, <1>0, <2>5, OrderFacts DEF OrderInv, OrderOf, BrokerType
    <3>2. /\ q[p] = IF Alive(p) THEN Size(p) - posFilled[p] ELSE 0
          /\ Alive(p) => Covering(o)[p] = Size(p) - rowFilled[p]
      BY Zenon, <2>3, <3>1 DEF Outstanding, Covering
    <3> HIDE DEF q
    <3> QED
      BY SMTT(30), <3>1, <3>2
  <2>7. SumFunctionOnSet(q, On(c)) <= SumFunctionOnSet(Covering(o), On(c))
    <3> HIDE DEF q
    <3> QED
      BY Zenon, <2>4, <2>5, <2>6, SumMono
  <2>8. Total({}) = 0
    <3> DEFINE f == [p \in Orders |-> Size(p)]
    <3>1. Summable(f, {})
      BY Zenon, FS_EmptySet DEF Summable
    <3> HIDE DEF f
    <3>2. SumFunctionOnSet(f, {}) = 0
      BY Zenon, <3>1, SumPick
    <3> QED
      BY Zenon, <3>2 DEF Total, f
  <2>9. /\ net[o] \in Int /\ pending[o] \in Nat /\ Abs(net[o]) \in Nat
        /\ Size(o) <= Abs(net[o]) - pending[o] - 0
    BY Zenon, <2>1, <2>2, <2>8, AbsFacts DEF Qualifies, RequestType
  <2>10. Abs(net[o]) <= pending[o] \/ SumFunctionOnSet(Covering(o), On(c)) <= pending[o]
    BY ZenonT(40), <1>1 DEF PendingInv, PendingOf
  <2>11. SumFunctionOnSet(q, On(c)) + Size(o) <= Abs(net[o])
    <3> HIDE DEF q
    <3> QED
      BY SMTT(30), <1>0, <2>4, <2>5, <2>7, <2>9, <2>10
  <2>12. \A p \in On(c) : p # o => (Alive(p)' => Alive(p))
    BY ZenonT(40), <1>2, <1>3, <2>1 DEF Alive
  <2>13. q'[o] = Size(o) /\ q[o] = 0
    <3>1. Alive(o)' /\ ~Alive(o)
      BY ZenonT(40), <1>1, <1>2, <2>1 DEF Alive, RequestType
    <3> QED
      BY SMTT(30), <1>0, <1>1, <1>2, <3>1 DEF Outstanding
  <2>14. ASSUME NEW p \in rest PROVE q'[p] <= q[p]
    <3>1. p \in Orders /\ (Alive(p)' => Alive(p)) /\ Size(p) - posFilled[p] \in Nat
      BY Zenon, <1>0, <2>12, LeftFacts
    <3> QED
      BY <1>1, <3>1 DEF Outstanding
  <2>15. SumFunctionOnSet(q', On(c)) <= SumFunctionOnSet(q, On(c)) + Size(o)
    <3> HIDE DEF q
    <3>1. rest \subseteq On(c)
      BY ZenonT(40)
    <3>2. /\ SumFunctionOnSet(q', On(c)) = q'[o] + SumFunctionOnSet(q', rest)
          /\ SumFunctionOnSet(q, On(c)) = q[o] + SumFunctionOnSet(q, rest)
      BY SMTT(30), <1>0, <2>4, SumRemove
    <3> HIDE DEF rest
    <3>3. Summable(q', rest) /\ Summable(q, rest)
      BY Zenon, <2>4, <3>1, SummableSubset
    <3>4. /\ SumFunctionOnSet(q', rest) \in Int /\ SumFunctionOnSet(q, rest) \in Int
          /\ SumFunctionOnSet(q', rest) <= SumFunctionOnSet(q, rest)
      BY Zenon, <2>14, <3>3, SumPick, SumMono
    <3> QED
      BY Zenon, <1>0, <2>13, <3>2, <3>4, OneMoreSummand
  <2>16. Shown(c)' = Shown(c)
    BY ZenonT(40), <1>1 DEF Shown, Net, Signed
  <2>17. SumFunctionOnSet(q', On(c)) <= Abs(Shown(c))
    <3> HIDE DEF q
    <3>1. SumFunctionOnSet(q', On(c)) <= Abs(net[o])
      BY Zenon, <1>0, <2>4, <2>9, <2>11, <2>15, WithinBoth
    <3> QED
      BY Zenon, <2>1, <3>1
  <2>18. \A p \in On(c) : Alive(p)' => Opposes(p, Shown(c))
    BY Zenon, <2>1, <2>2, <2>12 DEF FlipOf
  <2>19. (Start[c] >= 0 => Shown(c) >= 0) /\ (Start[c] <= 0 => Shown(c) <= 0)
    BY Zenon DEF FlipOf
  <2> QED
    BY Zenon, <2>16, <2>17, <2>18, <2>19 DEF FlipOf
<1> QED
  BY Zenon, <1>4, <1>5

\* Books in step stay so; crashes and torn classifications are not forgotten; only a
\* broker that updates both books changes the position book.
LEMMA WorldStays ==
    ASSUME TypeInv, [Next]_vars
    PROVE  /\ inStep' = inStep /\ (crashes' = 0 => crashes = 0) /\ torn \subseteq torn'
           /\ inStep /\ ~ShowAll => posFilled' = posFilled
<1> WorldType
  BY Zenon, TypeParts
<1> USE DEF history, worldVars, bookVars
<1>1. ASSUME NEW o \in Orders, Quiet(o) PROVE torn \subseteq torn'
  <2>1. CASE ReadPositions(o) \/ PositionsUnreadable(o) \/ ReadOrders(o) \/ Classify(o) \/ NoSnapshot(o)
    BY Zenon, <2>1 DEF ReadPositions, PositionsUnreadable, ReadOrders, Classify, NoSnapshot
  <2>2. CASE Refuse(o) \/ Acknowledge(o) \/ NoAnswer(o) \/ ShowRow(o)
    BY Zenon, <2>2 DEF Refuse, Acknowledge, NoAnswer, ShowRow
  <2> QED
    BY Zenon, <1>1, <2>1, <2>2 DEF Quiet
<1>2. ASSUME NEW o \in Orders, Quiet(o) PROVE UNCHANGED <<inStep, crashes, posFilled>>
  BY Zenon, <1>2, QuietFrame
<1>3. ASSUME NEW o \in Orders, Moves(o)
      PROVE  UNCHANGED <<inStep, crashes, torn>> /\ (inStep => posFilled' = posFilled)
  BY Zenon, <1>3 DEF Moves, Invoke, FailBeforeInvoke, Cancelled, Fill, End, ShowFills
<1>4. ASSUME NEW o \in Orders, Snapshot(o) \/ Admit(o)
      PROVE  UNCHANGED <<inStep, crashes, torn, posFilled>>
  BY Zenon, <1>4 DEF Snapshot, Admit
<1>5. CASE Crash
  <2>1. crashes \in Nat /\ crashes' = crashes + 1 /\ UNCHANGED <<inStep, torn, posFilled>>
    BY <1>5, BoundsAssumption DEF Crash, WorldType
  <2> QED
    BY SMTT(30), <2>1
<1>6. CASE ShowAll
  BY Zenon, <1>6 DEF ShowAll
<1>7. CASE UNCHANGED vars
  BY Zenon, <1>7 DEF vars
<1> QED
  BY ZenonT(40), <1>1, <1>2, <1>3, <1>4, <1>5, <1>6, <1>7, NextKinds

LEMMA FlipNext ==
    ASSUME TypeInv, OrderInv, HoldInv, PendingInv, FlipInv, [Next]_vars
    PROVE  FlipInv'
<1> BrokerType /\ BrokerType' /\ RequestType
  BY Zenon, TypeParts, BrokerTypeNext
<1> SUFFICES ASSUME inStep', crashes' = 0, torn' = {}, NEW c \in Contracts, Pure(c)'
             PROVE  FlipOf(c)'
  BY Zenon DEF FlipInv
<1>1. inStep /\ crashes = 0 /\ torn = {} /\ (~ShowAll => posFilled' = posFilled)
  BY Zenon, WorldStays
<1>2. Pure(c) /\ FlipOf(c)
  BY Zenon, <1>1, PureShrinks DEF FlipInv
<1>3. CASE ShowAll
  BY Zenon, <1>2, <1>3, FlipShowAll
<1>4. ASSUME NEW o \in Orders, Classify(o), Contract[o] = c PROVE FlipOf(c)'
  BY Zenon, <1>1, <1>2, <1>4, FlipClassify
<1>5. ASSUME NEW o \in Orders, Classify(o), Contract[o] # c PROVE FlipOf(c)'
  <2>1. /\ posFilled' = posFilled /\ UNCHANGED <<status, filled>>
        /\ exits' \subseteq exits \cup {o} /\ \A p \in Orders : p # o => pc'[p] = pc[p]
    BY Zenon, <1>5 DEF Classify, Goto, brokerVars, bookVars, RequestType
  <2>2. \A p \in On(c) : p \in Orders /\ p # o
    BY Zenon, <1>5, OnFacts
  <2>3. \A p \in On(c) : Alive(p)' => Alive(p)
    BY Zenon, <2>1, <2>2 DEF Alive, Loose
  <2> QED
    BY Zenon, <1>2, <2>1, <2>3, FlipStays
<1>6. CASE ~ShowAll /\ \A o \in Orders : ~Classify(o)
  <2>1. \A p \in On(c) : Alive(p)' => Alive(p)
    BY Zenon, <1>6, AliveShrinks, OnFacts
  <2> QED
    BY Zenon, <1>1, <1>2, <1>6, <2>1, FlipStays
<1> QED
  BY Zenon, <1>3, <1>4, <1>5, <1>6

-----------------------------------------------------------------------------
(* The theorems *)

LEMMA AdmissionInit == Init => AdmissionInv
  BY Zenon, InitTypes, InitOrders, InitCount, InitLimit, InitLock, InitHold, InitPending, InitFlip
     DEF AdmissionInv

LEMMA AdmissionNext == AdmissionInv /\ [Next]_vars => AdmissionInv'
<1> SUFFICES ASSUME AdmissionInv, [Next]_vars PROVE AdmissionInv'
  BY Zenon
<1>0. /\ TypeInv /\ OrderInv /\ CountInv /\ (StartsWithin => LimitInv) /\ LockInv /\ HoldInv
      /\ PendingInv /\ FlipInv
  BY Zenon DEF AdmissionInv
<1>1. TypeInv'
  BY Zenon, <1>0, TypeNext
<1>2. OrderInv'
  BY Zenon, <1>0, OrderNext
<1>3. CountInv'
  BY Zenon, <1>0, CountNext
<1>4. ASSUME StartsWithin PROVE LimitInv'
  BY Zenon, <1>0, <1>4, LimitNext
<1>5. LockInv'
  BY Zenon, <1>0, LockNext
<1>6. HoldInv'
  BY Zenon, <1>0, HoldNext
<1>7. PendingInv'
  BY Zenon, <1>0, PendingNext
<1>8. FlipInv'
  BY Zenon, <1>0, FlipNext
<1>9. StartsWithin' <=> StartsWithin
  BY Zenon DEF StartsWithin
<1> QED
  BY ZenonT(40), <1>1, <1>2, <1>3, <1>4, <1>5, <1>6, <1>7, <1>8, <1>9 DEF AdmissionInv

\* The inductive invariant holds: orders, reservations, snapshots, holds and exits agree.
THEOREM AdmissionInvariant == Spec => []AdmissionInv
  BY AdmissionInit, AdmissionNext, PTL DEF Spec

\* Every order that may still move the position, and overlaps with no other of its contract,
\* is reserved or in the order book, for any orders, lags, lost answers and crashes:
\* _reserve_order_exposure, _project_unresolved_reservations.
THEOREM LooseAreCounted == Spec => []LooseIsCounted
<1>1. AdmissionInv => LooseIsCounted
  BY Zenon DEF AdmissionInv, CountInv, CountOf, LooseIsCounted
<1> QED
  BY <1>1, AdmissionInvariant, PTL

\* An account that starts within PositionLimits.max_positions stays within it, whatever the
\* orders and however the books lag, while no two orders of a contract overlap.
THEOREM PositionLimitHolds == StartsWithin /\ Spec => []WithinPositionLimit
<1>1. StartsWithin /\ AdmissionInv => WithinPositionLimit
  BY Zenon DEF AdmissionInv, LimitInv, ExposedContracts, WithinPositionLimit
<1>2. StartsWithin => []StartsWithin
  <2>1. StartsWithin => StartsWithin'
    BY Zenon DEF StartsWithin
  <2> QED
    BY <2>1, PTL
<1> QED
  BY <1>1, <1>2, AdmissionInvariant, PTL

\* Exits that qualified under _prepare_live_reduce_only never turn a position around, for
\* any number of exits of any sizes that race, when the broker updates its books together,
\* nothing restarts and no fill showed between the two reads of a classification.
THEOREM ExitsKeepTheSign == Spec => []UntornExitsNeverFlip
<1>1. AdmissionInv => UntornExitsNeverFlip
  <2> SUFFICES ASSUME AdmissionInv, torn = {}, inStep, crashes = 0, NEW c \in Contracts,
                      \A o \in On(c) : status[o] # "none" => o \in exits
               PROVE  Start[c] * Net(c, filled) >= 0
    BY Zenon DEF UntornExitsNeverFlip, ExitsNeverFlip, NeverFlips
  <2>1. TypeInv /\ OrderInv /\ FlipInv /\ BrokerType
    BY Zenon, TypeParts DEF AdmissionInv
  <2>2. Pure(c)
    BY Zenon DEF Pure
  <2>3. FlipOf(c)
    BY Zenon, <2>1, <2>2 DEF FlipInv
  <2>4. /\ Shown(c) >= 0 => Net(c, filled) >= 0
        /\ Shown(c) <= 0 => Net(c, filled) <= 0
    BY Zenon, <2>1, <2>2, <2>3, FillsKeepSign
  <2>5. (Start[c] >= 0 => Shown(c) >= 0) /\ (Start[c] <= 0 => Shown(c) <= 0)
    BY Zenon, <2>3 DEF FlipOf
  <2>6. Start[c] \in Int /\ Net(c, filled) \in Int
    BY Zenon, <2>1, ShownInt, StartAssumption
  <2>7. \A a, b \in Int : (a >= 0 => b >= 0) /\ (a <= 0 => b <= 0) => a * b >= 0
    OBVIOUS
  <2> QED
    BY Zenon, <2>4, <2>5, <2>6, <2>7
<1> QED
  BY <1>1, AdmissionInvariant, PTL

=============================================================================
