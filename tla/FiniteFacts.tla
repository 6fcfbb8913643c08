---------------------------- MODULE FiniteFacts ----------------------------
(***************************************************************************)
(* Facts about finite sets.  A smallest element of a set of natural        *)
(* numbers and a largest value of a function exist: what the CHOOSE        *)
(* expressions of the specifications need.  Sums over a finite set, which  *)
(* the folds of the specifications amount to, are proved about by taking a *)
(* smallest set that would refute them.                                    *)
(***************************************************************************)
EXTENDS Integers, FiniteSets, FiniteSetTheorems, WellFoundedInduction, TLAPS

\* The values of a function of finitely many arguments.
LEMMA FiniteImage ==
    ASSUME NEW S, IsFiniteSet(S), NEW f
    PROVE  IsFiniteSet({f[x] : x \in S}) /\ Cardinality({f[x] : x \in S}) <= Cardinality(S)
<1> DEFINE T == {f[x] : x \in S}
           g == [x \in S |-> f[x]]
<1>1. g \in Surjection(S, T)
  BY DEF Surjection
<1> HIDE DEF T, g
<1>2. IsFiniteSet(T) /\ Cardinality(T) <= Cardinality(S)
  BY <1>1, FS_Surjection
<1>3. QED
  BY <1>2 DEF T

\* A nonempty finite set of integers has a largest element.
LEMMA LargestOf ==
    ASSUME NEW S \in SUBSET Int, IsFiniteSet(S), S # {}
    PROVE  \E n \in S : \A m \in S : n >= m
<1> DEFINE Max(U) == \E n \in U : \A m \in U : n >= m
           Bad == {U \in FiniteSubsetsOf(S) : U # {} /\ ~Max(U)}
<1>1. FiniteSubsetsOf(S) = SUBSET S
  BY FS_FiniteSubsetsOfFinite
<1>2. Bad = {}
  <2> SUFFICES ASSUME Bad # {} PROVE FALSE
    OBVIOUS
  <2>1. PICK U \in Bad : \A V \in Bad : ~ (<<V, U>> \in StrictSubsetOrdering(S))
    BY FS_StrictSubsetOrderingWellFounded, WFMin
  <2>2. PICK x \in U : TRUE
    OBVIOUS
  <2> DEFINE V == U \ {x}
  <2>3. V \subseteq U /\ V # U /\ V \in SUBSET S /\ U \in SUBSET S
    BY <1>1, <2>2
  <2>4. V \notin Bad
    BY <2>1, <2>3 DEF StrictSubsetOrdering
  <2>5. CASE V = {}
    BY <2>2, <2>3, <2>5
  <2>6. CASE V # {}
    <3>1. PICK n \in V : \A m \in V : n >= m
      BY <1>1, <2>3, <2>4, <2>6
    <3>2. n \in Int /\ x \in Int /\ U \subseteq Int
      BY <2>2, <2>3
    <3>3. CASE n >= x
      BY <3>1, <3>2, <3>3
    <3>4. CASE ~(n >= x)
      BY <3>1, <3>2, <3>4
    <3>5. QED
      BY <3>3, <3>4
  <2>7. QED
    BY <2>5, <2>6
<1>3. S \notin Bad
  BY <1>2
<1>4. QED
  BY <1>1, <1>3

\* A nonempty set of natural numbers up to N has a smallest element.
LEMMA SmallestUpTo ==
    ASSUME NEW N \in Nat, NEW B \in SUBSET (0 .. N), B # {}
    PROVE  \E k \in B : \A m \in B : k <= m
<1> DEFINE S == {N - k : k \in B}
<1>1. \A m \in B : m \in 0 .. N /\ N - m \in 0 .. N /\ N - m \in S
  OBVIOUS
<1>2. S # {}
  BY <1>1
<1>3. S \in SUBSET (0 .. N)
  BY <1>1
<1> HIDE DEF S
<1>4. IsFiniteSet(0 .. N)
  BY FS_Interval
<1>5. IsFiniteSet(S)
  BY <1>3, <1>4, FS_Subset
<1>6. S \in SUBSET Int
  BY <1>3
<1>7. PICK n \in S : \A m \in S : n >= m
  BY <1>2, <1>5, <1>6, LargestOf
<1>8. PICK k \in B : n = N - k
  BY <1>7 DEF S
<1>9. \A m \in B : N - k >= N - m
  BY <1>1, <1>7, <1>8
<1>10. QED
  BY <1>1, <1>9

\* A nonempty set of natural numbers has a smallest element.
LEMMA LeastNumber ==
    ASSUME NEW B \in SUBSET Nat, B # {}
    PROVE  \E k \in B : \A m \in B : k <= m
<1>1. PICK n \in B : TRUE
  OBVIOUS
<1> DEFINE C == B \cap (0 .. n)
<1>2. n \in Nat /\ C \in SUBSET (0 .. n) /\ C # {}
  BY <1>1
<1> HIDE DEF C
<1>3. PICK k \in C : \A m \in C : k <= m
  BY <1>2, SmallestUpTo
<1>4. k \in B /\ k \in Int /\ k <= n /\ n \in Int
  BY <1>2, <1>3 DEF C
<1>5. \A m \in B : k <= m
  <2> TAKE m \in B
  <2>1. m \in Nat
    OBVIOUS
  <2>2. m \in C \/ m > n
    BY <1>2, <2>1 DEF C
  <2>3. QED
    BY <1>3, <1>4, <2>1, <2>2
<1>6. QED
  BY <1>4, <1>5

\* A nonempty set of subsets of a finite set has a smallest one: induction over data.
LEMMA SmallestSubset ==
    ASSUME NEW S, IsFiniteSet(S), NEW B \in SUBSET SUBSET S, B # {}
    PROVE  \E U \in B : \A V \in B : V \subseteq U => V = U
<1>1. FiniteSubsetsOf(S) = SUBSET S
  BY FS_FiniteSubsetsOfFinite
<1>2. PICK U \in B : \A V \in B : ~ (<<V, U>> \in StrictSubsetOrdering(S))
  BY <1>1, FS_StrictSubsetOrderingWellFounded, WFMin
<1>3. \A V \in B : V \subseteq U => V = U
  BY <1>2 DEF StrictSubsetOrdering
<1>4. QED
  BY <1>3

-----------------------------------------------------------------------------
(* Sums over a finite set, one summand after the other. *)

Summand(s) == CHOOSE x \in s : TRUE
Others(s) == s \ {Summand(s)}

\* What the sums of the subsets of U have to be.
Sums(f, U, g) ==
    g = [s \in SUBSET U |-> IF s = {} THEN 0 ELSE f[Summand(s)] + g[Others(s)]]

LEMMA SummandOK == \A s : s # {} => /\ Summand(s) \in s /\ Others(s) \subseteq s /\ Others(s) # s
                                    /\ s = Others(s) \cup {Summand(s)}
BY DEF Summand, Others

LEMMA SumsOf ==
    ASSUME NEW f, NEW U, NEW g, Sums(f, U, g), NEW s \in SUBSET U
    PROVE  g[s] = IF s = {} THEN 0 ELSE f[Summand(s)] + g[Others(s)]
BY DEF Sums

\* There is one of them at most.
LEMMA SumsUnique ==
    ASSUME NEW f, NEW V, IsFiniteSet(V), NEW U \in SUBSET V, NEW g, Sums(f, U, g), NEW h, Sums(f, V, h),
           NEW s \in SUBSET U
    PROVE  g[s] = h[s]
<1> DEFINE B == {t \in SUBSET U : g[t] # h[t]}
<1>1. SUFFICES ASSUME B # {} PROVE FALSE
  OBVIOUS
<1>2. IsFiniteSet(U) /\ B \in SUBSET SUBSET U
  BY FS_Subset
<1> HIDE DEF B
<1>3. PICK t \in B : \A r \in B : r \subseteq t => r = t
  BY <1>1, <1>2, SmallestSubset
<1>4. t \in SUBSET U /\ t \in SUBSET V /\ g[t] # h[t]
  BY <1>3 DEF B
<1>5. /\ g[t] = IF t = {} THEN 0 ELSE f[Summand(t)] + g[Others(t)]
      /\ h[t] = IF t = {} THEN 0 ELSE f[Summand(t)] + h[Others(t)]
  BY <1>4, SumsOf
<1>6. t # {}
  BY <1>4, <1>5
<1>7. Others(t) \subseteq t /\ Others(t) # t /\ Others(t) \in SUBSET U
  BY <1>4, <1>6, SummandOK
<1>8. g[Others(t)] = h[Others(t)]
  BY <1>3, <1>7 DEF B
<1>9. QED
  BY <1>4, <1>5, <1>8

\* And there is one.
LEMMA SumsExist ==
    ASSUME NEW f, NEW S, IsFiniteSet(S)
    PROVE  \E g : Sums(f, S, g)
<1> DEFINE B == {U \in SUBSET S : ~ \E g : Sums(f, U, g)}
<1>1. SUFFICES ASSUME B # {} PROVE FALSE
  OBVIOUS
<1>2. B \in SUBSET SUBSET S
  OBVIOUS
<1> HIDE DEF B
<1>3. PICK U \in B : \A V \in B : V \subseteq U => V = U
  BY <1>1, <1>2, SmallestSubset
<1>4. U \in SUBSET S /\ ~ \E g : Sums(f, U, g)
  BY <1>3 DEF B
<1> DEFINE G(V) == CHOOSE g : Sums(f, V, g)
           h == [s \in SUBSET U |-> IF s = {} THEN 0 ELSE f[Summand(s)] + G(Others(s))[Others(s)]]
<1>5. ASSUME NEW V, V \subseteq U, V # U PROVE Sums(f, V, G(V)) /\ IsFiniteSet(V)
  <2>1. V \in SUBSET S /\ V \notin B
    BY <1>3, <1>4, <1>5
  <2>2. \E g : Sums(f, V, g)
    BY <2>1 DEF B
  <2>3. IsFiniteSet(V)
    BY <2>1, FS_Subset
  <2>4. QED
    BY <2>2, <2>3
<1>6. \A s \in SUBSET U : h[s] = IF s = {} THEN 0 ELSE f[Summand(s)] + G(Others(s))[Others(s)]
  OBVIOUS
<1>7. h = [s \in SUBSET U |-> h[s]]
  OBVIOUS
<1> HIDE DEF G, h
<1>8. ASSUME NEW W, W \subseteq U, W # U PROVE h[W] = G(W)[W]
  <2>1. Sums(f, W, G(W)) /\ IsFiniteSet(W) /\ W \in SUBSET W
    BY <1>5, <1>8
  <2>2. G(W)[W] = IF W = {} THEN 0 ELSE f[Summand(W)] + G(W)[Others(W)]
    BY <2>1, SumsOf
  <2>3. h[W] = IF W = {} THEN 0 ELSE f[Summand(W)] + G(Others(W))[Others(W)]
    BY <1>6, <1>8
  <2>4. ASSUME W # {} PROVE G(Others(W))[Others(W)] = G(W)[Others(W)]
    <3> DEFINE R == Others(W)
    <3>1. R \in SUBSET W /\ R \subseteq U /\ R # U /\ R \in SUBSET R
      BY <1>8, <2>4, SummandOK
    <3> HIDE DEF R
    <3>2. Sums(f, R, G(R))
      BY <1>5, <3>1
    <3>3. G(R)[R] = G(W)[R]
      BY <2>1, <3>1, <3>2, SumsUnique
    <3>4. QED
      BY <3>3 DEF R
  <2>5. QED
    BY <2>2, <2>3, <2>4
<1>9. \A s \in SUBSET U : h[s] = IF s = {} THEN 0 ELSE f[Summand(s)] + h[Others(s)]
  <2> SUFFICES ASSUME NEW s \in SUBSET U, s # {} PROVE h[Others(s)] = G(Others(s))[Others(s)]
    BY <1>6
  <2>1. Others(s) \subseteq U /\ Others(s) # U
    BY SummandOK
  <2>2. QED
    BY <1>8, <2>1
<1>10. Sums(f, U, h)
  BY <1>7, <1>9 DEF Sums
<1>11. QED
  BY <1>4, <1>10

SumOver(f, S) == (CHOOSE g : Sums(f, S, g))[S]

LEMMA SumUnfolds ==
    ASSUME NEW f, NEW S, IsFiniteSet(S)
    PROVE  SumOver(f, S) = IF S = {} THEN 0 ELSE f[Summand(S)] + SumOver(f, Others(S))
<1> DEFINE G(V) == CHOOSE g : Sums(f, V, g)
           R == Others(S)
<1>1. SumOver(f, S) = G(S)[S] /\ SumOver(f, R) = G(R)[R]
  BY DEF SumOver
<1>2. Sums(f, S, G(S))
  BY SumsExist
<1> HIDE DEF G, R
<1>3. S \in SUBSET S
  OBVIOUS
<1>4. G(S)[S] = IF S = {} THEN 0 ELSE f[Summand(S)] + G(S)[Others(S)]
  BY <1>2, <1>3, SumsOf
<1>5. ASSUME S # {} PROVE G(R)[R] = G(S)[R]
  <2>1. R \in SUBSET S /\ IsFiniteSet(R) /\ R \in SUBSET R
    BY <1>5, SummandOK, FS_Subset DEF R
  <2>2. Sums(f, R, G(R))
    BY <2>1, SumsExist DEF G
  <2>3. QED
    BY <1>2, <2>1, <2>2, SumsUnique
<1>6. QED
  BY <1>1, <1>4, <1>5 DEF R

\* Sums of integers are integers, and of natural numbers natural numbers.
LEMMA SumTyped ==
    ASSUME NEW S, IsFiniteSet(S), NEW f, NEW T \in {Nat, Int}, \A x \in S : f[x] \in T
    PROVE  SumOver(f, S) \in T
<1> DEFINE B == {U \in SUBSET S : SumOver(f, U) \notin T}
<1>1. SUFFICES ASSUME B # {} PROVE FALSE
  OBVIOUS
<1>2. B \in SUBSET SUBSET S
  OBVIOUS
<1> HIDE DEF B
<1>3. PICK U \in B : \A V \in B : V \subseteq U => V = U
  BY <1>1, <1>2, SmallestSubset
<1>4. U \in SUBSET S /\ IsFiniteSet(U) /\ SumOver(f, U) \notin T
  BY <1>3, FS_Subset DEF B
<1>5. SumOver(f, U) = IF U = {} THEN 0 ELSE f[Summand(U)] + SumOver(f, Others(U))
  BY <1>4, SumUnfolds
<1>6. U # {}
  BY <1>4, <1>5
<1>7. Others(U) \subseteq U /\ Others(U) # U /\ Summand(U) \in S
  BY <1>4, <1>6, SummandOK
<1>8. SumOver(f, Others(U)) \in T
  BY <1>3, <1>4, <1>7 DEF B
<1>9. f[Summand(U)] \in T
  BY <1>7
<1>10. \A a, b \in T : a + b \in T
  OBVIOUS
<1>11. QED
  BY <1>4, <1>5, <1>6, <1>8, <1>9, <1>10

\* Functions that agree have the same sum.
LEMMA SumSame ==
    ASSUME NEW S, IsFiniteSet(S), NEW f, NEW g, \A x \in S : f[x] = g[x]
    PROVE  SumOver(f, S) = SumOver(g, S)
<1> DEFINE B == {U \in SUBSET S : SumOver(f, U) # SumOver(g, U)}
<1>1. SUFFICES ASSUME B # {} PROVE FALSE
  OBVIOUS
<1>2. B \in SUBSET SUBSET S
  OBVIOUS
<1> HIDE DEF B
<1>3. PICK U \in B : \A V \in B : V \subseteq U => V = U
  BY <1>1, <1>2, SmallestSubset
<1>4. U \in SUBSET S /\ IsFiniteSet(U) /\ SumOver(f, U) # SumOver(g, U)
  BY <1>3, FS_Subset DEF B
<1>5. /\ SumOver(f, U) = IF U = {} THEN 0 ELSE f[Summand(U)] + SumOver(f, Others(U))
      /\ SumOver(g, U) = IF U = {} THEN 0 ELSE g[Summand(U)] + SumOver(g, Others(U))
  BY <1>4, SumUnfolds
<1>6. U # {}
  BY <1>4, <1>5
<1>7. Others(U) \subseteq U /\ Others(U) # U /\ Summand(U) \in S
  BY <1>4, <1>6, SummandOK
<1>8. SumOver(f, Others(U)) = SumOver(g, Others(U))
  BY <1>3, <1>4, <1>7 DEF B
<1>9. QED
  BY <1>4, <1>5, <1>6, <1>7, <1>8

\* Whichever summand is taken first.
LEMMA SumSplit ==
    ASSUME NEW S, IsFiniteSet(S), NEW f, \A x \in S : f[x] \in Int, NEW x \in S
    PROVE  SumOver(f, S) = f[x] + SumOver(f, S \ {x})
<1> DEFINE Splits(U) == \A y \in U : SumOver(f, U) = f[y] + SumOver(f, U \ {y})
           B == {U \in SUBSET S : ~Splits(U)}
<1>1. SUFFICES ASSUME B # {} PROVE FALSE
  OBVIOUS
<1>2. B \in SUBSET SUBSET S
  OBVIOUS
<1> HIDE DEF B
<1>3. PICK U \in B : \A V \in B : V \subseteq U => V = U
  BY <1>1, <1>2, SmallestSubset
<1>4. U \in SUBSET S /\ IsFiniteSet(U) /\ ~Splits(U)
  BY <1>3, FS_Subset DEF B
<1>5. PICK y \in U : SumOver(f, U) # f[y] + SumOver(f, U \ {y})
  BY <1>4
<1> HIDE DEF Splits
<1> DEFINE c == Summand(U)
           P == U \ {y}
           Q == Others(U)
           R == U \ {c, y}
<1>6. /\ c \in U /\ Q = U \ {c} /\ P \subseteq U /\ P # U /\ Q \subseteq U /\ Q # U
      /\ P \in SUBSET S /\ Q \in SUBSET S /\ R \in SUBSET S
  BY <1>4, SummandOK DEF Others
<1>7. SumOver(f, U) = f[c] + SumOver(f, Q)
  BY <1>4, SumUnfolds
<1>8. c # y
  BY <1>5, <1>6, <1>7
<1>9. Splits(P) /\ Splits(Q)
  BY <1>3, <1>6 DEF B
<1>10. c \in P /\ P \ {c} = R /\ y \in Q /\ Q \ {y} = R
  BY <1>5, <1>6, <1>8
<1> HIDE DEF c, P, Q, R
<1>11. SumOver(f, P) = f[c] + SumOver(f, R) /\ SumOver(f, Q) = f[y] + SumOver(f, R)
  BY <1>9, <1>10 DEF Splits
<1>12. f[c] \in Int /\ f[y] \in Int
  BY <1>4, <1>5, <1>6
<1>13. SumOver(f, R) \in Int
  <2>1. IsFiniteSet(R) /\ \A z \in R : f[z] \in Int
    BY <1>6, FS_Subset
  <2> DEFINE T == Int
  <2>2. T \in {Nat, Int} /\ \A z \in R : f[z] \in T
    BY <2>1
  <2> HIDE DEF T
  <2>3. SumOver(f, R) \in T
    BY <2>1, <2>2, SumTyped
  <2>4. QED
    BY <2>3 DEF T
<1>14. QED
  BY <1>5, <1>7, <1>11, <1>12, <1>13 DEF P

\* What sums of two do not leave no sum leaves.
LEMMA SumClosed ==
    ASSUME NEW S, IsFiniteSet(S), NEW f, NEW T, 0 \in T, \A a, b \in T : a + b \in T, \A x \in S : f[x] \in T
    PROVE  SumOver(f, S) \in T
<1> DEFINE B == {U \in SUBSET S : SumOver(f, U) \notin T}
<1>1. SUFFICES ASSUME B # {} PROVE FALSE
  OBVIOUS
<1>2. B \in SUBSET SUBSET S
  OBVIOUS
<1> HIDE DEF B
<1>3. PICK U \in B : \A V \in B : V \subseteq U => V = U
  BY <1>1, <1>2, SmallestSubset
<1>4. U \in SUBSET S /\ IsFiniteSet(U) /\ SumOver(f, U) \notin T
  BY <1>3, FS_Subset DEF B
<1>5. SumOver(f, U) = IF U = {} THEN 0 ELSE f[Summand(U)] + SumOver(f, Others(U))
  BY <1>4, SumUnfolds
<1>6. U # {}
  BY <1>4, <1>5
<1>7. Others(U) \subseteq U /\ Others(U) # U /\ Summand(U) \in S
  BY <1>4, <1>6, SummandOK
<1>8. SumOver(f, Others(U)) \in T
  BY <1>3, <1>4, <1>7 DEF B
<1>9. f[Summand(U)] \in T
  BY <1>7
<1>10. QED
  BY <1>4, <1>5, <1>6, <1>8, <1>9

\* Nothing adds to nothing.
LEMMA SumOfNone == \A f : SumOver(f, {}) = 0
BY SumUnfolds, FS_EmptySet

\* A sum is that of two parts.
LEMMA SumOfParts ==
    ASSUME NEW S, NEW T, IsFiniteSet(S), IsFiniteSet(T), S \cap T = {}, NEW f, \A x \in S \cup T : f[x] \in Int
    PROVE  SumOver(f, S \cup T) = SumOver(f, S) + SumOver(f, T) /\ SumOver(f, S) \in Int /\ SumOver(f, T) \in Int
<1> DEFINE B == {U \in SUBSET T : SumOver(f, S \cup U) # SumOver(f, S) + SumOver(f, U)}
           Z == Int
<1>0. \A R \in SUBSET (S \cup T) : IsFiniteSet(R) /\ SumOver(f, R) \in Z
  <2> TAKE R \in SUBSET (S \cup T)
  <2>1. IsFiniteSet(S \cup T)
    BY FS_Union
  <2>2. IsFiniteSet(R)
    BY <2>1, FS_Subset
  <2>3. Z \in {Nat, Int} /\ \A x \in R : f[x] \in Z
    OBVIOUS
  <2> HIDE DEF Z
  <2>4. QED
    BY <2>2, <2>3, SumTyped
<1>1. SUFFICES ASSUME B # {} PROVE FALSE
  BY <1>0
<1>2. B \in SUBSET SUBSET T
  OBVIOUS
<1> HIDE DEF B
<1>3. PICK U \in B : \A V \in B : V \subseteq U => V = U
  BY <1>1, <1>2, SmallestSubset
<1>4. U \in SUBSET T /\ SumOver(f, S \cup U) # SumOver(f, S) + SumOver(f, U)
  BY <1>3 DEF B
<1>5. U # {}
  <2> SUFFICES ASSUME U = {} PROVE FALSE
    OBVIOUS
  <2>1. S \cup U = S /\ SumOver(f, U) = 0
    BY SumOfNone
  <2>2. SumOver(f, S) \in Int
    BY <1>0
  <2>3. QED
    BY <1>4, <2>1, <2>2
<1>6. PICK x \in U : TRUE
  BY <1>5
<1> DEFINE V == U \ {x}
           W == S \cup U
<1>7. V \subseteq U /\ V # U /\ V \in SUBSET T /\ x \in W /\ W \ {x} = S \cup V
  BY <1>4, <1>6
<1>8. SumOver(f, S \cup V) = SumOver(f, S) + SumOver(f, V)
  BY <1>3, <1>7 DEF B
<1>9. IsFiniteSet(W) /\ IsFiniteSet(U) /\ (\A y \in W : f[y] \in Int) /\ (\A y \in U : f[y] \in Int)
  BY <1>0, <1>4
<1>10. SumOver(f, W) # SumOver(f, S) + SumOver(f, U)
  BY <1>4
<1> HIDE DEF W, V
<1>11. SumOver(f, W \ {x}) = SumOver(f, S) + SumOver(f, V)
  BY <1>7, <1>8
<1>12. SumOver(f, W) = f[x] + SumOver(f, W \ {x})
  BY <1>7, <1>9, SumSplit
<1>13. SumOver(f, U) = f[x] + SumOver(f, V)
  BY <1>6, <1>9, SumSplit DEF V
<1>14. SumOver(f, S) \in Int /\ SumOver(f, V) \in Int /\ f[x] \in Int
  BY <1>0, <1>6, <1>7, <1>9
<1>15. QED
  BY <1>12, <1>13, <1>14, <1>10, <1>11

\* Equal summands are multiplied.
LEMMA SumOfEqual ==
    ASSUME NEW S, IsFiniteSet(S), NEW f, NEW c \in Int, \A x \in S : f[x] = c
    PROVE  SumOver(f, S) = Cardinality(S) * c
<1> DEFINE B == {U \in SUBSET S : SumOver(f, U) # Cardinality(U) * c}
<1>1. SUFFICES ASSUME B # {} PROVE FALSE
  OBVIOUS
<1>2. B \in SUBSET SUBSET S
  OBVIOUS
<1> HIDE DEF B
<1>3. PICK U \in B : \A V \in B : V \subseteq U => V = U
  BY <1>1, <1>2, SmallestSubset
<1>4. U \in SUBSET S /\ IsFiniteSet(U) /\ SumOver(f, U) # Cardinality(U) * c
  BY <1>3, FS_Subset DEF B
<1>5. U # {}
  <2> SUFFICES ASSUME U = {} PROVE FALSE
    OBVIOUS
  <2>1. SumOver(f, U) = 0 /\ Cardinality(U) = 0
    BY SumOfNone, FS_EmptySet
  <2>2. 0 * c = 0
    OBVIOUS
  <2>3. QED
    BY <1>4, <2>1, <2>2
<1>6. PICK x \in U : TRUE
  BY <1>5
<1> DEFINE V == U \ {x}
           n == Cardinality(V)
<1>7. V \subseteq U /\ V # U /\ V \in SUBSET S
  BY <1>4, <1>6
<1>8. SumOver(f, V) = Cardinality(V) * c
  BY <1>3, <1>7 DEF B
<1>9. SumOver(f, U) = f[x] + SumOver(f, V) /\ f[x] = c
  BY <1>4, <1>6, SumSplit
<1>10. IsFiniteSet(V) /\ Cardinality(V) \in Nat /\ Cardinality(U) = Cardinality(V) + 1
  BY <1>4, <1>6, <1>7, FS_Subset, FS_CardinalityType, FS_AddElement, FS_RemoveElement
<1> HIDE DEF V
<1>11. n \in Nat /\ Cardinality(U) = n + 1 /\ SumOver(f, U) = c + n * c
  BY <1>8, <1>9, <1>10
<1> HIDE DEF n
<1>12. (n + 1) * c = n * c + c /\ n * c \in Int
  BY <1>11
<1>13. QED
  BY <1>4, <1>11, <1>12
=============================================================================
