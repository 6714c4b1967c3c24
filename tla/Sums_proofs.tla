----------------------------- MODULE Sums_proofs -----------------------------
(***************************************************************************)
(* Facts about Total, for every function with integer values on a finite   *)
(* set, and about finite sets of numbers.                                  *)
(*                                                                         *)
(* Total is a fold, so the first thing to know is that it satisfies its    *)
(* recursion equation: that a function with that equation exists and is    *)
(* unique (SummedExists, SummedAgree).  All inductions are SetInduction,   *)
(* which is about a set of subsets: take the subsets for which the fact    *)
(* holds, and a least one that is not among them.                          *)
(***************************************************************************)
EXTENDS Sums, FiniteSetTheorems, WellFoundedInduction, TLAPS

\* Induction over the subsets of a finite set.
LEMMA SetInduction ==
    ASSUME NEW S, IsFiniteSet(S), NEW P,
           \A T \in SUBSET S : (\A U \in SUBSET T : U # T => U \in P) => T \in P
    PROVE  \A T \in SUBSET S : T \in P
<1>. DEFINE Bad == {T \in SUBSET S : T \notin P}
<1>. SUFFICES ASSUME Bad # {} PROVE FALSE
  OBVIOUS
<1>1. FiniteSubsetsOf(S) = SUBSET S
  BY FS_FiniteSubsetsOfFinite
<1>2. Bad \subseteq FiniteSubsetsOf(S)
  BY <1>1
<1>3. PICK B \in Bad : \A C \in Bad : <<C, B>> \notin StrictSubsetOrdering(S)
  <2>. HIDE DEF Bad
  <2>. QED BY <1>2, FS_StrictSubsetOrderingWellFounded, WFMin
<1>4. ASSUME NEW U \in SUBSET B, U # B, U \notin P PROVE FALSE
  <2>1. U \in Bad /\ U \in SUBSET S /\ B \in SUBSET S
    BY <1>3, <1>4
  <2>2. <<U, B>> \in StrictSubsetOrdering(S)
    BY <1>4, <2>1 DEF StrictSubsetOrdering
  <2>. QED BY <1>3, <2>1, <2>2
<1>. QED BY <1>3, <1>4

-----------------------------------------------------------------------------
(***************************************************************************)
(* The recursion equation.                                                 *)
(***************************************************************************)

Pick(S) == CHOOSE x \in S : TRUE

\* h has the sum of f over each subset of S.
Summed(h, f, S) ==
    h = [T \in SUBSET S |-> IF T = {} THEN 0 ELSE f[Pick(T)] + h[T \ {Pick(T)}]]
Sum(f, S) == CHOOSE h : Summed(h, f, S)

LEMMA TotalIsSummed ==
    ASSUME NEW f, NEW S
    PROVE  Total(f, S) = Sum(f, S)[S]
BY DEF Total, MapThenSumSet, MapThenFoldSet, Summed, Sum, Pick

\* The equation, subset by subset.
LEMMA SummedAt ==
    ASSUME NEW f, NEW S, NEW h, Summed(h, f, S), NEW T \in SUBSET S
    PROVE  h[T] = IF T = {} THEN 0 ELSE f[Pick(T)] + h[T \ {Pick(T)}]
BY DEF Summed

\* What is left once one is picked is smaller.
LEMMA PickLeaves ==
    ASSUME NEW T, T # {}
    PROVE  Pick(T) \in T /\ T \ {Pick(T)} \in SUBSET T /\ T \ {Pick(T)} # T
BY DEF Pick

\* Two of them agree on what both sum.
LEMMA SummedAgree ==
    ASSUME NEW f, NEW S, IsFiniteSet(S), NEW g, Summed(g, f, S),
           NEW T \in SUBSET S, NEW h, Summed(h, f, T)
    PROVE  \A U \in SUBSET T : g[U] = h[U]
<1>. DEFINE P == {U \in SUBSET T : g[U] = h[U]}
<1>1. IsFiniteSet(T)
  BY FS_Subset
<1>2. ASSUME NEW U \in SUBSET T, \A V \in SUBSET U : V # U => V \in P
      PROVE  U \in P
  <2>1. U \in SUBSET S
    OBVIOUS
  <2>2. g[U] = IF U = {} THEN 0 ELSE f[Pick(U)] + g[U \ {Pick(U)}]
    BY <2>1, SummedAt
  <2>4. h[U] = IF U = {} THEN 0 ELSE f[Pick(U)] + h[U \ {Pick(U)}]
    BY SummedAt
  <2>3. U # {} => g[U \ {Pick(U)}] = h[U \ {Pick(U)}]
    BY <1>2, PickLeaves
  <2>. QED BY <2>2, <2>3, <2>4
<1>3. \A U \in SUBSET T : U \in P
  <2>. HIDE DEF P
  <2>. QED BY <1>1, <1>2, SetInduction
<1>. QED BY <1>3

LEMMA SummedExists ==
    ASSUME NEW f, NEW S, IsFiniteSet(S)
    PROVE  Summed(Sum(f, S), f, S)
<1>. DEFINE P == {T \in SUBSET S : Summed(Sum(f, T), f, T)}
<1>1. ASSUME NEW T \in SUBSET S, \A U \in SUBSET T : U # T => U \in P
      PROVE  T \in P
  <2>. DEFINE Rest(U) == U \ {Pick(U)}
              G == [U \in SUBSET T |-> IF U = {} THEN 0 ELSE f[Pick(U)] + Sum(f, Rest(U))[Rest(U)]]
  <2>1. ASSUME NEW U \in SUBSET T, U # {}
        PROVE  G[Rest(U)] = Sum(f, Rest(U))[Rest(U)]
    <3>. DEFINE V == Rest(U)
    <3>1. V \in SUBSET T /\ V # T /\ V \in P
      BY <1>1, <2>1, PickLeaves
    <3>2. Sum(f, V)[V] = IF V = {} THEN 0 ELSE f[Pick(V)] + Sum(f, V)[Rest(V)]
      <4>1. Summed(Sum(f, V), f, V) /\ V \in SUBSET V
        BY <3>1
      <4>. HIDE DEF V
      <4>. QED BY <4>1, SummedAt
    <3>3. CASE V = {}
      BY <3>1, <3>2, <3>3
    <3>4. CASE V # {}
      <4>1. Rest(V) \in SUBSET V /\ Rest(V) # T /\ Rest(V) \in P
        BY <1>1, <3>1, <3>4, PickLeaves
      <4>2. IsFiniteSet(V)
        BY <3>1, FS_Subset
      <4>3. Sum(f, V)[Rest(V)] = Sum(f, Rest(V))[Rest(V)]
        <5>1. Summed(Sum(f, V), f, V) /\ Summed(Sum(f, Rest(V)), f, Rest(V))
          BY <3>1, <4>1
        <5>2. Rest(V) \in SUBSET Rest(V)
          OBVIOUS
        <5>. HIDE DEF Rest, V
        <5>. QED BY <4>1, <4>2, <5>1, <5>2, SummedAgree
      <4>4. G[V] = f[Pick(V)] + Sum(f, Rest(V))[Rest(V)]
        BY <3>1, <3>4
      <4>. QED BY <3>2, <3>4, <4>3, <4>4
    <3>. QED BY <3>3, <3>4
  <2>2. G = [U \in SUBSET T |-> IF U = {} THEN 0 ELSE f[Pick(U)] + G[U \ {Pick(U)}]]
    <3>1. \A U \in SUBSET T :
            G[U] = IF U = {} THEN 0 ELSE f[Pick(U)] + G[U \ {Pick(U)}]
      BY <2>1
    <3>2. G = [U \in SUBSET T |-> G[U]]
      OBVIOUS
    <3>. HIDE DEF G
    <3>. QED BY <3>1, <3>2
  <2>3. Summed(G, f, T)
    <3>. HIDE DEF G
    <3>. QED BY <2>2 DEF Summed
  <2>4. Summed(Sum(f, T), f, T)
    <3>. HIDE DEF G
    <3>. QED BY <2>3 DEF Sum
  <2>. QED BY <2>4
<1>2. \A T \in SUBSET S : T \in P
  <2>. HIDE DEF P
  <2>. QED BY <1>1, SetInduction
<1>. QED BY <1>2

\* Nothing adds up to nothing.
LEMMA TotalEmpty ==
    ASSUME NEW f
    PROVE  Total(f, {}) = 0
<1>1. IsFiniteSet({}) /\ {} \in SUBSET {}
  BY FS_EmptySet
<1>. QED BY <1>1, TotalIsSummed, SummedExists, SummedAt

\* One is picked, and added to the total of the rest.
LEMMA TotalPicks ==
    ASSUME NEW f, NEW S, IsFiniteSet(S), S # {}
    PROVE  Total(f, S) = f[Pick(S)] + Total(f, S \ {Pick(S)})
<1>. DEFINE R == S \ {Pick(S)}
<1>1. R \in SUBSET S /\ IsFiniteSet(R) /\ S \in SUBSET S /\ R \in SUBSET R
  BY FS_Subset
<1>2. Sum(f, S)[S] = f[Pick(S)] + Sum(f, S)[R]
  BY <1>1, SummedExists, SummedAt
<1>3. Sum(f, S)[R] = Sum(f, R)[R]
  <2>1. Summed(Sum(f, S), f, S) /\ Summed(Sum(f, R), f, R)
    BY <1>1, SummedExists
  <2>. HIDE DEF R
  <2>. QED BY <1>1, <2>1, SummedAgree
<1>. QED BY <1>2, <1>3, TotalIsSummed

-----------------------------------------------------------------------------
(***************************************************************************)
(* Totals of integers.                                                     *)
(***************************************************************************)

Integral(f, S) == \A x \in S : f[x] \in Int

\* A total of integers is one.
LEMMA TotalInt ==
    ASSUME NEW f, NEW S, IsFiniteSet(S), \A x \in S : f[x] \in Int
    PROVE  Total(f, S) \in Int
<1>. DEFINE P == {T \in SUBSET S : Total(f, T) \in Int}
<1>1. ASSUME NEW T \in SUBSET S, \A U \in SUBSET T : U # T => U \in P
      PROVE  T \in P
  <2>1. CASE T = {}
    BY <2>1, TotalEmpty
  <2>2. CASE T # {}
    <3>1. Total(f, T) = f[Pick(T)] + Total(f, T \ {Pick(T)})
      BY <2>2, TotalPicks, FS_Subset
    <3>2. Total(f, T \ {Pick(T)}) \in Int /\ f[Pick(T)] \in Int
      BY <1>1, <2>2, PickLeaves
    <3>. QED BY <3>1, <3>2
  <2>. QED BY <2>1, <2>2
<1>2. \A T \in SUBSET S : T \in P
  <2>. HIDE DEF P
  <2>. QED BY <1>1, SetInduction
<1>. QED BY <1>2

\* So it does not matter which one is taken out.
LEMMA TotalRemove ==
    ASSUME NEW f, NEW S, IsFiniteSet(S), \A x \in S : f[x] \in Int
    PROVE  \A x \in S : Total(f, S) = f[x] + Total(f, S \ {x})
<1>. DEFINE P == {T \in SUBSET S : \A x \in T : Total(f, T) = f[x] + Total(f, T \ {x})}
<1>1. ASSUME NEW T \in SUBSET S, \A U \in SUBSET T : U # T => U \in P
      PROVE  T \in P
  <2>. DEFINE y == Pick(T)
  <2>. SUFFICES ASSUME NEW x \in T PROVE Total(f, T) = f[x] + Total(f, T \ {x})
    OBVIOUS
  <2>1. y \in T
    BY PickLeaves
  <2>2. Total(f, T) = f[y] + Total(f, T \ {y})
    BY FS_Subset, TotalPicks
  <2>3. CASE y = x
    BY <2>2, <2>3
  <2>4. CASE y # x
    <3>. HIDE DEF y
    <3>1. T \ {y} \in P /\ T \ {x} \in P /\ x \in T \ {y} /\ y \in T \ {x}
      BY <1>1, <2>1, <2>4
    <3>2. Total(f, T \ {y}) = f[x] + Total(f, (T \ {y}) \ {x})
      BY <3>1
    <3>3. Total(f, T \ {x}) = f[y] + Total(f, (T \ {x}) \ {y})
      BY <3>1
    <3>4. (T \ {y}) \ {x} = (T \ {x}) \ {y}
      OBVIOUS
    <3>. DEFINE rest == Total(f, (T \ {x}) \ {y})
    <3>5. rest \in Int
      <4>1. (T \ {x}) \ {y} \in SUBSET S
        OBVIOUS
      <4>. QED BY <4>1, TotalInt, FS_Subset
    <3>6. f[x] \in Int /\ f[y] \in Int
      BY <2>1
    <3>7. Total(f, T \ {y}) = f[x] + rest
      BY <3>2, <3>4
    <3>8. Total(f, T \ {x}) = f[y] + rest
      BY <3>3
    <3>. HIDE DEF rest
    <3>. QED BY <2>2, <3>5, <3>6, <3>7, <3>8
  <2>. QED BY <2>3, <2>4
<1>2. \A T \in SUBSET S : T \in P
  <2>. HIDE DEF P
  <2>. QED BY <1>1, SetInduction
<1>. QED BY <1>2

\* What an induction over the sets summed needs of one of its steps.
LEMMA TotalStep ==
    ASSUME NEW f, NEW S, IsFiniteSet(S), Integral(f, S), NEW T \in SUBSET S, NEW x \in T
    PROVE  /\ Total(f, T) = f[x] + Total(f, T \ {x})
           /\ f[x] \in Int /\ Total(f, T) \in Int /\ Total(f, T \ {x}) \in Int
           /\ T \ {x} \in SUBSET T /\ T \ {x} # T
<1>0. \A y \in S : f[y] \in Int
  BY DEF Integral
<1>1. T \ {x} \in SUBSET S /\ IsFiniteSet(T) /\ IsFiniteSet(T \ {x})
  BY FS_Subset
<1>2. Total(f, T) \in Int /\ Total(f, T \ {x}) \in Int
  BY <1>0, <1>1, TotalInt
<1>3. Total(f, T) = f[x] + Total(f, T \ {x})
  BY <1>0, <1>1, TotalRemove
<1>. QED BY <1>0, <1>1, <1>2, <1>3

\* Each at most another's: so are the totals.
LEMMA TotalMonotone ==
    ASSUME NEW f, NEW g, NEW S, IsFiniteSet(S),
           \A x \in S : f[x] \in Int /\ g[x] \in Int /\ f[x] <= g[x]
    PROVE  Total(f, S) <= Total(g, S)
<1>0. Integral(f, S) /\ Integral(g, S)
  BY DEF Integral
<1>. DEFINE P == {T \in SUBSET S : Total(f, T) <= Total(g, T)}
<1>1. ASSUME NEW T \in SUBSET S, \A U \in SUBSET T : U # T => U \in P
      PROVE  T \in P
  <2>1. CASE T = {}
    BY <2>1, TotalEmpty
  <2>2. CASE T # {}
    <3>1. PICK x \in T : TRUE
      BY <2>2
    <3>2. /\ Total(f, T) = f[x] + Total(f, T \ {x})
          /\ f[x] \in Int /\ Total(f, T \ {x}) \in Int
      BY <1>0, TotalStep
    <3>3. /\ Total(g, T) = g[x] + Total(g, T \ {x})
          /\ g[x] \in Int /\ Total(g, T \ {x}) \in Int
      BY <1>0, TotalStep
    <3>4. Total(f, T \ {x}) <= Total(g, T \ {x})
      <4>1. T \ {x} \in SUBSET T /\ T \ {x} # T
        OBVIOUS
      <4>. QED BY <1>1, <4>1
    <3>. QED BY <3>2, <3>3, <3>4
  <2>. QED BY <2>1, <2>2
<1>2. \A T \in SUBSET S : T \in P
  <2>. HIDE DEF P
  <2>. QED BY <1>1, SetInduction
<1>. QED BY <1>2

\* Nothing but what is summed matters.
LEMMA TotalSame ==
    ASSUME NEW f, NEW g, NEW S, IsFiniteSet(S),
           \A x \in S : f[x] \in Int /\ g[x] = f[x]
    PROVE  Total(f, S) = Total(g, S)
<1>1. Total(f, S) <= Total(g, S) /\ Total(g, S) <= Total(f, S)
  BY TotalMonotone
<1>2. Total(f, S) \in Int /\ Total(g, S) \in Int
  BY TotalInt
<1>. QED BY <1>1, <1>2

\* The total of sums is the sum of the totals.
LEMMA TotalPlus ==
    ASSUME NEW f, NEW g, NEW h, NEW S, IsFiniteSet(S),
           Integral(f, S), Integral(g, S), \A x \in S : h[x] = f[x] + g[x]
    PROVE  Total(h, S) = Total(f, S) + Total(g, S)
<1>. DEFINE P == {T \in SUBSET S : Total(h, T) = Total(f, T) + Total(g, T)}
<1>1. ASSUME NEW T \in SUBSET S, \A U \in SUBSET T : U # T => U \in P
      PROVE  T \in P
  <2>1. CASE T = {}
    BY <2>1, TotalEmpty
  <2>2. CASE T # {}
    <3>1. PICK x \in T : TRUE
      BY <2>2
    <3>2. /\ Total(f, T) = f[x] + Total(f, T \ {x})
          /\ f[x] \in Int /\ Total(f, T \ {x}) \in Int
      BY TotalStep
    <3>3. /\ Total(g, T) = g[x] + Total(g, T \ {x})
          /\ g[x] \in Int /\ Total(g, T \ {x}) \in Int
      BY TotalStep
    <3>4. Integral(h, S)
      BY DEF Integral
    <3>5. Total(h, T) = h[x] + Total(h, T \ {x}) /\ Total(h, T \ {x}) \in Int
      BY <3>4, TotalStep
    <3>6. Total(h, T \ {x}) = Total(f, T \ {x}) + Total(g, T \ {x})
      <4>1. T \ {x} \in SUBSET T /\ T \ {x} # T
        OBVIOUS
      <4>. QED BY <1>1, <4>1
    <3>7. h[x] = f[x] + g[x]
      OBVIOUS
    <3>. QED BY <3>2, <3>3, <3>5, <3>6, <3>7
  <2>. QED BY <2>1, <2>2
<1>2. \A T \in SUBSET S : T \in P
  <2>. HIDE DEF P
  <2>. QED BY <1>1, SetInduction
<1>. QED BY <1>2

\* The total of differences is the difference of the totals.
LEMMA TotalMinus ==
    ASSUME NEW f, NEW g, NEW h, NEW S, IsFiniteSet(S),
           \A x \in S : f[x] \in Int /\ g[x] \in Int /\ h[x] = f[x] - g[x]
    PROVE  Total(h, S) = Total(f, S) - Total(g, S)
<1>1. \A x \in S : g[x] \in Int /\ h[x] \in Int /\ f[x] = g[x] + h[x]
  OBVIOUS
<1>2. Total(f, S) = Total(g, S) + Total(h, S)
  <2>1. Integral(g, S) /\ Integral(h, S)
    BY <1>1 DEF Integral
  <2>2. \A x \in S : f[x] = g[x] + h[x]
    BY <1>1
  <2>. QED BY <2>1, <2>2, TotalPlus
<1>3. Total(g, S) \in Int /\ Total(h, S) \in Int
  BY <1>1, TotalInt
<1>. QED BY <1>2, <1>3

\* The total of a constant.
LEMMA TotalConstant ==
    ASSUME NEW f, NEW S, IsFiniteSet(S), NEW c \in Int, \A x \in S : f[x] = c
    PROVE  Total(f, S) = c * Cardinality(S)
<1>. DEFINE P == {T \in SUBSET S : Total(f, T) = c * Cardinality(T)}
<1>1. ASSUME NEW T \in SUBSET S, \A U \in SUBSET T : U # T => U \in P
      PROVE  T \in P
  <2>1. CASE T = {}
    BY <2>1, TotalEmpty, FS_EmptySet
  <2>2. CASE T # {}
    <3>1. PICK x \in T : TRUE
      BY <2>2
    <3>1a. Integral(f, S)
      BY DEF Integral
    <3>2. /\ Total(f, T) = f[x] + Total(f, T \ {x})
          /\ T \ {x} \in SUBSET T /\ T \ {x} # T
      BY <3>1a, TotalStep
    <3>3. Total(f, T \ {x}) = c * Cardinality(T \ {x}) /\ f[x] = c
      BY <1>1, <3>2
    <3>4. Cardinality(T) \in Nat /\ Cardinality(T \ {x}) = Cardinality(T) - 1
      BY FS_Subset, FS_CardinalityType, FS_RemoveElement
    <3>5. \A n \in Nat : c + c * (n - 1) = c * n
      OBVIOUS
    <3>. QED BY <3>2, <3>3, <3>4, <3>5
  <2>. QED BY <2>1, <2>2
<1>2. \A T \in SUBSET S : T \in P
  <2>. HIDE DEF P
  <2>. QED BY <1>1, SetInduction
<1>. QED BY <1>2

\* Of what is never negative the whole is at least each part, and is never
\* negative itself.
LEMMA TotalPart ==
    ASSUME NEW f, NEW S, IsFiniteSet(S), \A x \in S : f[x] \in Nat, NEW T \in SUBSET S
    PROVE  /\ Total(f, S) \in Nat /\ Total(f, T) \in Nat
           /\ Total(f, T) <= Total(f, S)
<1>0. ASSUME NEW U \in SUBSET S PROVE Total(f, U) \in Nat
  <2>1. IsFiniteSet(U) /\ \A x \in U : f[x] \in Int
    BY FS_Subset
  <2>2. Total(f, U) \in Int
    BY <2>1, TotalInt
  <2>. DEFINE zero == [x \in U |-> 0]
  <2>3. \A x \in U : zero[x] = 0 /\ zero[x] \in Int /\ zero[x] <= f[x]
    OBVIOUS
  <2>4. Total(zero, U) <= Total(f, U)
    <3>. HIDE DEF zero
    <3>. QED BY <2>1, <2>3, TotalMonotone
  <2>5. Total(zero, U) = 0 * Cardinality(U) /\ Cardinality(U) \in Nat
    <3>. HIDE DEF zero
    <3>. QED BY <2>1, <2>3, TotalConstant, FS_CardinalityType
  <2>. QED BY <2>2, <2>4, <2>5
<1>. DEFINE P == {U \in SUBSET S : T \subseteq U => Total(f, T) <= Total(f, U)}
<1>1. ASSUME NEW U \in SUBSET S, \A V \in SUBSET U : V # U => V \in P
      PROVE  U \in P
  <2>. SUFFICES ASSUME T \subseteq U PROVE Total(f, T) <= Total(f, U)
    OBVIOUS
  <2>1. CASE U = T
    BY <1>0, <2>1
  <2>2. CASE U # T
    <3>1. PICK x \in U : x \notin T
      BY <2>2
    <3>1a. Integral(f, S)
      BY DEF Integral
    <3>2. Total(f, U) = f[x] + Total(f, U \ {x}) /\ U \ {x} \in SUBSET U /\ U \ {x} # U
      BY <3>1a, TotalStep
    <3>3. Total(f, T) <= Total(f, U \ {x})
      BY <1>1, <3>1, <3>2
    <3>4. f[x] \in Nat /\ Total(f, T) \in Nat /\ Total(f, U \ {x}) \in Nat
      BY <1>0, <3>2
    <3>. QED BY <3>2, <3>3, <3>4
  <2>. QED BY <2>1, <2>2
<1>2. \A U \in SUBSET S : U \in P
  <2>. HIDE DEF P
  <2>. QED BY <1>1, SetInduction
<1>. QED BY <1>0, <1>2

\* So each is at most the total.
LEMMA TotalMember ==
    ASSUME NEW f, NEW S, IsFiniteSet(S), \A x \in S : f[x] \in Nat, NEW y \in S
    PROVE  f[y] <= Total(f, S)
<1>1. Integral(f, S) /\ S \in SUBSET S /\ S \ {y} \in SUBSET S
  BY DEF Integral
<1>2. Total(f, S) = f[y] + Total(f, S \ {y})
  BY <1>1, TotalStep
<1>3. Total(f, S \ {y}) \in Nat
  BY <1>1, TotalPart
<1>4. f[y] \in Nat
  OBVIOUS
<1>. QED BY <1>2, <1>3, <1>4

\* None more than c: at most c for each.
LEMMA TotalBound ==
    ASSUME NEW f, NEW S, IsFiniteSet(S), NEW c \in Int,
           \A x \in S : f[x] \in Int /\ f[x] <= c
    PROVE  Total(f, S) <= c * Cardinality(S)
<1>. DEFINE bound == [x \in S |-> c]
<1>1. \A x \in S : bound[x] = c /\ f[x] \in Int /\ bound[x] \in Int /\ f[x] <= bound[x]
  OBVIOUS
<1>. HIDE DEF bound
<1>2. Total(f, S) <= Total(bound, S)
  BY <1>1, TotalMonotone
<1>3. Total(bound, S) = c * Cardinality(S)
  BY <1>1, TotalConstant
<1>. QED BY <1>2, <1>3

\* One of them counts one more.
LEMMA TotalCounts ==
    ASSUME NEW f, NEW g, NEW S, IsFiniteSet(S), \A x \in S : f[x] \in Int, NEW y \in S,
           NEW d \in Int, g[y] = f[y] + d, \A x \in S : x # y => g[x] = f[x]
    PROVE  Total(g, S) = Total(f, S) + d
<1>0. g[y] \in Int
  OBVIOUS
<1>1. Integral(f, S) /\ Integral(g, S)
  BY <1>0 DEF Integral
<1>2. Total(g, S) = g[y] + Total(g, S \ {y}) /\ Total(g, S \ {y}) \in Int
  BY <1>1, TotalStep
<1>3. /\ Total(f, S) = f[y] + Total(f, S \ {y})
      /\ f[y] \in Int /\ Total(f, S \ {y}) \in Int
  BY <1>1, TotalStep
<1>4. Total(f, S \ {y}) = Total(g, S \ {y})
  <2>1. IsFiniteSet(S \ {y})
    BY FS_Subset
  <2>2. \A x \in S \ {y} : f[x] \in Int /\ g[x] = f[x]
    OBVIOUS
  <2>. QED BY <2>1, <2>2, TotalSame
<1>. QED BY <1>2, <1>3, <1>4

Table(f, S, R) == \A x \in S : \A y \in R : f[x][y] \in Int
Transposed(g, f, S, R) == \A y \in R : \A x \in S : g[y][x] = f[x][y]
RowTotals(h, f, S, R) == \A x \in S : h[x] = Total(f[x], R)

\* A table adds up to the same by rows and by columns.
LEMMA TotalSwap ==
    ASSUME NEW f, NEW S, IsFiniteSet(S), NEW R, IsFiniteSet(R),
           Table(f, S, R), NEW g, Transposed(g, f, S, R),
           NEW across, RowTotals(across, f, S, R), NEW down, RowTotals(down, g, R, S)
    PROVE  Total(across, S) = Total(down, R)
<1>0. /\ \A x \in S : \A y \in R : f[x][y] \in Int
      /\ \A y \in R : \A x \in S : g[y][x] = f[x][y]
      /\ \A x \in S : across[x] = Total(f[x], R)
      /\ \A y \in R : down[y] = Total(g[y], S)
  BY DEF Table, Transposed, RowTotals
<1>. DEFINE row == [x \in S |-> Total(f[x], R)]
            column(y) == [x \in S |-> f[x][y]]
            columns(T) == [y \in R |-> Total(column(y), T)]
            P == {T \in SUBSET S : Total(row, T) = Total(columns(T), R)}
<1>1. \A x \in S : row[x] = Total(f[x], R) /\ row[x] \in Int
  BY <1>0, TotalInt
<1>2. ASSUME NEW y \in R PROVE \A x \in S : column(y)[x] = f[x][y] /\ column(y)[x] \in Int
  BY <1>0
<1>3. ASSUME NEW T \in SUBSET S PROVE \A y \in R : columns(T)[y] = Total(column(y), T)
  OBVIOUS
<1>4. ASSUME NEW T \in SUBSET S, \A U \in SUBSET T : U # T => U \in P
      PROVE  T \in P
  <2>1. CASE T = {}
    <3>1. Total(row, T) = 0
      BY <2>1, TotalEmpty
    <3>2. \A y \in R : columns(T)[y] = 0
      BY <2>1, <1>3, TotalEmpty
    <3>3. Total(columns(T), R) = 0 * Cardinality(R)
      <4>. HIDE DEF columns
      <4>. QED BY <3>2, TotalConstant
    <3>. QED BY <3>1, <3>3, FS_CardinalityType
  <2>2. CASE T # {}
    <3>1. PICK x \in T : TRUE
      BY <2>2
    <3>. DEFINE U == T \ {x}
    <3>2. U \in SUBSET T /\ U # T /\ U \in SUBSET S /\ x \in S
      OBVIOUS
    <3>3. Total(row, T) = row[x] + Total(row, U)
      <4>1. Integral(row, S)
        BY <1>1 DEF Integral
      <4>. HIDE DEF row
      <4>. QED BY <4>1, TotalStep
    <3>4. Total(row, U) = Total(columns(U), R)
      BY <1>4, <3>2
    <3>5. ASSUME NEW y \in R
          PROVE  /\ columns(T)[y] = f[x][y] + columns(U)[y]
                 /\ f[x][y] \in Int /\ columns(U)[y] \in Int
      <4>1. Integral(column(y), S)
        BY <1>2 DEF Integral
      <4>2. column(y)[x] = f[x][y]
        BY <1>2, <3>2
      <4>3. Total(column(y), T) = column(y)[x] + Total(column(y), U) /\ Total(column(y), U) \in Int
        <5>. HIDE DEF column
        <5>. QED BY <4>1, TotalStep
      <4>4. columns(T)[y] = Total(column(y), T) /\ columns(U)[y] = Total(column(y), U)
        BY <1>3, <3>2
      <4>5. f[x][y] \in Int
        BY <1>0, <3>2
      <4>. HIDE DEF column, columns, U
      <4>. QED BY <4>2, <4>3, <4>4, <4>5
    <3>6. Total(columns(T), R) = Total(f[x], R) + Total(columns(U), R)
      <4>1. Integral(f[x], R) /\ Integral(columns(U), R)
        BY <3>5 DEF Integral
      <4>2. \A y \in R : columns(T)[y] = f[x][y] + columns(U)[y]
        BY <3>5
      <4>. HIDE DEF columns, U
      <4>. QED BY <4>1, <4>2, TotalPlus
    <3>7. row[x] = Total(f[x], R)
      BY <1>1, <3>2
    <3>. HIDE DEF row, columns, U
    <3>. QED BY <3>3, <3>4, <3>6, <3>7
  <2>. QED BY <2>1, <2>2
<1>5. \A T \in SUBSET S : T \in P
  <2>. HIDE DEF P
  <2>. QED BY <1>4, SetInduction
<1>6. Total(row, S) = Total(columns(S), R)
  BY <1>5
<1>7. Total(row, S) = Total(across, S)
  <2>1. \A x \in S : row[x] \in Int /\ across[x] = row[x]
    BY <1>0, <1>1
  <2>. HIDE DEF row
  <2>. QED BY <2>1, TotalSame
<1>8. Total(columns(S), R) = Total(down, R)
  <2>1. ASSUME NEW y \in R PROVE columns(S)[y] \in Int /\ down[y] = columns(S)[y]
    <3>1. \A x \in S : column(y)[x] \in Int /\ g[y][x] = column(y)[x]
      BY <1>0, <1>2
    <3>2. columns(S)[y] = Total(column(y), S) /\ down[y] = Total(g[y], S)
      BY <1>0
    <3>. HIDE DEF column, columns
    <3>. QED BY <3>1, <3>2, TotalInt, TotalSame
  <2>. HIDE DEF columns
  <2>. QED BY <2>1, TotalSame
<1>. HIDE DEF row, columns
<1>. QED BY <1>6, <1>7, <1>8
=============================================================================
