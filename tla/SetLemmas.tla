------------------------------ MODULE SetLemmas ------------------------------
(***************************************************************************)
(* Facts about finite sets that the proofs of several components need: a   *)
(* family of subsets has a smallest member, which stands in for induction; *)
(* a set of numbers has a least and a greatest one; and the sum of a       *)
(* function over a finite set, SumFunctionOnSet, does not depend on the    *)
(* order in which it is taken.                                             *)
(***************************************************************************)
EXTENDS Integers, Functions, FiniteSetsExt, FiniteSetTheorems, WellFoundedInduction, TLAPS

(* No infinite descent among the subsets of a finite set.                  *)
LEMMA Smallest ==
    ASSUME NEW S, IsFiniteSet(S), NEW T \in SUBSET (SUBSET S), T # {}
    PROVE  \E x \in T : \A y \in T : y \subseteq x => y = x
<1>1. IsWellFoundedOn(StrictSubsetOrdering(S), SUBSET S)
  BY FS_StrictSubsetOrderingWellFounded, FS_FiniteSubsetsOfFinite
<1>2. PICK x \in T : \A y \in T : ~ (<<y, x>> \in StrictSubsetOrdering(S))
  BY <1>1, WFMin
<1> QED
  BY <1>2 DEF StrictSubsetOrdering

(* The smallest of the intervals that end in S ends at its minimum.        *)
LEMMA Least ==
    ASSUME NEW n \in Nat, NEW S \in SUBSET (1..n), S # {}
    PROVE  Min(S) \in S /\ \A m \in S : Min(S) <= m
<1> DEFINE I == 1..n
           T == {1..m : m \in S}
<1>1. IsFiniteSet(I)
  BY FS_Interval
<1>2. T \in SUBSET (SUBSET I)
  <2> SUFFICES ASSUME NEW m \in S PROVE 1..m \subseteq 1..n
    OBVIOUS
  <2> QED
    OBVIOUS
<1>3. T # {}
  <2>1. PICK m \in S : TRUE
    OBVIOUS
  <2>2. 1..m \in T
    BY <2>1
  <2> QED
    BY <2>2
<1>4. PICK x \in T : \A y \in T : y \subseteq x => y = x
  <2> HIDE DEF T, I
  <2> QED
    BY <1>1, <1>2, <1>3, Smallest
<1>5. PICK k \in S : x = 1..k
  BY <1>4
<1>6. \A m \in S : k <= m
  <2> SUFFICES ASSUME NEW m \in S, m < k PROVE FALSE
    OBVIOUS
  <2>1. 1..m \in T /\ 1..m \subseteq x
    BY <1>5
  <2>2. 1..m = 1..k
    BY <1>4, <1>5, <2>1
  <2>3. k \in 1..k /\ k \notin 1..m
    OBVIOUS
  <2> QED
    BY <2>2, <2>3
<1> QED
  BY <1>6 DEF Min
(* The smallest of the sets of members at least as large as one of them is *)
(* that of the maximum.                                                    *)
LEMMA Greatest ==
    ASSUME NEW S \in SUBSET Nat, IsFiniteSet(S), S # {}
    PROVE  Max(S) \in S /\ \A y \in S : y <= Max(S)
<1> DEFINE I == S
           Above(x) == {y \in I : y >= x}
           T == {Above(x) : x \in I}
<1>a. IsFiniteSet(I)
  OBVIOUS
<1>1. T \in SUBSET (SUBSET I)
  OBVIOUS
<1>0. T # {}
  <2>1. PICK z \in S : TRUE
    OBVIOUS
  <2>2. Above(z) \in T
    BY <2>1
  <2> QED
    BY <2>2
<1>2. PICK x \in T : \A y \in T : y \subseteq x => y = x
  <2> HIDE DEF T, Above, I
  <2> QED
    BY <1>a, <1>0, <1>1, Smallest
<1>3. PICK k \in S : x = Above(k)
  BY <1>2
<1>4. \A y \in S : y <= k
  <2> SUFFICES ASSUME NEW y \in S, y > k PROVE FALSE
    OBVIOUS
  <2>0. y \in Nat /\ k \in Nat
    OBVIOUS
  <2>1. Above(y) \in T /\ Above(y) \subseteq x
    <3>1. ASSUME NEW z \in S, z >= y
          PROVE  z >= k
      <4>1. z \in Nat
        OBVIOUS
      <4> QED
        BY <2>0, <3>1, <4>1
    <3> QED
      BY <1>3, <3>1
  <2>2. Above(y) = Above(k)
    BY <1>2, <1>3, <2>1
  <2>3. k \in Above(k) /\ k \notin Above(y)
    OBVIOUS
  <2> QED
    BY <2>2, <2>3
<1>5. \E m \in S : \A y \in S : m >= y
  BY <1>3, <1>4
<1>6. Max(S) \in S /\ \A y \in S : Max(S) >= y
  BY <1>5 DEF Max
<1> QED
  BY <1>6
-----------------------------------------------------------------------------
(* Sums.  TheSum is the recursive function SumFunctionOnSet unfolds to.    *)
SumOf(f, S) == SumFunctionOnSet(f, S)
Pick(s) == CHOOSE x \in s : TRUE
IsSum(g, f, S) ==
    g = [s \in SUBSET S |-> IF s = {} THEN 0 ELSE f[Pick(s)] + g[s \ {Pick(s)}]]
TheSum(f, S) == CHOOSE g : IsSum(g, f, S)

LEMMA SumDef ==
    ASSUME NEW f, NEW S
    PROVE  SumOf(f, S) = TheSum(f, S)[S]
BY DEF SumOf, SumFunctionOnSet, FoldFunctionOnSet, MapThenFoldSet, TheSum, IsSum, Pick

LEMMA Picked ==
    ASSUME NEW s, s # {}
    PROVE  Pick(s) \in s
BY DEF Pick

(* Two such functions agree wherever both are defined.                     *)
LEMMA SumsAgree ==
    ASSUME NEW f, NEW S, IsFiniteSet(S), NEW U \in SUBSET S, NEW W \in SUBSET S,
           NEW g, NEW h, IsSum(g, f, U), IsSum(h, f, W)
    PROVE  \A V \in SUBSET U : V \subseteq W => g[V] = h[V]
<1> DEFINE Bad == {V \in SUBSET S : V \subseteq U /\ V \subseteq W /\ g[V] # h[V]}
<1> SUFFICES ASSUME Bad # {} PROVE FALSE
  OBVIOUS
<1>1. Bad \in SUBSET (SUBSET S)
  OBVIOUS
<1>2. PICK V \in Bad : \A y \in Bad : y \subseteq V => y = V
  <2> HIDE DEF Bad
  <2> QED
    BY <1>1, Smallest
<1>3. /\ g[V] = IF V = {} THEN 0 ELSE f[Pick(V)] + g[V \ {Pick(V)}]
      /\ h[V] = IF V = {} THEN 0 ELSE f[Pick(V)] + h[V \ {Pick(V)}]
  BY <1>2 DEF IsSum
<1>4. V # {}
  BY <1>2, <1>3
<1>5. V \ {Pick(V)} \notin Bad
  BY <1>2, <1>4, Picked
<1>6. g[V \ {Pick(V)}] = h[V \ {Pick(V)}]
  BY <1>2, <1>5
<1> QED
  BY <1>2, <1>3, <1>4, <1>6

(* The recursive function exists: a smallest set on which it did not would *)
(* have it after all, put together from its smaller subsets.               *)
LEMMA SumExists ==
    ASSUME NEW f, NEW S, IsFiniteSet(S)
    PROVE  \A T \in SUBSET S : IsSum(TheSum(f, T), f, T)
<1> DEFINE Bad == {T \in SUBSET S : ~ IsSum(TheSum(f, T), f, T)}
<1> SUFFICES ASSUME Bad # {} PROVE FALSE
  OBVIOUS
<1>1. Bad \in SUBSET (SUBSET S)
  OBVIOUS
<1>2. PICK T \in Bad : \A y \in Bad : y \subseteq T => y = T
  <2> HIDE DEF Bad
  <2> QED
    BY <1>1, Smallest
<1> DEFINE val(s) == IF s = {} THEN 0
                     ELSE f[Pick(s)] + TheSum(f, s \ {Pick(s)})[s \ {Pick(s)}]
           g == [s \in SUBSET T |-> val(s)]
<1>3. ASSUME NEW V \in SUBSET T, V # T
      PROVE  IsSum(TheSum(f, V), f, V)
  BY <1>2, <1>3
<1>4. ASSUME NEW V \in SUBSET T, V # T
      PROVE  TheSum(f, V)[V] = val(V)
  <2>1. TheSum(f, V)[V] = IF V = {} THEN 0 ELSE f[Pick(V)] + TheSum(f, V)[V \ {Pick(V)}]
    BY <1>3, <1>4 DEF IsSum
  <2>2. CASE V # {}
    <3> DEFINE W == V \ {Pick(V)}
    <3>1. W \in SUBSET V /\ W \in SUBSET T /\ W # T
      BY <2>2, Picked, <1>4
    <3>2. TheSum(f, V)[W] = TheSum(f, W)[W]
      <4>1. IsSum(TheSum(f, V), f, V) /\ IsSum(TheSum(f, W), f, W)
        BY <1>3, <1>4, <3>1
      <4> HIDE DEF W
      <4> QED
        BY <3>1, <4>1, SumsAgree, <1>2
    <3> QED
      BY <2>1, <2>2, <3>2
  <2> QED
    BY <2>1, <2>2
<1>5. \A s \in SUBSET T : g[s] = IF s = {} THEN 0 ELSE f[Pick(s)] + g[s \ {Pick(s)}]
  <2> SUFFICES ASSUME NEW s \in SUBSET T, s # {}
               PROVE  g[s] = f[Pick(s)] + g[s \ {Pick(s)}]
    OBVIOUS
  <2>1. s \ {Pick(s)} \in SUBSET T /\ s \ {Pick(s)} # T
    BY Picked
  <2>2. g[s \ {Pick(s)}] = TheSum(f, s \ {Pick(s)})[s \ {Pick(s)}]
    BY <2>1, <1>4
  <2> QED
    BY <2>2
<1>6. IsSum(g, f, T)
  <2> HIDE DEF val
  <2> QED
    BY <1>5 DEF IsSum
<1>7. IsSum(TheSum(f, T), f, T)
  <2> HIDE DEF g
  <2> QED
    BY <1>6 DEF TheSum
<1> QED
  BY <1>2, <1>7

LEMMA SumPick ==
    ASSUME NEW f, NEW S, IsFiniteSet(S)
    PROVE  SumOf(f, S) = IF S = {} THEN 0 ELSE f[Pick(S)] + SumOf(f, S \ {Pick(S)})
<1>1. IsSum(TheSum(f, S), f, S)
  BY SumExists
<1>2. TheSum(f, S)[S] = IF S = {} THEN 0 ELSE f[Pick(S)] + TheSum(f, S)[S \ {Pick(S)}]
  BY <1>1 DEF IsSum
<1>3. CASE S # {}
  <2> DEFINE W == S \ {Pick(S)}
  <2>1. W \in SUBSET S /\ IsSum(TheSum(f, W), f, W)
    BY SumExists
  <2> HIDE DEF W
  <2>2. TheSum(f, S)[W] = TheSum(f, W)[W]
    BY <1>1, <2>1, SumsAgree
  <2> QED
    BY <1>2, <1>3, <2>2, SumDef DEF W
<1> QED
  BY <1>2, <1>3, SumDef

LEMMA SumEmpty ==
    ASSUME NEW f
    PROVE  SumOf(f, {}) = 0
BY FS_EmptySet, SumPick

LEMMA SumInt ==
    ASSUME NEW S, IsFiniteSet(S), NEW f, \A x \in S : f[x] \in Int
    PROVE  \A T \in SUBSET S : SumOf(f, T) \in Int
<1> DEFINE Bad == {T \in SUBSET S : SumOf(f, T) \notin Int}
<1> SUFFICES ASSUME Bad # {} PROVE FALSE
  OBVIOUS
<1>1. Bad \in SUBSET (SUBSET S)
  OBVIOUS
<1>2. PICK T \in Bad : \A y \in Bad : y \subseteq T => y = T
  <2> HIDE DEF Bad
  <2> QED
    BY <1>1, Smallest
<1>3. IsFiniteSet(T)
  BY <1>2, FS_Subset
<1>4. SumOf(f, T) = IF T = {} THEN 0 ELSE f[Pick(T)] + SumOf(f, T \ {Pick(T)})
  BY <1>3, SumPick
<1>5. T # {}
  BY <1>2, <1>4
<1>6. T \ {Pick(T)} \notin Bad
  BY <1>2, <1>5, Picked
<1> QED
  BY <1>2, <1>4, <1>5, <1>6, Picked

(* Whichever element is taken out first, the sum is the same.              *)
LEMMA SumAny ==
    ASSUME NEW S, IsFiniteSet(S), NEW f, \A x \in S : f[x] \in Int
    PROVE  \A T \in SUBSET S : \A x \in T : SumOf(f, T) = f[x] + SumOf(f, T \ {x})
<1> DEFINE Bad == {T \in SUBSET S : \E x \in T : SumOf(f, T) # f[x] + SumOf(f, T \ {x})}
<1> SUFFICES ASSUME Bad # {} PROVE FALSE
  OBVIOUS
<1>1. Bad \in SUBSET (SUBSET S)
  OBVIOUS
<1>2. PICK T \in Bad : \A y \in Bad : y \subseteq T => y = T
  <2> HIDE DEF Bad
  <2> QED
    BY <1>1, Smallest
<1>3. PICK x \in T : SumOf(f, T) # f[x] + SumOf(f, T \ {x})
  BY <1>2
<1> DEFINE y == Pick(T)
           Tx == T \ {x}
           Ty == T \ {y}
           Txy == Ty \ {x}
<1>4. y \in T /\ T \in SUBSET S
  BY <1>2, <1>3, Picked
<1>5. SumOf(f, T) = f[y] + SumOf(f, Ty)
  BY <1>2, <1>4, FS_Subset, SumPick
<1>6. x # y
  BY <1>3, <1>5
<1>7. Ty \notin Bad /\ Tx \notin Bad
  BY <1>2, <1>3, <1>4
<1>8. x \in Ty /\ y \in Tx /\ Txy = Tx \ {y}
  BY <1>3, <1>4, <1>6
<1>9. /\ SumOf(f, Ty) = f[x] + SumOf(f, Txy)
      /\ SumOf(f, Tx) = f[y] + SumOf(f, Txy)
  BY <1>4, <1>7, <1>8
<1>10. f[x] \in Int /\ f[y] \in Int /\ SumOf(f, Txy) \in Int
  BY <1>3, <1>4, SumInt
<1> HIDE DEF y, Tx, Ty, Txy
<1>11. SumOf(f, T) = f[x] + SumOf(f, Tx)
  BY <1>5, <1>9, <1>10
<1> QED
  BY <1>3, <1>11 DEF Tx

(* The sum depends on the values of the function on the set alone.         *)
LEMMA SumSame ==
    ASSUME NEW S, IsFiniteSet(S), NEW f, NEW g, \A x \in S : f[x] = g[x]
    PROVE  \A T \in SUBSET S : SumOf(f, T) = SumOf(g, T)
<1> DEFINE Bad == {T \in SUBSET S : SumOf(f, T) # SumOf(g, T)}
<1> SUFFICES ASSUME Bad # {} PROVE FALSE
  OBVIOUS
<1>1. Bad \in SUBSET (SUBSET S)
  OBVIOUS
<1>2. PICK T \in Bad : \A y \in Bad : y \subseteq T => y = T
  <2> HIDE DEF Bad
  <2> QED
    BY <1>1, Smallest
<1>3. IsFiniteSet(T)
  BY <1>2, FS_Subset
<1>4. /\ SumOf(f, T) = IF T = {} THEN 0 ELSE f[Pick(T)] + SumOf(f, T \ {Pick(T)})
      /\ SumOf(g, T) = IF T = {} THEN 0 ELSE g[Pick(T)] + SumOf(g, T \ {Pick(T)})
  BY <1>3, SumPick
<1>5. T # {}
  BY <1>2, <1>4
<1>6. T \ {Pick(T)} \notin Bad
  BY <1>2, <1>5, Picked
<1>7. SumOf(f, T \ {Pick(T)}) = SumOf(g, T \ {Pick(T)}) /\ f[Pick(T)] = g[Pick(T)]
  BY <1>2, <1>5, <1>6, Picked
<1> QED
  BY <1>2, <1>4, <1>5, <1>7

(* One element more, or one whose value changes.                           *)
LEMMA SumWith ==
    ASSUME NEW S, IsFiniteSet(S), NEW f, NEW x \in S, \A y \in S : f[y] \in Int
    PROVE  /\ SumOf(f, S) \in Int /\ SumOf(f, S \ {x}) \in Int
           /\ SumOf(f, S) = f[x] + SumOf(f, S \ {x})
<1>1. S \in SUBSET S /\ S \ {x} \in SUBSET S
  OBVIOUS
<1> QED
  BY <1>1, SumInt, SumAny

LEMMA SumChange ==
    ASSUME NEW S, IsFiniteSet(S), NEW f, NEW g, NEW x \in S,
           \A y \in S : f[y] \in Int /\ g[y] \in Int,
           \A y \in S \ {x} : f[y] = g[y]
    PROVE  SumOf(g, S) = SumOf(f, S) - f[x] + g[x]
<1>1. IsFiniteSet(S \ {x}) /\ S \ {x} \in SUBSET (S \ {x})
  BY FS_Subset
<1>2. SumOf(f, S \ {x}) = SumOf(g, S \ {x})
  BY <1>1, SumSame
<1>3. /\ SumOf(f, S \ {x}) \in Int /\ SumOf(f, S) = f[x] + SumOf(f, S \ {x})
      /\ SumOf(g, S) = g[x] + SumOf(g, S \ {x})
  BY SumWith
<1> QED
  BY <1>2, <1>3

(* A sum of numbers between 0 and n.                                       *)
LEMMA SumBounds ==
    ASSUME NEW S, IsFiniteSet(S), NEW f, NEW n \in Nat, \A x \in S : f[x] \in 0..n
    PROVE  SumOf(f, S) \in 0..Cardinality(S) * n
<1> DEFINE Bad == {T \in SUBSET S : SumOf(f, T) \notin 0..Cardinality(T) * n}
<1> SUFFICES ASSUME Bad # {} PROVE FALSE
  OBVIOUS
<1>1. Bad \in SUBSET (SUBSET S)
  OBVIOUS
<1>2. PICK T \in Bad : \A y \in Bad : y \subseteq T => y = T
  <2> HIDE DEF Bad
  <2> QED
    BY <1>1, Smallest
<1>3. T \in SUBSET S /\ IsFiniteSet(T)
  BY <1>2, FS_Subset
<1>4. T # {}
  <2> SUFFICES ASSUME T = {} PROVE FALSE
    OBVIOUS
  <2>1. Cardinality(T) = 0 /\ SumOf(f, T) = 0
    BY FS_EmptySet, SumEmpty
  <2>2. SumOf(f, T) \notin 0..Cardinality(T) * n
    BY <1>2
  <2>3. 0 * n = 0
    OBVIOUS
  <2> QED
    BY <2>1, <2>2, <2>3
<1> DEFINE x == Pick(T)
           W == T \ {x}
<1>5. x \in T /\ W \in SUBSET S
  BY <1>3, <1>4, Picked
<1>6. SumOf(f, T) = f[x] + SumOf(f, W) /\ SumOf(f, W) \in Int
  BY <1>3, <1>4, <1>5, SumPick, SumInt
<1>7. /\ Cardinality(W) = Cardinality(T) - 1
      /\ Cardinality(T) \in Nat /\ Cardinality(W) \in Nat
  BY <1>3, <1>5, FS_RemoveElement, FS_CardinalityType, FS_Subset
<1>8. SumOf(f, W) \in 0..Cardinality(W) * n
  BY <1>2, <1>5
<1>9. f[x] \in 0..n
  BY <1>3, <1>5
<1>10. Cardinality(T) * n = Cardinality(W) * n + n
  <2> DEFINE cw == Cardinality(W)
             ct == Cardinality(T)
  <2>1. ct \in Nat /\ cw \in Nat /\ ct = cw + 1
    BY <1>7
  <2> HIDE DEF cw, ct
  <2>2. ct * n = cw * n + n
    BY <2>1
  <2> QED
    BY <2>2 DEF cw, ct
<1>11. Cardinality(T) * n \in Nat /\ Cardinality(W) * n \in Nat
  BY <1>7
<1> HIDE DEF x, W
<1>12. SumOf(f, T) \in 0..Cardinality(T) * n
  BY <1>6, <1>8, <1>9, <1>10, <1>11
<1> QED
  BY <1>2, <1>12

(* Zeros may be left out.                                                  *)
LEMMA SumSupport ==
    ASSUME NEW S, IsFiniteSet(S), NEW f, \A x \in S : f[x] \in Int, NEW U \in SUBSET S,
           \A x \in S \ U : f[x] = 0
    PROVE  SumOf(f, S) = SumOf(f, U)
<1> DEFINE Bad == {T \in SUBSET S : U \subseteq T /\ SumOf(f, T) # SumOf(f, U)}
<1> SUFFICES ASSUME Bad # {} PROVE FALSE
  OBVIOUS
<1>1. Bad \in SUBSET (SUBSET S)
  OBVIOUS
<1>2. PICK T \in Bad : \A y \in Bad : y \subseteq T => y = T
  <2> HIDE DEF Bad
  <2> QED
    BY <1>1, Smallest
<1>3. PICK x \in T : x \notin U
  <2>1. T # U /\ U \subseteq T
    BY <1>2
  <2> QED
    BY <2>1
<1>4. SumOf(f, T) = f[x] + SumOf(f, T \ {x}) /\ SumOf(f, T \ {x}) \in Int
  BY <1>2, <1>3, SumAny, SumInt
<1>5. f[x] = 0 /\ T \ {x} \notin Bad /\ U \subseteq T \ {x} /\ T \ {x} \in SUBSET S
  BY <1>2, <1>3
<1>6. SumOf(f, T \ {x}) = SumOf(f, U)
  BY <1>5
<1> QED
  BY <1>2, <1>4, <1>5, <1>6

(* Leaving out numbers that are not negative does not make it larger.      *)
LEMMA SumMonotone ==
    ASSUME NEW S, IsFiniteSet(S), NEW f, \A x \in S : f[x] \in Nat, NEW U \in SUBSET S
    PROVE  SumOf(f, U) \in Nat /\ SumOf(f, U) <= SumOf(f, S)
<1> DEFINE Bad == {T \in SUBSET S : ~ (U \subseteq T => SumOf(f, U) <= SumOf(f, T))
                                    \/ SumOf(f, T) \notin Nat}
<1> SUFFICES ASSUME Bad # {} PROVE FALSE
  OBVIOUS
<1>1. Bad \in SUBSET (SUBSET S)
  OBVIOUS
<1>2. PICK T \in Bad : \A y \in Bad : y \subseteq T => y = T
  <2> HIDE DEF Bad
  <2> QED
    BY <1>1, Smallest
<1>3. T \in SUBSET S /\ IsFiniteSet(T)
  BY <1>2, FS_Subset
<1>4. \A x \in S : f[x] \in Int
  OBVIOUS
<1>5. \A V \in SUBSET S : SumOf(f, V) \in Int
  BY <1>4, SumInt
<1>6. \A x \in T : SumOf(f, T) = f[x] + SumOf(f, T \ {x}) /\ T \ {x} \notin Bad
  BY <1>2, <1>3, <1>4, SumAny
<1>7. \A x \in T : /\ SumOf(f, T \ {x}) \in Nat
                   /\ SumOf(f, T) = f[x] + SumOf(f, T \ {x})
                   /\ U \subseteq T \ {x} => SumOf(f, U) <= SumOf(f, T \ {x})
  BY <1>3, <1>6
<1>8. SumOf(f, T) \in Nat
  <2>1. CASE T = {}
    BY <2>1, SumEmpty
  <2>2. CASE T # {}
    <3>1. PICK x \in T : TRUE
      BY <2>2
    <3>2. f[x] \in Nat /\ SumOf(f, T \ {x}) \in Nat
      BY <1>3, <1>7, <3>1
    <3>3. SumOf(f, T) = f[x] + SumOf(f, T \ {x})
      BY <1>7, <3>1
    <3> QED
      BY <3>2, <3>3
  <2> QED
    BY <2>1, <2>2
<1>9. ASSUME U \subseteq T
      PROVE  SumOf(f, U) <= SumOf(f, T)
  <2>1. CASE U = T
    BY <1>5, <2>1
  <2>2. CASE U # T
    <3>1. PICK x \in T : x \notin U
      BY <1>9, <2>2
    <3>2. f[x] \in Nat /\ SumOf(f, T) = f[x] + SumOf(f, T \ {x})
      BY <1>3, <1>7, <3>1
    <3>3. SumOf(f, T \ {x}) \in Nat /\ SumOf(f, U) <= SumOf(f, T \ {x})
      BY <1>7, <1>9, <3>1
    <3> QED
      BY <1>5, <3>2, <3>3
  <2> QED
    BY <2>1, <2>2
<1> QED
  BY <1>2, <1>8, <1>9

(* Each of the values may have grown by k.                                 *)
LEMMA SumShift ==
    ASSUME NEW S, IsFiniteSet(S), NEW f, NEW g, NEW k \in Nat,
           \A x \in S : f[x] \in Int /\ g[x] \in Int /\ g[x] <= f[x] + k
    PROVE  SumOf(g, S) <= SumOf(f, S) + Cardinality(S) * k
<1> DEFINE Bad == {T \in SUBSET S : ~ (SumOf(g, T) <= SumOf(f, T) + Cardinality(T) * k)}
<1> SUFFICES ASSUME Bad # {} PROVE FALSE
  OBVIOUS
<1>1. Bad \in SUBSET (SUBSET S)
  OBVIOUS
<1>2. PICK T \in Bad : \A y \in Bad : y \subseteq T => y = T
  <2> HIDE DEF Bad
  <2> QED
    BY <1>1, Smallest
<1>3. T \in SUBSET S /\ IsFiniteSet(T)
  BY <1>2, FS_Subset
<1>4. \A x \in S : f[x] \in Int /\ g[x] \in Int
  OBVIOUS
<1>5. T # {}
  <2> SUFFICES ASSUME T = {} PROVE FALSE
    OBVIOUS
  <2>1. Cardinality(T) = 0 /\ SumOf(f, T) = 0 /\ SumOf(g, T) = 0
    BY FS_EmptySet, SumEmpty
  <2>2. ~ (SumOf(g, T) <= SumOf(f, T) + Cardinality(T) * k)
    BY <1>2
  <2>3. 0 * k = 0
    OBVIOUS
  <2> QED
    BY <2>1, <2>2, <2>3
<1>6. PICK x \in T : TRUE
  BY <1>5
<1> DEFINE W == T \ {x}
<1>7. /\ SumOf(f, T) = f[x] + SumOf(f, W) /\ SumOf(f, W) \in Int
      /\ SumOf(g, T) = g[x] + SumOf(g, W) /\ SumOf(g, W) \in Int
  BY <1>3, <1>4, <1>6, SumAny, SumInt
<1>8. /\ Cardinality(T) = Cardinality(W) + 1
      /\ Cardinality(T) \in Nat /\ Cardinality(W) \in Nat
  BY <1>3, <1>6, FS_RemoveElement, FS_CardinalityType, FS_Subset
<1>9. SumOf(g, W) <= SumOf(f, W) + Cardinality(W) * k
  <2>1. W \in SUBSET S /\ W \notin Bad
    BY <1>2, <1>3, <1>6
  <2> QED
    BY <2>1
<1>10. Cardinality(T) * k = Cardinality(W) * k + k
  <2> DEFINE cw == Cardinality(W)
             ct == Cardinality(T)
  <2>1. ct \in Nat /\ cw \in Nat /\ ct = cw + 1
    BY <1>8
  <2> HIDE DEF cw, ct
  <2>2. ct * k = cw * k + k
    BY <2>1
  <2> QED
    BY <2>2 DEF cw, ct
<1>11. Cardinality(T) * k \in Nat /\ Cardinality(W) * k \in Nat
  BY <1>8
<1>12. f[x] \in Int /\ g[x] \in Int /\ g[x] <= f[x] + k
  BY <1>3, <1>6
<1> HIDE DEF W
<1>13. SumOf(g, T) <= SumOf(f, T) + Cardinality(T) * k
  BY <1>7, <1>9, <1>10, <1>11, <1>12
<1> QED
  BY <1>2, <1>13
=============================================================================
