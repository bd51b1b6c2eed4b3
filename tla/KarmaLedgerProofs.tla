------------------------- MODULE KarmaLedgerProofs -------------------------
(***************************************************************************)
(* Proofs about KarmaLedger.  The first part is about sums: no induction     *)
(* theorem with an operator parameter is used, a set of the subsets for     *)
(* which the claim holds takes its place.                                   *)
(***************************************************************************)
EXTENDS KarmaLedger, FiniteSetTheorems, TLAPS

-----------------------------------------------------------------------------
(* Sums over finite sets *)

(* A collection that contains a subset of S once it contains all the smaller   *)
(* ones contains every subset of S.                                           *)
LEMMA SmallerFirst ==
  ASSUME NEW S, IsFiniteSet(S), NEW A,
         \A T \in SUBSET S : (\A U \in SUBSET T : U # T => U \in A) => T \in A
  PROVE  SUBSET S \subseteq A
<1> DEFINE Bad == {T \in SUBSET S : T \notin A}
<1> SUFFICES ASSUME Bad # {} PROVE FALSE
  OBVIOUS
<1>1. IsWellFoundedOn(StrictSubsetOrdering(S), SUBSET S)
  <2>1. FiniteSubsetsOf(S) = SUBSET S
    BY FS_FiniteSubsetsOfFinite
  <2>2. IsWellFoundedOn(StrictSubsetOrdering(S), FiniteSubsetsOf(S))
    BY FS_StrictSubsetOrderingWellFounded
  <2> QED BY <2>1, <2>2
<1>2. PICK T \in Bad : \A U \in Bad : <<U, T>> \notin StrictSubsetOrdering(S)
  <2>1. Bad \subseteq SUBSET S
    OBVIOUS
  <2> HIDE DEF Bad
  <2> QED BY <1>1, <2>1, WFMin
<1>3. \A U \in SUBSET T : U # T => U \in A
  BY <1>2 DEF StrictSubsetOrdering
<1> QED BY <1>2, <1>3

(* The recursive function inside SumFunctionOnSet                              *)
Any(T)         == CHOOSE x \in T : TRUE
Step(f, g, T)  == IF T = {} THEN 0 ELSE f[Any(T)] + g[T \ {Any(T)}]
Sums(f, g, S)  == g = [T \in SUBSET S |-> Step(f, g, T)]
SumsOf(f, S)   == CHOOSE g : Sums(f, g, S)

LEMMA SumUnfolded ==
  ASSUME NEW f, NEW S PROVE SumFunctionOnSet(f, S) = SumsOf(f, S)[S]
BY DEF SumFunctionOnSet, FoldFunctionOnSet, MapThenFoldSet, SumsOf, Sums, Step, Any

LEMMA AnyIn == ASSUME NEW T, T # {} PROVE Any(T) \in T
BY DEF Any

LEMMA SumsUnique ==
  ASSUME NEW f, NEW g, NEW h, NEW S, NEW T, NEW U, IsFiniteSet(U),
         U \subseteq S, U \subseteq T, Sums(f, g, S), Sums(f, h, T)
  PROVE  g[U] = h[U]
<1> DEFINE A == {V \in SUBSET U : g[V] = h[V]}
<1>1. ASSUME NEW V \in SUBSET U, \A W \in SUBSET V : W # V => W \in A
      PROVE  V \in A
  <2>1. g[V] = Step(f, g, V) /\ h[V] = Step(f, h, V)
    BY DEF Sums
  <2>2. V # {} => g[V \ {Any(V)}] = h[V \ {Any(V)}]
    BY <1>1, AnyIn
  <2> QED BY <2>1, <2>2 DEF Step
<1>2. SUBSET U \subseteq A
  <2> HIDE DEF A
  <2> QED BY <1>1, SmallerFirst
<1> QED BY <1>2

LEMMA SumsExist ==
  ASSUME NEW f, NEW S, IsFiniteSet(S)
  PROVE  Sums(f, SumsOf(f, S), S)
<1> DEFINE A == {T \in SUBSET S : Sums(f, SumsOf(f, T), T)}
<1>1. ASSUME NEW T \in SUBSET S, \A U \in SUBSET T : U # T => U \in A
      PROVE  T \in A
  <2> DEFINE Rest(U) == U \ {Any(U)}
             k == [U \in SUBSET T |-> IF U = {} THEN 0
                                      ELSE f[Any(U)] + SumsOf(f, Rest(U))[Rest(U)]]
  <2>1. ASSUME NEW U \in SUBSET T, U # {}
        PROVE  k[Rest(U)] = SumsOf(f, Rest(U))[Rest(U)]
    <3> DEFINE W == Rest(U)
    <3>1. W \in SUBSET T /\ W # T /\ IsFiniteSet(W)
      BY <2>1, AnyIn, FS_Subset
    <3>2. Sums(f, SumsOf(f, W), W)
      BY <1>1, <3>1
    <3>3. SumsOf(f, W)[W] = Step(f, SumsOf(f, W), W)
      BY <3>2 DEF Sums
    <3>4. CASE W = {}
      BY <3>1, <3>3, <3>4 DEF Step
    <3>5. CASE W # {}
      <4>1. /\ Rest(W) \in SUBSET T /\ Rest(W) # T /\ IsFiniteSet(Rest(W))
            /\ Rest(W) \subseteq W
        BY <3>1, <3>5, AnyIn, FS_Subset
      <4>2. Sums(f, SumsOf(f, Rest(W)), Rest(W))
        BY <1>1, <4>1
      <4>3. SumsOf(f, W)[Rest(W)] = SumsOf(f, Rest(W))[Rest(W)]
        <5> HIDE DEF W, Rest
        <5> QED BY <3>2, <4>1, <4>2, SumsUnique
      <4>4. k[W] = f[Any(W)] + SumsOf(f, Rest(W))[Rest(W)]
        BY <3>1, <3>5
      <4> QED BY <3>3, <3>5, <4>3, <4>4 DEF Step
    <3> QED BY <3>4, <3>5
  <2>2. Sums(f, k, T)
    <3>1. ASSUME NEW U \in SUBSET T PROVE k[U] = Step(f, k, U)
      BY <2>1 DEF Step
    <3> QED BY <3>1 DEF Sums
  <2>3. Sums(f, SumsOf(f, T), T)
    <3> HIDE DEF k
    <3> QED BY <2>2 DEF SumsOf
  <2> QED BY <2>3
<1>2. SUBSET S \subseteq A
  <2> HIDE DEF A
  <2> QED BY <1>1, SmallerFirst
<1> QED BY <1>2

LEMMA SumEmpty ==
  ASSUME NEW f PROVE SumFunctionOnSet(f, {}) = 0
<1>1. Sums(f, SumsOf(f, {}), {})
  BY SumsExist, FS_EmptySet
<1>2. SumsOf(f, {})[{}] = 0
  BY <1>1 DEF Sums, Step
<1> QED BY <1>2, SumUnfolded

LEMMA SumNext ==
  ASSUME NEW f, NEW S, IsFiniteSet(S), S # {}
  PROVE  SumFunctionOnSet(f, S) = f[Any(S)] + SumFunctionOnSet(f, S \ {Any(S)})
<1> DEFINE R == S \ {Any(S)}
<1>1. Sums(f, SumsOf(f, S), S)
  BY SumsExist
<1>2. IsFiniteSet(R)
  BY FS_Subset
<1>3. Sums(f, SumsOf(f, R), R)
  BY <1>2, SumsExist
<1>4. SumsOf(f, S)[R] = SumsOf(f, R)[R]
  BY <1>1, <1>2, <1>3, SumsUnique
<1>5. SumsOf(f, S)[S] = f[Any(S)] + SumsOf(f, S)[R]
  BY <1>1 DEF Sums, Step
<1> QED BY <1>4, <1>5, SumUnfolded

(* What is summed decides the sum, not how the function is written.           *)
LEMMA SumSame ==
  ASSUME NEW f, NEW g, NEW S, IsFiniteSet(S), \A x \in S : f[x] = g[x]
  PROVE  SumFunctionOnSet(f, S) = SumFunctionOnSet(g, S)
<1> DEFINE A == {T \in SUBSET S : SumFunctionOnSet(f, T) = SumFunctionOnSet(g, T)}
<1>1. ASSUME NEW T \in SUBSET S, \A U \in SUBSET T : U # T => U \in A
      PROVE  T \in A
  <2>1. CASE T = {}
    BY <2>1, SumEmpty
  <2>2. CASE T # {}
    <3>1. Any(T) \in T /\ IsFiniteSet(T)
      BY <2>2, AnyIn, FS_Subset
    <3>2. T \ {Any(T)} \in A
      BY <1>1, <3>1
    <3> QED BY <2>2, <3>1, <3>2, SumNext
  <2> QED BY <2>1, <2>2
<1>2. SUBSET S \subseteq A
  <2> HIDE DEF A
  <2> QED BY <1>1, SmallerFirst
<1> QED BY <1>2

LEMMA SumInt ==
  ASSUME NEW f, NEW S, IsFiniteSet(S), \A x \in S : f[x] \in Int
  PROVE  SumFunctionOnSet(f, S) \in Int
<1> DEFINE A == {T \in SUBSET S : SumFunctionOnSet(f, T) \in Int}
<1>1. ASSUME NEW T \in SUBSET S, \A U \in SUBSET T : U # T => U \in A
      PROVE  T \in A
  <2>1. CASE T = {}
    BY <2>1, SumEmpty
  <2>2. CASE T # {}
    <3>1. Any(T) \in T /\ IsFiniteSet(T)
      BY <2>2, AnyIn, FS_Subset
    <3>2. T \ {Any(T)} \in A
      BY <1>1, <3>1
    <3> QED BY <2>2, <3>1, <3>2, SumNext
  <2> QED BY <2>1, <2>2
<1>2. SUBSET S \subseteq A
  <2> HIDE DEF A
  <2> QED BY <1>1, SmallerFirst
<1> QED BY <1>2

(* Any element may be taken out first.                                        *)
LEMMA SumWithout ==
  ASSUME NEW f, NEW S, IsFiniteSet(S), \A x \in S : f[x] \in Int, NEW y \in S
  PROVE  SumFunctionOnSet(f, S) = f[y] + SumFunctionOnSet(f, S \ {y})
<1> DEFINE A == {T \in SUBSET S : \A x \in T :
                   SumFunctionOnSet(f, T) = f[x] + SumFunctionOnSet(f, T \ {x})}
<1>1. ASSUME NEW T \in SUBSET S, \A U \in SUBSET T : U # T => U \in A
      PROVE  T \in A
  <2> SUFFICES ASSUME NEW x \in T
               PROVE  SumFunctionOnSet(f, T) = f[x] + SumFunctionOnSet(f, T \ {x})
    OBVIOUS
  <2> DEFINE z == Any(T)
  <2>1. z \in T /\ IsFiniteSet(T)
    BY AnyIn, FS_Subset
  <2>2. SumFunctionOnSet(f, T) = f[z] + SumFunctionOnSet(f, T \ {z})
    BY <2>1, SumNext
  <2> HIDE DEF z
  <2>3. CASE x = z
    BY <2>2, <2>3
  <2>4. CASE x # z
    <3> DEFINE W == (T \ {z}) \ {x}
    <3>1. SumFunctionOnSet(f, T \ {z}) = f[x] + SumFunctionOnSet(f, W)
      BY <1>1, <2>1, <2>4
    <3>2. SumFunctionOnSet(f, T \ {x}) = f[z] + SumFunctionOnSet(f, W)
      <4>1. W = (T \ {x}) \ {z}
        OBVIOUS
      <4>2. SumFunctionOnSet(f, T \ {x}) = f[z] + SumFunctionOnSet(f, (T \ {x}) \ {z})
        BY <1>1, <2>1, <2>4
      <4> HIDE DEF W
      <4> QED BY <4>1, <4>2
    <3>4. W \in SUBSET T
      OBVIOUS
    <3>5. SumFunctionOnSet(f, W) \in Int
      <4>1. \A w \in W : f[w] \in Int
        OBVIOUS
      <4> HIDE DEF W
      <4>2. IsFiniteSet(W)
        BY <2>1, <3>4, FS_Subset
      <4> QED BY <4>1, <4>2, SumInt
    <3>6. f[x] \in Int /\ f[z] \in Int
      BY <2>1
    <3> HIDE DEF W
    <3> QED BY <2>2, <3>1, <3>2, <3>5, <3>6
  <2> QED BY <2>3, <2>4
<1>2. SUBSET S \subseteq A
  <2> HIDE DEF A
  <2> QED BY <1>1, SmallerFirst
<1> QED BY <1>2

LEMMA SumNat ==
  ASSUME NEW f, NEW S, IsFiniteSet(S), \A x \in S : f[x] \in Nat
  PROVE  SumFunctionOnSet(f, S) \in Nat
<1> DEFINE A == {T \in SUBSET S : SumFunctionOnSet(f, T) \in Nat}
<1>1. ASSUME NEW T \in SUBSET S, \A U \in SUBSET T : U # T => U \in A
      PROVE  T \in A
  <2>1. CASE T = {}
    BY <2>1, SumEmpty
  <2>2. CASE T # {}
    <3>1. Any(T) \in T /\ IsFiniteSet(T)
      BY <2>2, AnyIn, FS_Subset
    <3>2. T \ {Any(T)} \in A
      BY <1>1, <3>1
    <3> QED BY <2>2, <3>1, <3>2, SumNext
  <2> QED BY <2>1, <2>2
<1>2. SUBSET S \subseteq A
  <2> HIDE DEF A
  <2> QED BY <1>1, SmallerFirst
<1> QED BY <1>2

(* Sums add up term by term.                                                  *)
LEMMA SumPlus ==
  ASSUME NEW f, NEW g, NEW h, NEW S, IsFiniteSet(S),
         \A x \in S : f[x] \in Int /\ g[x] \in Int /\ h[x] = f[x] + g[x]
  PROVE  SumFunctionOnSet(h, S) = SumFunctionOnSet(f, S) + SumFunctionOnSet(g, S)
<1> DEFINE A == {T \in SUBSET S : SumFunctionOnSet(h, T)
                   = SumFunctionOnSet(f, T) + SumFunctionOnSet(g, T)}
<1>1. ASSUME NEW T \in SUBSET S, \A U \in SUBSET T : U # T => U \in A
      PROVE  T \in A
  <2>1. CASE T = {}
    BY <2>1, SumEmpty
  <2>2. CASE T # {}
    <3>1. Any(T) \in T /\ IsFiniteSet(T)
      BY <2>2, AnyIn, FS_Subset
    <3> DEFINE z == Any(T)
               W == T \ {z}
    <3>2. W \in A /\ IsFiniteSet(W) /\ W \subseteq S
      BY <1>1, <3>1, FS_Subset
    <3>3. /\ SumFunctionOnSet(h, T) = h[z] + SumFunctionOnSet(h, W)
          /\ SumFunctionOnSet(f, T) = f[z] + SumFunctionOnSet(f, W)
          /\ SumFunctionOnSet(g, T) = g[z] + SumFunctionOnSet(g, W)
      BY <2>2, <3>1, SumNext
    <3>4. f[z] \in Int /\ g[z] \in Int /\ h[z] = f[z] + g[z]
      BY <3>1
    <3> HIDE DEF W, z
    <3>5. SumFunctionOnSet(f, W) \in Int /\ SumFunctionOnSet(g, W) \in Int
      BY <3>2, SumInt
    <3> QED BY <3>2, <3>3, <3>4, <3>5
  <2> QED BY <2>1, <2>2
<1>2. SUBSET S \subseteq A
  <2> HIDE DEF A
  <2> QED BY <1>1, SmallerFirst
<1> QED BY <1>2

LEMMA SumConstant ==
  ASSUME NEW f, NEW S, IsFiniteSet(S), NEW c \in Int, \A x \in S : f[x] = c
  PROVE  SumFunctionOnSet(f, S) = Cardinality(S) * c
<1> DEFINE A == {T \in SUBSET S : SumFunctionOnSet(f, T) = Cardinality(T) * c}
<1>1. ASSUME NEW T \in SUBSET S, \A U \in SUBSET T : U # T => U \in A
      PROVE  T \in A
  <2>1. CASE T = {}
    BY <2>1, SumEmpty, FS_EmptySet
  <2>2. CASE T # {}
    <3>1. Any(T) \in T /\ IsFiniteSet(T)
      BY <2>2, AnyIn, FS_Subset
    <3> DEFINE z == Any(T)
               W == T \ {z}
    <3>2. W \in A /\ IsFiniteSet(W)
      BY <1>1, <3>1, FS_Subset
    <3>3. SumFunctionOnSet(f, T) = c + SumFunctionOnSet(f, W)
      BY <2>2, <3>1, SumNext
    <3>4. /\ Cardinality(W) = Cardinality(T) - 1
          /\ Cardinality(T) \in Nat /\ Cardinality(W) \in Nat
      BY <3>1, <3>2, FS_RemoveElement, FS_CardinalityType
    <3>5. SumFunctionOnSet(f, W) = Cardinality(W) * c
      BY <3>2
    <3> HIDE DEF W, A
    <3> QED
      <4>1. Cardinality(T) * c = Cardinality(W) * c + c
        BY <3>4
      <4> QED BY <3>3, <3>5, <4>1, <3>4 DEF A
  <2> QED BY <2>1, <2>2
<1>2. SUBSET S \subseteq A
  <2> HIDE DEF A
  <2> QED BY <1>1, SmallerFirst
<1> QED BY <1>2

(* Terms that are zero may be left out.                                       *)
LEMMA SumZeros ==
  ASSUME NEW f, NEW S, IsFiniteSet(S), \A x \in S : f[x] \in Int,
         NEW R, R \subseteq S, \A x \in S \ R : f[x] = 0
  PROVE  SumFunctionOnSet(f, S) = SumFunctionOnSet(f, R)
<1> DEFINE A == {T \in SUBSET S : SumFunctionOnSet(f, T) = SumFunctionOnSet(f, T \cap R)}
<1>1. ASSUME NEW T \in SUBSET S, \A U \in SUBSET T : U # T => U \in A
      PROVE  T \in A
  <2>1. CASE T \subseteq R
    <3>1. T \cap R = T
      BY <2>1
    <3> QED BY <3>1
  <2>2. CASE ~(T \subseteq R)
    <3>1. PICK x \in T : x \notin R
      BY <2>2
    <3>2. IsFiniteSet(T)
      BY FS_Subset
    <3>3. SumFunctionOnSet(f, T) = f[x] + SumFunctionOnSet(f, T \ {x})
      BY <3>2, SumWithout
    <3>4. SumFunctionOnSet(f, T \ {x}) = SumFunctionOnSet(f, T \cap R)
      <4>1. T \ {x} \in A /\ (T \ {x}) \cap R = T \cap R
        BY <1>1, <3>1
      <4>2. SumFunctionOnSet(f, T \ {x}) = SumFunctionOnSet(f, (T \ {x}) \cap R)
        BY <4>1
      <4> QED BY <4>1, <4>2
    <3>5. SumFunctionOnSet(f, T \cap R) \in Int
      <4> DEFINE V == T \cap R
      <4>1. V \in SUBSET S /\ \A y \in V : f[y] \in Int
        OBVIOUS
      <4> HIDE DEF V
      <4>2. SumFunctionOnSet(f, V) \in Int
        BY <4>1, FS_Subset, SumInt
      <4> QED BY <4>2 DEF V
    <3>6. f[x] = 0
      BY <3>1
    <3> QED BY <3>3, <3>4, <3>5, <3>6
  <2> QED BY <2>1, <2>2
<1>2. SUBSET S \subseteq A
  <2> HIDE DEF A
  <2> QED BY <1>1, SmallerFirst
<1>3. S \cap R = R
  OBVIOUS
<1> QED BY <1>2, <1>3

(* A sum may be taken by owner.                                               *)
LEMMA SumByOwner ==
  ASSUME NEW f, NEW S, IsFiniteSet(S), \A x \in S : f[x] \in Int,
         NEW I, IsFiniteSet(I), NEW o, \A x \in S : o[x] \in I
  PROVE  SumFunctionOnSet(f, S)
         = SumFunctionOnSet([i \in I |-> SumFunctionOnSet(f, {x \in S : o[x] = i})], I)
<1> DEFINE Of(T, i) == {x \in T : o[x] = i}
           By(T) == [i \in I |-> SumFunctionOnSet(f, Of(T, i))]
<1> DEFINE A == {T \in SUBSET S : SumFunctionOnSet(f, T) = SumFunctionOnSet(By(T), I)}
<1>1. ASSUME NEW T \in SUBSET S, \A U \in SUBSET T : U # T => U \in A
      PROVE  T \in A
  <2>1. CASE T = {}
    <3>1. \A i \in I : Of(T, i) = {}
      BY <2>1
    <3>2. \A i \in I : By(T)[i] = 0
      BY <3>1, SumEmpty
    <3>3. SumFunctionOnSet(By(T), I) = Cardinality(I) * 0
      <4> HIDE DEF By
      <4> QED BY <3>2, SumConstant
    <3>4. Cardinality(I) \in Nat
      BY FS_CardinalityType
    <3> QED BY <2>1, <3>3, <3>4, SumEmpty
  <2>2. CASE T # {}
    <3>1. PICK z \in T : TRUE
      BY <2>2
    <3> DEFINE W == T \ {z}
               point == [i \in I |-> IF i = o[z] THEN f[z] ELSE 0]
    <3>2. IsFiniteSet(T) /\ W \in A
      BY <1>1, <3>1, FS_Subset
    <3>3. SumFunctionOnSet(f, T) = f[z] + SumFunctionOnSet(f, W)
      BY <3>2, SumWithout
    <3>4. \A i \in I : Of(T, i) \in SUBSET S /\ Of(W, i) \in SUBSET S
      OBVIOUS
    <3>5. \A V \in SUBSET S : IsFiniteSet(V) /\ SumFunctionOnSet(f, V) \in Int
      <4> SUFFICES ASSUME NEW V \in SUBSET S
                   PROVE  IsFiniteSet(V) /\ SumFunctionOnSet(f, V) \in Int
        OBVIOUS
      <4>1. IsFiniteSet(V)
        BY FS_Subset
      <4> QED BY <4>1, SumInt
    <3>6. ASSUME NEW i \in I PROVE By(T)[i] = By(W)[i] + point[i]
      <4>1. CASE i = o[z]
        <5>1. z \in Of(T, i) /\ Of(W, i) = Of(T, i) \ {z} /\ \A x \in Of(T, i) : f[x] \in Int
          BY <4>1
        <5>2. IsFiniteSet(Of(T, i)) /\ SumFunctionOnSet(f, Of(W, i)) \in Int
          BY <3>4, <3>5
        <5>3. f[z] \in Int
          OBVIOUS
        <5> HIDE DEF Of, W
        <5>4. SumFunctionOnSet(f, Of(T, i)) = f[z] + SumFunctionOnSet(f, Of(W, i))
          BY <5>1, <5>2, SumWithout
        <5> QED BY <4>1, <5>2, <5>3, <5>4
      <4>2. CASE i # o[z]
        <5>1. Of(W, i) = Of(T, i)
          BY <4>2
        <5>2. SumFunctionOnSet(f, Of(W, i)) \in Int
          BY <3>4, <3>5
        <5> HIDE DEF Of, W
        <5> QED BY <4>2, <5>1, <5>2
      <4> QED BY <4>1, <4>2
    <3>7. \A i \in I : By(W)[i] \in Int /\ point[i] \in Int
      BY <3>4, <3>5
    <3>8. SumFunctionOnSet(By(T), I) = SumFunctionOnSet(By(W), I) + SumFunctionOnSet(point, I)
      <4> HIDE DEF By, point, W
      <4> QED BY <3>6, <3>7, SumPlus
    <3>9. SumFunctionOnSet(point, I) = f[z]
      <4>1. o[z] \in I /\ f[z] \in Int
        OBVIOUS
      <4>2. /\ {o[z]} \subseteq I
            /\ \A i \in I : point[i] \in Int
            /\ \A i \in I \ {o[z]} : point[i] = 0
            /\ \A i \in {o[z]} : point[i] = f[z]
        BY <4>1
      <4> HIDE DEF point
      <4>3. SumFunctionOnSet(point, I) = SumFunctionOnSet(point, {o[z]})
        BY <4>2, SumZeros
      <4>4. IsFiniteSet({o[z]}) /\ Cardinality({o[z]}) = 1
        BY FS_Singleton
      <4>5. SumFunctionOnSet(point, {o[z]}) = Cardinality({o[z]}) * f[z]
        BY <4>1, <4>2, <4>4, SumConstant
      <4> QED BY <4>1, <4>3, <4>4, <4>5
    <3>10. SumFunctionOnSet(f, W) = SumFunctionOnSet(By(W), I) /\ SumFunctionOnSet(f, W) \in Int
      BY <3>2, <3>5
    <3>11. f[z] \in Int
      OBVIOUS
    <3>12. SumFunctionOnSet(f, T) = SumFunctionOnSet(By(T), I)
      <4> HIDE DEF By, W, point
      <4> QED BY <3>3, <3>8, <3>9, <3>10, <3>11
    <3> QED BY <3>12
  <2> QED BY <2>1, <2>2
<1>2. SUBSET S \subseteq A
  <2> HIDE DEF A
  <2> QED BY <1>1, SmallerFirst
<1> QED BY <1>2

(* Renaming what is summed over changes nothing.                              *)
LEMMA SumRenamed ==
  ASSUME NEW f, NEW g, NEW b, NEW S, IsFiniteSet(S),
         \A x \in S : f[b[x]] \in Int /\ g[x] = f[b[x]],
         \A x, y \in S : b[x] = b[y] => x = y
  PROVE  SumFunctionOnSet(g, S) = SumFunctionOnSet(f, {b[x] : x \in S})
<1> DEFINE Im(T) == {b[x] : x \in T}
           A == {T \in SUBSET S : /\ IsFiniteSet(Im(T))
                                  /\ SumFunctionOnSet(g, T) = SumFunctionOnSet(f, Im(T))}
<1>1. ASSUME NEW T \in SUBSET S, \A U \in SUBSET T : U # T => U \in A
      PROVE  T \in A
  <2>1. CASE T = {}
    <3>1. Im(T) = {}
      BY <2>1
    <3> QED BY <2>1, <3>1, SumEmpty, FS_EmptySet
  <2>2. CASE T # {}
    <3>1. PICK z \in T : TRUE
      BY <2>2
    <3> DEFINE W == T \ {z}
    <3>2. IsFiniteSet(T) /\ W \in A
      BY <1>1, <3>1, FS_Subset
    <3>3. /\ Im(T) = Im(W) \cup {b[z]} /\ b[z] \notin Im(W) /\ b[z] \in Im(T)
          /\ Im(T) \ {b[z]} = Im(W)
          /\ \A y \in Im(T) : f[y] \in Int
      BY <3>1
    <3>4. SumFunctionOnSet(g, T) = f[b[z]] + SumFunctionOnSet(g, W)
      BY <3>2, SumWithout
    <3>5. IsFiniteSet(Im(W)) /\ SumFunctionOnSet(g, W) = SumFunctionOnSet(f, Im(W))
      BY <3>2
    <3> HIDE DEF Im, W
    <3>6. IsFiniteSet(Im(T))
      BY <3>3, <3>5, FS_AddElement
    <3>7. SumFunctionOnSet(f, Im(T)) = f[b[z]] + SumFunctionOnSet(f, Im(W))
      BY <3>3, <3>6, SumWithout
    <3> QED BY <3>4, <3>5, <3>6, <3>7
  <2> QED BY <2>1, <2>2
<1>2. SUBSET S \subseteq A
  <2> HIDE DEF A
  <2> QED BY <1>1, SmallerFirst
<1> QED BY <1>2

(* SumFunction over a domain: its type, one changed point, one sum of two      *)
LEMMA SumTyped ==
  ASSUME NEW S, IsFiniteSet(S), NEW f \in [S -> Int]
  PROVE  SumFunction(f) \in Int /\ SumFunction(f) = SumFunctionOnSet(f, S)
BY SumInt DEF SumFunction

LEMMA SumChanged ==
  ASSUME NEW S, IsFiniteSet(S), NEW f \in [S -> Int], NEW g \in [S -> Int], NEW y \in S,
         \A x \in S \ {y} : g[x] = f[x]
  PROVE  SumFunction(g) = SumFunction(f) - f[y] + g[y]
<1>1. IsFiniteSet(S \ {y})
  BY FS_Subset
<1>2. SumFunctionOnSet(g, S \ {y}) = SumFunctionOnSet(f, S \ {y})
  BY <1>1, SumSame
<1>3. /\ SumFunction(f) = f[y] + SumFunctionOnSet(f, S \ {y})
      /\ SumFunction(g) = g[y] + SumFunctionOnSet(g, S \ {y})
  BY SumWithout DEF SumFunction
<1>4. SumFunctionOnSet(f, S \ {y}) \in Int
  <2>1. \A x \in S \ {y} : f[x] \in Int
    OBVIOUS
  <2> QED BY <1>1, <2>1, SumInt
<1>5. f[y] \in Int /\ g[y] \in Int
  OBVIOUS
<1> QED BY <1>2, <1>3, <1>4, <1>5

LEMMA SumShifted ==
  ASSUME NEW S, IsFiniteSet(S), NEW f \in [S -> Int], NEW g \in [S -> Int], NEW y \in S,
         NEW n \in Int, g[y] = f[y] + n, \A x \in S \ {y} : g[x] = f[x]
  PROVE  SumFunction(g) = SumFunction(f) + n
<1>1. f[y] \in Int /\ SumFunction(f) \in Int
  BY SumTyped
<1>2. SumFunction(g) = SumFunction(f) - f[y] + g[y]
  BY SumChanged
<1> QED BY <1>1, <1>2

AddsUp(S, f, g, h) ==
  /\ f \in [S -> Int] /\ g \in [S -> Int] /\ h \in [S -> Int]
  /\ \A x \in S : h[x] = f[x] + g[x]

LEMMA SumAdded ==
  ASSUME NEW S, IsFiniteSet(S), NEW f, NEW g, NEW h, AddsUp(S, f, g, h)
  PROVE  SumFunction(h) = SumFunction(f) + SumFunction(g)
BY SumPlus DEF SumFunction, AddsUp

(* Amounts g of the members of R, paid to their owners o: h[i] is what i gets   *)
PaysOut(S, I, R, g, o, h) ==
  /\ R \subseteq S /\ g \in [S -> Int] /\ \A x \in S \ R : g[x] = 0
  /\ \A x \in R : o[x] \in I
  /\ h \in [I -> Int] /\ \A i \in I : h[i] = SumFunctionOnSet(g, {x \in R : o[x] = i})

LEMMA SumPaidOut ==
  ASSUME NEW S, IsFiniteSet(S), NEW I, IsFiniteSet(I), NEW R, NEW g, NEW o, NEW h,
         PaysOut(S, I, R, g, o, h)
  PROVE  SumFunction(h) = SumFunction(g)
<1> USE DEF PaysOut
<1> DEFINE k == [i \in I |-> SumFunctionOnSet(g, {x \in R : o[x] = i})]
<1>1. IsFiniteSet(R) /\ \A x \in R : g[x] \in Int
  BY FS_Subset
<1>2. SumFunctionOnSet(g, R) = SumFunctionOnSet(k, I)
  BY <1>1, SumByOwner
<1>3. SumFunctionOnSet(g, S) = SumFunctionOnSet(g, R)
  <2>1. \A x \in S : g[x] \in Int
    OBVIOUS
  <2> QED BY <2>1, SumZeros
<1>4. \A i \in I : h[i] = k[i]
  OBVIOUS
<1>5. SumFunctionOnSet(h, I) = SumFunctionOnSet(k, I)
  <2> HIDE DEF k
  <2> QED BY <1>4, SumSame
<1>6. DOMAIN h = I /\ DOMAIN g = S
  OBVIOUS
<1> QED BY <1>2, <1>3, <1>5, <1>6 DEF SumFunction

-----------------------------------------------------------------------------
(* Arithmetic *)

LEMMA DivMod ==
  ASSUME NEW a \in Int, NEW d \in Nat \ {0}
  PROVE  /\ a \div d \in Int /\ (a % d) \in Nat /\ (a % d) < d
         /\ a % d = a - d * (a \div d)
         /\ a \in Nat => a \div d \in Nat
OBVIOUS

(* Whole intervals of two consecutive stretches fit into the stretch of both.  *)
LEMMA DivParts ==
  ASSUME NEW a \in Int, NEW b \in Int, NEW d \in Nat \ {0}
  PROVE  (a \div d) + (b \div d) <= (a + b) \div d
OBVIOUS

LEMMA DivMonotone ==
  ASSUME NEW a \in Int, NEW b \in Int, NEW d \in Nat \ {0}, a <= b
  PROVE  a \div d <= b \div d
OBVIOUS

LEMMA TimesMonotone ==
  ASSUME NEW a \in Int, NEW b \in Int, NEW c \in Nat, a <= b
  PROVE  a * c <= b * c
OBVIOUS

LEMMA LeastMost ==
  ASSUME NEW a \in Int, NEW b \in Int
  PROVE  /\ Least(a, b) \in Int /\ Least(a, b) <= a /\ Least(a, b) <= b
         /\ Most(a, b) \in Int /\ a <= Most(a, b) /\ b <= Most(a, b)
         /\ Least(a, b) \in {a, b} /\ Most(a, b) \in {a, b}
BY DEF Least, Most

LEMMA Amounts ==
  /\ LikeCost \in Nat \ {0} /\ LikesPerPayout \in Nat \ {0} /\ UnlockPerLikes \in Nat \ {0}
  /\ LockCost \in Nat \ {0} /\ VouchAmount \in Nat \ {0} /\ CooldownBlocks \in Nat \ {0}
  /\ StaleThreshold \in Nat \ {0} /\ DecayInterval \in Nat \ {0}
  /\ DecayAmount \in Nat \ {0} /\ GrantAmount \in Nat \ {0}
  /\ KarmaMinimum \in Nat /\ SystemKarma \in Nat /\ MaxHeight \in Nat /\ MaxTxs \in Nat
BY AmountsAssumption

-----------------------------------------------------------------------------
(* What the settlement computes *)

LEMMA LockTyped ==
  ASSUME TypeOK, NEW p \in Post, Locked(p)
  PROVE  LockOf(p) \in LockBox /\ LockOf(p).value \in Nat /\ LockOf(p).original \in Nat
         /\ LockOf(p).owner \in Identity
<1>1. locks[p] \in Seq(LockBox) /\ locks[p] # << >>
  BY DEF TypeOK, Locked
<1>2. Head(locks[p]) \in LockBox
  BY <1>1
<1> QED BY <1>2 DEF LockOf, LockBox

LEMMA LikesFinite ==
  ASSUME TypeOK, NEW p \in Post
  PROVE  IsFiniteSet(likes[p]) /\ Cardinality(likes[p]) \in Nat
<1>1. likes[p] \in SUBSET Identity
  BY DEF TypeOK
<1>2. IsFiniteSet(likes[p])
  BY <1>1, SetsAssumption, FS_Subset
<1> QED BY <1>2, FS_CardinalityType

LEMMA ToUnlockTyped ==
  ASSUME TypeOK, NEW p \in Post
  PROVE  /\ ToUnlock(p) \in Nat
         /\ ToUnlock(p) > 0 => Locked(p) /\ ToUnlock(p) <= LockOf(p).value
<1>1. CASE likesPerPost[p] = 0 \/ ~Locked(p)
  BY <1>1 DEF ToUnlock
<1>2. CASE ~(likesPerPost[p] = 0 \/ ~Locked(p))
  <2> DEFINE v == LockOf(p).value
             w == LockOf(p).original
             n == Cardinality(likes[p]) \div UnlockPerLikes
  <2>1. v \in Nat /\ w \in Nat
    BY <1>2, LockTyped
  <2>2. n \in Int
    BY LikesFinite, Amounts, DivMod
  <2>3. ToUnlock(p) = Most(0, Least(v, n - (w - v)))
    BY <1>2 DEF ToUnlock
  <2> HIDE DEF v, w, n
  <2>4. ToUnlock(p) \in Nat /\ ToUnlock(p) <= v
    BY <2>1, <2>2, <2>3 DEF Most, Least
  <2> QED BY <1>2, <2>4 DEF v
<1> QED BY <1>1, <1>2

LEMMA PayoutTyped ==
  ASSUME TypeOK, NEW u \in Identity
  PROVE  Total(u) \in Nat /\ Payout(u) \in Nat /\ Carry(u) \in Nat
<1>1. record[u].carry \in Nat /\ likesPerAuthor[u] \in Nat
  BY DEF TypeOK, Record
<1>2. Total(u) \in Nat
  BY <1>1 DEF Total
<1> DEFINE q == Total(u) \div LikesPerPayout
<1>3. q \in Nat /\ (Total(u) % LikesPerPayout) \in Nat /\ LikesPerPayout - 1 \in Nat
  <2>1. LikesPerPayout \in Nat \ {0}
    BY Amounts
  <2>2. q \in Nat
    BY <1>2, <2>1, DivMod
  <2>3. (Total(u) % LikesPerPayout) \in Nat
    BY <1>2, <2>1, DivMod
  <2> QED BY <2>1, <2>2, <2>3
<1>4. q * (LikesPerPayout - 1) \in Nat
  <2> HIDE DEF q
  <2> QED BY <1>3
<1> QED BY <1>1, <1>2, <1>3, <1>4 DEF Payout, Carry

LEMMA VestingTyped ==
  ASSUME TypeOK, NEW u \in Identity
  PROVE  /\ Vesting(u) \in SUBSET Post /\ IsFiniteSet(Vesting(u))
         /\ SumFunction([p \in Vesting(u) |-> ToUnlock(p)]) \in Nat
<1>1. Vesting(u) \in SUBSET Post
  BY DEF Vesting
<1>2. IsFiniteSet(Vesting(u))
  BY <1>1, SetsAssumption, FS_Subset
<1> DEFINE f == [p \in Vesting(u) |-> ToUnlock(p)]
<1>3. DOMAIN f = Vesting(u) /\ \A p \in Vesting(u) : f[p] \in Nat
  BY <1>1, ToUnlockTyped
<1> HIDE DEF f
<1>4. SumFunction(f) \in Nat
  BY <1>2, <1>3, SumNat DEF SumFunction
<1> QED BY <1>1, <1>2, <1>4 DEF f

(* No activity is dated after the block being applied, no decay after the last *)
(* block: without it a firing could owe a negative number of periods.         *)
ClocksOK == \A u \in Identity : record[u].activity <= Block /\ record[u].decay <= height

LEMMA SettledTyped ==
  ASSUME TypeOK, ClocksOK, NEW u \in Identity
  PROVE  /\ Settled(u) \in Nat /\ Activity(u) \in Nat /\ Activity(u) <= Block
         /\ Stale(u) => OwedPeriods(u) \in Nat
         /\ DecayBurn(u) \in Nat /\ DecayBurn(u) <= Settled(u)
<1>1. /\ karma[u] \in Nat /\ height \in Nat /\ Block \in Nat
      /\ record[u].activity \in Nat /\ record[u].decay \in Nat
      /\ record[u].activity <= Block /\ record[u].decay <= Block
  BY DEF TypeOK, Record, ClocksOK, Block
<1>2. Settled(u) \in Nat
  BY <1>1, PayoutTyped, VestingTyped DEF Settled
<1>3. Activity(u) \in Nat /\ Activity(u) <= Block
  BY <1>1 DEF Activity
<1>4. OwedPeriods(u) \in Nat
  <2>1. Block - Most(Activity(u), record[u].decay) \in Nat
    BY <1>1, <1>3 DEF Most
  <2> QED BY <2>1, Amounts, DivMod DEF OwedPeriods
<1>5. OwedPeriods(u) * DecayAmount \in Nat
  BY <1>4, Amounts
<1>6. DecayBurn(u) \in Nat /\ DecayBurn(u) <= Settled(u)
  BY <1>2, <1>5, Amounts DEF DecayBurn, Least, Most
<1> QED BY <1>2, <1>3, <1>4, <1>6

LEMMA AfterVestingTyped ==
  ASSUME TypeOK, NEW p \in Post
  PROVE  AfterVesting(p) \in Seq(LockBox)
<1> DEFINE left == LockOf(p).value - ToUnlock(p)
<1>1. locks[p] \in Seq(LockBox)
  BY DEF TypeOK
<1>2. CASE ToUnlock(p) = 0
  BY <1>1, <1>2 DEF AfterVesting
<1>3. CASE ToUnlock(p) # 0
  <2>1. Locked(p) /\ left \in Nat /\ LockOf(p) \in LockBox
    BY <1>3, ToUnlockTyped, LockTyped
  <2>2. Tail(locks[p]) \in Seq(LockBox)
    BY <1>1, <2>1 DEF Locked
  <2>3. [LockOf(p) EXCEPT !.value = left] \in LockBox
    BY <2>1 DEF LockBox
  <2>4. <<[LockOf(p) EXCEPT !.value = left]>> \in Seq(LockBox) /\ << >> \in Seq(LockBox)
    BY <2>3
  <2>5. AfterVesting(p) = Tail(locks[p]) \o (IF left = 0 THEN << >>
                              ELSE <<[LockOf(p) EXCEPT !.value = left]>>)
    BY <1>3 DEF AfterVesting
  <2> HIDE DEF left
  <2> QED BY <2>2, <2>4, <2>5
<1> QED BY <1>2, <1>3

LEMMA MaturedTyped ==
  ASSUME TypeOK, NEW u \in Identity
  PROVE  /\ Matured(u) \in SUBSET Identity /\ IsFiniteSet(Matured(u))
         /\ Cardinality(Matured(u)) \in Nat
<1>1. Matured(u) \in SUBSET Identity
  BY DEF Matured
<1> QED BY <1>1, SetsAssumption, FS_Subset, FS_CardinalityType

-----------------------------------------------------------------------------
(* Types *)

TypeInv == TypeOK /\ ClocksOK

LEMMA BumpTyped ==
  ASSUME TypeInv, NEW us
  PROVE  /\ Bump(record, us) \in [Identity -> Record]
         /\ \A u \in Identity : /\ Bump(record, us)[u].activity <= Block
                                /\ Bump(record, us)[u].decay <= height
         /\ Cleared(us) \in [Identity -> Nat]
<1>1. Block \in Nat /\ height \in Nat
  BY DEF TypeInv, TypeOK, Block
<1>2. ASSUME NEW u \in Identity
      PROVE  /\ Bump(record, us)[u] \in Record /\ Cleared(us)[u] \in Nat
             /\ Bump(record, us)[u].activity <= Block /\ Bump(record, us)[u].decay <= height
  <2>1. /\ record[u] \in Record /\ charged[u] \in Nat
        /\ record[u].activity <= Block /\ record[u].decay <= height
    BY DEF TypeInv, TypeOK, ClocksOK
  <2>2. Bump(record, us)[u] = IF u \in us THEN [record[u] EXCEPT !.activity = Block] ELSE record[u]
    BY DEF Bump
  <2> HIDE DEF Block
  <2> QED BY <1>1, <2>1, <2>2 DEF Cleared, Record
<1>3. /\ Bump(record, us) = [u \in Identity |-> Bump(record, us)[u]]
      /\ Cleared(us) = [u \in Identity |-> Cleared(us)[u]]
  BY DEF Bump, Cleared
<1> QED BY <1>2, <1>3

LEMMA InitTyped == Init => TypeInv
<1> SUFFICES ASSUME Init PROVE TypeInv
  OBVIOUS
<1>1. \A p \in Post : locks[p] = << >> /\ << >> \in Seq(LockBox)
  BY DEF Init
<1>2. locks \in [Post -> Seq(LockBox)]
  BY <1>1 DEF Init
<1> QED BY <1>2, SetsAssumption, Amounts
        DEF Init, TypeInv, TypeOK, ClocksOK, Record, Status, Block, Pair

LEMMA ConfirmTyped ==
  ASSUME TypeInv, NEW p \in Post, ConfirmSubBlock(p) PROVE TypeInv'
BY DEF TypeInv, TypeOK, ClocksOK, ConfirmSubBlock, Status, accrual, ghosts, value, Block

LEMMA PruneTyped ==
  ASSUME TypeInv, NEW p \in Post, PrunePost(p) PROVE TypeInv'
<1> DEFINE ps == Subtree(p)
           us == {LockOf(q).owner : q \in Refunded(ps)}
<1>1. ps \in SUBSET Post
  BY DEF Subtree
<1>2. ASSUME NEW u \in Identity
      PROVE  SumFunction([q \in RefundTo(u, ps) |-> LockOf(q).value]) \in Nat
  <2>1. RefundTo(u, ps) \in SUBSET Post /\ \A q \in RefundTo(u, ps) : LockOf(q).value \in Nat
    BY <1>1, LockTyped DEF RefundTo, Refunded, TypeInv
  <2> DEFINE f == [q \in RefundTo(u, ps) |-> LockOf(q).value]
  <2>2. DOMAIN f = RefundTo(u, ps) /\ \A q \in RefundTo(u, ps) : f[q] \in Nat
    BY <2>1
  <2> HIDE DEF f
  <2>3. IsFiniteSet(RefundTo(u, ps))
    BY <2>1, SetsAssumption, FS_Subset
  <2>4. SumFunction(f) \in Nat
    BY <2>2, <2>3, SumNat DEF SumFunction
  <2> QED BY <2>4 DEF f
<1>3. karma' \in [Identity -> Nat]
  <2> DEFINE got(u) == SumFunction([q \in RefundTo(u, ps) |-> LockOf(q).value])
  <2>1. karma' = [u \in Identity |-> karma[u] + got(u)]
    BY DEF PrunePost
  <2>2. \A u \in Identity : got(u) \in Nat /\ karma[u] \in Nat
    BY <1>2 DEF TypeInv, TypeOK
  <2> HIDE DEF got
  <2> QED BY <2>1, <2>2
<1>4. record' = Bump(record, us) /\ charged' = Cleared(us) /\ height' = height
  BY DEF PrunePost
<1>5. record' \in [Identity -> Record] /\ charged' \in [Identity -> Nat] /\ ClocksOK'
  BY <1>4, BumpTyped DEF ClocksOK, Block
<1>6. locks' \in [Post -> Seq(LockBox)]
  <2>1. \A q \in Post : locks[q] \in Seq(LockBox) /\ (Locked(q) => Tail(locks[q]) \in Seq(LockBox))
    BY DEF TypeInv, TypeOK, Locked
  <2>2. \A q \in Refunded(ps) : Locked(q)
    BY DEF Refunded
  <2> QED BY <2>1, <2>2 DEF PrunePost
<1>7. likes' \in [Post -> SUBSET Identity] /\ posts' \in [Post -> Status]
  BY DEF PrunePost, TypeInv, TypeOK, Status
<1> QED BY <1>3, <1>4, <1>5, <1>6, <1>7 DEF TypeInv, TypeOK, PrunePost, accrual

(* What Spend and the other transactions leave typed                          *)
LEMMA SpendTyped ==
  ASSUME TypeInv, NEW u \in Identity, NEW n \in Nat, Spend(u, n)
  PROVE  /\ height' = height /\ phase' = "txs" /\ txs' \in 0 .. MaxTxs
         /\ karma' \in [Identity -> Nat] /\ record' \in [Identity -> Record]
         /\ charged' \in [Identity -> Nat] /\ ClocksOK'
<1>1. record' = Bump(record, {u}) /\ charged' = Cleared({u}) /\ height' = height
  BY DEF Spend
<1>2. record' \in [Identity -> Record] /\ charged' \in [Identity -> Nat] /\ ClocksOK'
  BY <1>1, BumpTyped DEF ClocksOK, Block
<1>3. karma' \in [Identity -> Nat] /\ txs' \in 0 .. MaxTxs
  BY Amounts DEF Spend, TypeInv, TypeOK
<1> QED BY <1>1, <1>2, <1>3 DEF Spend

LEMMA ConsolidateTyped ==
  ASSUME TypeInv, NEW u \in Identity, Consolidate(u) PROVE TypeInv'
BY SpendTyped DEF Consolidate, TypeInv, TypeOK, accrual, tables

LEMMA GrantTyped ==
  ASSUME TypeInv, NEW u \in Identity, GrantKarma(u) PROVE TypeInv'
<1>1. record' = Bump(record, {u, System}) /\ charged' = Cleared({u, System}) /\ height' = height
  BY DEF GrantKarma
<1>2. record' \in [Identity -> Record] /\ charged' \in [Identity -> Nat] /\ ClocksOK'
  BY <1>1, BumpTyped DEF ClocksOK, Block
<1>3. karma' \in [Identity -> Nat]
  <2>1. karma \in [Identity -> Nat] /\ System \in Identity /\ u # System
    BY SetsAssumption DEF GrantKarma, TypeInv, TypeOK
  <2>2. GrantAmount \in Nat /\ karma[System] - GrantAmount \in Nat /\ karma[u] + GrantAmount \in Nat
    BY <2>1, Amounts DEF GrantKarma
  <2>3. karma' = [karma EXCEPT ![System] = karma[System] - GrantAmount,
                               ![u] = karma[u] + GrantAmount]
    BY <2>1 DEF GrantKarma
  <2> QED BY <2>1, <2>2, <2>3
<1>4. txs' \in 0 .. MaxTxs
  BY Amounts DEF GrantKarma, TypeInv, TypeOK
<1> QED BY <1>1, <1>2, <1>3, <1>4 DEF GrantKarma, TypeInv, TypeOK, accrual, tables

LEMMA LikeTyped ==
  ASSUME TypeInv, NEW u \in Identity, NEW p \in Post, ApplyLike(u, p) PROVE TypeInv'
<1>1. /\ height' = height /\ phase' = "txs" /\ txs' \in 0 .. MaxTxs
      /\ karma' \in [Identity -> Nat] /\ record' \in [Identity -> Record]
      /\ charged' \in [Identity -> Nat] /\ ClocksOK'
  BY SpendTyped, Amounts DEF ApplyLike
<1>2. likes' \in [Post -> SUBSET Identity] /\ likesPerPost' \in [Post -> Nat]
  BY DEF ApplyLike, TypeInv, TypeOK
<1>3. likesPerAuthor' \in [Identity -> Nat] /\ earned' \in [Identity -> Nat]
  <2>1. Author[p] \in Identity
    BY SetsAssumption
  <2>2. likesPerAuthor[Author[p]] \in Nat /\ earned[Author[p]] \in Nat
    BY <2>1 DEF TypeInv, TypeOK
  <2>3. /\ likesPerAuthor \in [Identity -> Nat] /\ earned \in [Identity -> Nat]
        /\ likesPerAuthor' = [likesPerAuthor EXCEPT ![Author[p]] = @ + 1]
        /\ earned' = [earned EXCEPT ![Author[p]] = @ + 1]
    BY DEF ApplyLike, TypeInv, TypeOK
  <2> QED BY <2>1, <2>2, <2>3
<1>4. supply' \in Int
  BY Amounts DEF ApplyLike, TypeInv, TypeOK
<1> QED BY <1>1, <1>2, <1>3, <1>4 DEF ApplyLike, TypeInv, TypeOK

LEMMA LockKarmaTyped ==
  ASSUME TypeInv, NEW u \in Identity, NEW p \in Post, NEW box \in AnyLock, LockKarma(u, p, box)
  PROVE  TypeInv'
<1>1. box \in LockBox /\ box.value \in Nat
  BY Amounts DEF AnyLock, LockBox
<1>2. /\ height' = height /\ phase' = "txs" /\ txs' \in 0 .. MaxTxs
      /\ karma' \in [Identity -> Nat] /\ record' \in [Identity -> Record]
      /\ charged' \in [Identity -> Nat] /\ ClocksOK'
  BY <1>1, SpendTyped DEF LockKarma
<1>3. Append(locks[p], box) \in Seq(LockBox)
  BY <1>1 DEF TypeInv, TypeOK
<1>4. locks' \in [Post -> Seq(LockBox)]
  BY <1>3 DEF LockKarma, TypeInv, TypeOK
<1> QED BY <1>2, <1>4 DEF LockKarma, TypeInv, TypeOK, accrual, tables

LEMMA VouchTyped ==
  ASSUME TypeInv, NEW u \in Identity, NEW t \in Identity, CastVouch(u, t) PROVE TypeInv'
<1>1. /\ height' = height /\ phase' = "txs" /\ txs' \in 0 .. MaxTxs
      /\ karma' \in [Identity -> Nat] /\ record' \in [Identity -> Record]
      /\ charged' \in [Identity -> Nat] /\ ClocksOK'
  BY SpendTyped, Amounts DEF CastVouch
<1>2. vouches' \in [Pair -> Nat]
  <2>1. vouches \in [Pair -> Nat] /\ <<u, t>> \in Pair
    BY DEF TypeInv, TypeOK, Pair
  <2>2. vouches' = [vouches EXCEPT ![<<u, t>>] = @ + 1]
    BY DEF CastVouch
  <2> QED BY <2>1, <2>2
<1> QED BY <1>1, <1>2 DEF CastVouch, TypeInv, TypeOK, accrual, tables

LEMMA UnvouchTyped ==
  ASSUME TypeInv, NEW u \in Identity, NEW t \in Identity, Unvouch(u, t) PROVE TypeInv'
<1>1. txs' \in 0 .. MaxTxs
  BY Amounts DEF Unvouch, TypeInv, TypeOK
<1>2. vouches' \in [Pair -> Nat] /\ escrow' \in [Pair -> Nat]
  <2>1. /\ vouches \in [Pair -> Nat] /\ escrow \in [Pair -> Nat] /\ <<u, t>> \in Pair
        /\ height \in Nat
    <3>1. vouches \in [Pair -> Nat] /\ escrow \in [Pair -> Nat] /\ height \in Nat
      BY DEF TypeInv, TypeOK
    <3> QED BY <3>1 DEF Pair
  <2>2. vouches[<<u, t>>] > 0
        /\ vouches' = [vouches EXCEPT ![<<u, t>>] = @ - 1]
        /\ escrow' = [escrow EXCEPT ![<<u, t>>] = Block + CooldownBlocks]
    BY DEF Unvouch
  <2>3. Block + CooldownBlocks \in Nat
    BY <2>1, Amounts DEF Block
  <2> HIDE DEF Block
  <2> QED BY <2>1, <2>2, <2>3
<1>3. supply' \in Int
  BY Amounts DEF Unvouch, TypeInv, TypeOK
<1> QED BY <1>1, <1>2, <1>3 DEF Unvouch, TypeInv, TypeOK, ClocksOK, accrual, Block

LEMMA SettleTyped == ASSUME TypeInv, SettleBlock PROVE TypeInv'
<1>1. height' = Block /\ height' \in 0 .. MaxHeight /\ Block \in Nat
  BY Amounts DEF SettleBlock, TypeInv, TypeOK, Block
<1>2. ASSUME NEW u \in Identity
      PROVE  /\ karma'[u] \in Nat /\ record'[u] \in Record /\ paid'[u] \in Nat /\ charged'[u] \in Nat
             /\ record'[u].activity <= Block /\ record'[u].decay <= Block
  <2>1. /\ Settled(u) \in Nat /\ Activity(u) \in Nat /\ Activity(u) <= Block
        /\ DecayBurn(u) \in Nat /\ DecayBurn(u) <= Settled(u)
        /\ Payout(u) \in Nat /\ Carry(u) \in Nat
    BY SettledTyped, PayoutTyped DEF TypeInv
  <2>2. Cardinality(Matured(u)) * VouchAmount \in Nat
    BY MaturedTyped, Amounts DEF TypeInv
  <2>3. record[u] \in Record /\ record[u].decay <= height /\ paid[u] \in Nat /\ charged[u] \in Nat
    BY DEF TypeInv, TypeOK, ClocksOK
  <2>4. karma'[u] = Settled(u) - DecayBurn(u) + Cardinality(Matured(u)) * VouchAmount
    BY DEF SettleBlock
  <2>5. karma'[u] \in Nat
    BY <2>1, <2>2, <2>4
  <2>6. record'[u] \in Record /\ record'[u].activity <= Block /\ record'[u].decay <= Block
    <3>1. height <= Block
      BY DEF TypeInv, TypeOK, Block
    <3>2. height \in Nat
      BY DEF TypeInv, TypeOK
    <3> HIDE DEF Block
    <3> QED BY <1>1, <2>1, <2>3, <3>1, <3>2 DEF SettleBlock, Record
  <2>7. paid'[u] \in Nat /\ charged'[u] \in Nat
    BY <2>1, <2>3 DEF SettleBlock
  <2> QED BY <2>5, <2>6, <2>7
<1>3. /\ karma' \in [Identity -> Nat] /\ record' \in [Identity -> Record]
      /\ paid' \in [Identity -> Nat] /\ charged' \in [Identity -> Nat]
  BY <1>2 DEF SettleBlock
<1>4. locks' \in [Post -> Seq(LockBox)]
  BY AfterVestingTyped DEF SettleBlock, TypeInv
<1>5. escrow' \in [Pair -> Nat]
  BY DEF SettleBlock, TypeInv, TypeOK
<1>6. supply' \in Int
  <2> DEFINE f == [u \in Identity |-> Payout(u)]
             g == [u \in Identity |-> DecayBurn(u)]
  <2>1. \A u \in Identity : f[u] \in Int /\ g[u] \in Int
    BY PayoutTyped, SettledTyped DEF TypeInv
  <2>2. DOMAIN f = Identity /\ DOMAIN g = Identity
    OBVIOUS
  <2> HIDE DEF f, g
  <2>3. SumFunction(f) \in Int /\ SumFunction(g) \in Int
    BY <2>1, <2>2, SetsAssumption, SumInt DEF SumFunction
  <2>4. supply' = supply + SumFunction(f) - SumFunction(g)
    BY DEF SettleBlock, f, g
  <2> QED BY <2>3, <2>4 DEF TypeInv, TypeOK
<1>7. ClocksOK'
  <2>1. \A u \in Identity : record'[u].activity \in Nat
    BY <1>3 DEF Record
  <2> QED BY <1>1, <1>2, <2>1 DEF ClocksOK, Block
<1>8. phase' = "confirm" /\ txs' \in 0 .. MaxTxs
      /\ likesPerAuthor' \in [Identity -> Nat] /\ likesPerPost' \in [Post -> Nat]
  BY Amounts DEF SettleBlock
<1> QED BY <1>1, <1>3, <1>4, <1>5, <1>6, <1>7, <1>8 DEF TypeInv, TypeOK, SettleBlock

LEMMA TypeStep == TypeInv /\ [Next]_vars => TypeInv'
<1> SUFFICES ASSUME TypeInv, [Next]_vars PROVE TypeInv'
  OBVIOUS
<1>1. ASSUME NEW p \in Post, ConfirmSubBlock(p) \/ PrunePost(p) PROVE TypeInv'
  BY <1>1, ConfirmTyped, PruneTyped
<1>2. ASSUME NEW u \in Identity, Consolidate(u) \/ GrantKarma(u) PROVE TypeInv'
  BY <1>2, ConsolidateTyped, GrantTyped
<1>3. ASSUME NEW u \in Identity, NEW p \in Post, ApplyLike(u, p) PROVE TypeInv'
  BY <1>3, LikeTyped
<1>4. ASSUME NEW u \in Identity, NEW p \in Post, NEW box \in AnyLock, LockKarma(u, p, box)
      PROVE  TypeInv'
  BY <1>4, LockKarmaTyped
<1>5. ASSUME NEW u \in Identity, NEW t \in Identity, CastVouch(u, t) \/ Unvouch(u, t)
      PROVE  TypeInv'
  BY <1>5, VouchTyped, UnvouchTyped
<1>6. CASE SettleBlock
  BY <1>6, SettleTyped
<1>7. CASE UNCHANGED vars
  BY <1>7 DEF vars, value, tables, accrual, ghosts, TypeInv, TypeOK, ClocksOK, Block
<1> QED BY <1>1, <1>2, <1>3, <1>4, <1>5, <1>6, <1>7 DEF Next

LEMMA TypeInvariant == Spec => []TypeInv
BY InitTyped, TypeStep, PTL DEF Spec

(* Every reachable state is well typed; above all, no karma total is ever     *)
(* negative, through any decay, spending and settlement.                      *)
THEOREM KarmaTypeCorrect == Spec => []TypeOK
<1>1. TypeInv => TypeOK
  BY DEF TypeInv
<1> QED BY <1>1, TypeInvariant, PTL

-----------------------------------------------------------------------------
(* Decay *)

(* DecayCharged is not inductive: it forgets when decay last fired.  Karma has *)
(* been charged for no more than the intervals before that firing.             *)
ChargedToFiring ==
  \A u \in Identity :
    charged[u] <= ((Most(record[u].activity, record[u].decay) - record[u].activity)
                     \div DecayInterval) * DecayAmount

LEMMA ChargedInit == Init => ChargedToFiring
<1> SUFFICES ASSUME Init, NEW u \in Identity
             PROVE  charged[u] <= ((Most(record[u].activity, record[u].decay) - record[u].activity)
                                     \div DecayInterval) * DecayAmount
  BY DEF ChargedToFiring
<1>1. charged[u] = 0 /\ record[u].activity \in Nat /\ record[u].decay = 0
  BY DEF Init
<1>2. Most(record[u].activity, record[u].decay) - record[u].activity = 0
  BY <1>1 DEF Most
<1>3. 0 \div DecayInterval = 0 /\ 0 * DecayAmount = 0
  BY Amounts
<1> QED BY <1>1, <1>2, <1>3

LEMMA ChargedBump ==
  ASSUME TypeInv, ChargedToFiring, NEW us,
         record' = Bump(record, us), charged' = Cleared(us)
  PROVE  ChargedToFiring'
<1> SUFFICES ASSUME NEW u \in Identity
             PROVE  charged'[u] <= ((Most(record'[u].activity, record'[u].decay) - record'[u].activity)
                                      \div DecayInterval) * DecayAmount
  BY DEF ChargedToFiring
<1>1. CASE u \in us
  <2>1. charged'[u] = 0 /\ record'[u] = [record[u] EXCEPT !.activity = Block]
    BY <1>1 DEF Cleared, Bump
  <2>2. record[u] \in Record /\ record[u].decay <= height /\ height \in Nat
    BY DEF TypeInv, TypeOK, ClocksOK
  <2>3. Most(record'[u].activity, record'[u].decay) - record'[u].activity = 0
    BY <2>1, <2>2 DEF Record, Most, Block
  <2>4. 0 \div DecayInterval = 0 /\ 0 * DecayAmount = 0
    BY Amounts
  <2> QED BY <2>1, <2>3, <2>4
<1>2. CASE u \notin us
  <2>1. charged'[u] = charged[u] /\ record'[u] = record[u]
    BY <1>2 DEF Cleared, Bump
  <2> QED BY <2>1 DEF ChargedToFiring
<1> QED BY <1>1, <1>2

(* A firing charges the intervals since the last one, and the whole intervals  *)
(* of two stretches are not more than those of both together.                 *)
LEMMA ChargedSettle == ASSUME TypeInv, ChargedToFiring, SettleBlock PROVE ChargedToFiring'
<1> SUFFICES ASSUME NEW u \in Identity
             PROVE  charged'[u] <= ((Most(record'[u].activity, record'[u].decay) - record'[u].activity)
                                      \div DecayInterval) * DecayAmount
  BY DEF ChargedToFiring
<1> DEFINE act == record[u].activity
           dec == record[u].decay
<1>1. /\ act \in Nat /\ dec \in Nat /\ act <= Block /\ dec <= Block /\ Block \in Nat
      /\ charged[u] \in Nat /\ charged[u] <= ((Most(act, dec) - act) \div DecayInterval) * DecayAmount
  BY DEF TypeInv, TypeOK, ClocksOK, Record, Block, ChargedToFiring
<1>2. /\ record'[u].activity = IF Matured(u) # {} THEN Block ELSE Activity(u)
      /\ record'[u].decay = IF DecayBurn(u) > 0 THEN Block ELSE dec
      /\ charged'[u] = IF Matured(u) # {} THEN 0
                       ELSE (IF Active(u) THEN 0 ELSE charged[u]) + DecayBurn(u)
  BY DEF SettleBlock
<1>3. 0 \div DecayInterval = 0 /\ 0 * DecayAmount = 0
  BY Amounts
<1>4. Active(u) => DecayBurn(u) = 0
  <2>1. Active(u) => Block - Activity(u) = 0
    BY <1>1 DEF Activity
  <2>2. Active(u) => ~Stale(u)
    BY <2>1, Amounts DEF Stale
  <2> QED BY <2>2 DEF DecayBurn
<1>5. CASE Matured(u) # {} \/ Active(u)
  <2>1. record'[u].activity = Block /\ charged'[u] = 0 /\ record'[u].decay <= Block
    BY <1>1, <1>2, <1>4, <1>5 DEF Activity
  <2>2. Most(record'[u].activity, record'[u].decay) - record'[u].activity = 0
    <3>1. record'[u].decay \in Nat
      BY <1>1, <1>2
    <3> QED BY <1>1, <2>1, <3>1 DEF Most
  <2> QED BY <1>3, <2>1, <2>2
<1>6. CASE Matured(u) = {} /\ ~Active(u) /\ DecayBurn(u) = 0
  <2>1. record'[u].activity = act /\ record'[u].decay = dec /\ charged'[u] = charged[u]
    BY <1>1, <1>2, <1>6 DEF Activity
  <2> QED BY <1>1, <2>1
<1>7. CASE Matured(u) = {} /\ ~Active(u) /\ DecayBurn(u) # 0
  <2> DEFINE m == Most(act, dec)
             n1 == (m - act) \div DecayInterval
             n2 == (Block - m) \div DecayInterval
             n  == (Block - act) \div DecayInterval
  <2>1. Activity(u) = act /\ DecayBurn(u) \in Nat
    BY <1>7, SettledTyped DEF Activity, TypeInv
  <2>2. /\ record'[u].activity = act /\ record'[u].decay = Block
        /\ charged'[u] = charged[u] + DecayBurn(u)
    BY <1>2, <1>7, <2>1
  <2>3. Most(record'[u].activity, record'[u].decay) = Block
    BY <1>1, <2>2 DEF Most
  <2>4. m \in Nat
    BY <1>1 DEF Most
  <2>5. n1 \in Int /\ n2 \in Int /\ n \in Int
    <3>1. m - act \in Int /\ Block - m \in Int /\ Block - act \in Int
      BY <1>1, <2>4
    <3>2. DecayInterval \in Nat \ {0}
      BY Amounts
    <3> HIDE DEF m, act, Block
    <3> QED BY <3>1, <3>2, DivMod
  <2>6. DecayBurn(u) <= n2 * DecayAmount
    <3>1. Stale(u) /\ OwedPeriods(u) = n2
      BY <1>7, <2>1 DEF DecayBurn, OwedPeriods
    <3>2. Settled(u) \in Nat
      BY SettledTyped DEF TypeInv
    <3> HIDE DEF n2
    <3>3. DecayBurn(u) = Least(n2 * DecayAmount, Most(Settled(u) - KarmaMinimum, 0))
      BY <3>1 DEF DecayBurn
    <3>4. n2 * DecayAmount \in Int /\ Most(Settled(u) - KarmaMinimum, 0) \in Int
      BY <2>5, <3>2, Amounts DEF Most
    <3> QED BY <3>3, <3>4, LeastMost
  <2>7. n1 + n2 <= n
    <3>1. m - act \in Int /\ Block - m \in Int /\ (m - act) + (Block - m) = Block - act
      BY <1>1, <2>4
    <3> HIDE DEF m
    <3>2. n1 + n2 <= ((m - act) + (Block - m)) \div DecayInterval
      BY <3>1, Amounts, DivParts
    <3> QED BY <3>1, <3>2
  <2> HIDE DEF n1, n2, n, m, act
  <2>8. (n1 + n2) * DecayAmount <= n * DecayAmount
    BY <2>5, <2>7, Amounts, TimesMonotone
  <2>9. (n1 + n2) * DecayAmount = n1 * DecayAmount + n2 * DecayAmount
    BY <2>5, Amounts
  <2>10. charged[u] <= n1 * DecayAmount /\ charged[u] \in Nat
    BY <1>1 DEF n1, m
  <2>11. /\ n1 * DecayAmount \in Int /\ n2 * DecayAmount \in Int /\ n * DecayAmount \in Int
    BY <2>5, Amounts
  <2>12. charged'[u] <= n * DecayAmount
    BY <2>1, <2>2, <2>6, <2>8, <2>9, <2>10, <2>11
  <2> QED BY <2>2, <2>3, <2>12 DEF n
<1> QED BY <1>5, <1>6, <1>7

LEMMA ChargedStep == TypeInv /\ ChargedToFiring /\ [Next]_vars => ChargedToFiring'
<1> SUFFICES ASSUME TypeInv, ChargedToFiring, [Next]_vars PROVE ChargedToFiring'
  OBVIOUS
<1>1. CASE record' = record /\ charged' = charged
  BY <1>1 DEF ChargedToFiring
<1>2. ASSUME NEW p \in Post, ConfirmSubBlock(p) \/ PrunePost(p) PROVE ChargedToFiring'
  <2>1. CASE ConfirmSubBlock(p)
    BY <1>1, <2>1 DEF ConfirmSubBlock, value, ghosts
  <2>2. CASE PrunePost(p)
    BY <2>2, ChargedBump DEF PrunePost
  <2> QED BY <1>2, <2>1, <2>2
<1>3. ASSUME NEW u \in Identity, Consolidate(u) \/ GrantKarma(u) PROVE ChargedToFiring'
  BY <1>3, ChargedBump DEF Consolidate, GrantKarma, Spend
<1>4. ASSUME NEW u \in Identity, NEW p \in Post, ApplyLike(u, p) PROVE ChargedToFiring'
  BY <1>4, ChargedBump DEF ApplyLike, Spend
<1>5. ASSUME NEW u \in Identity, NEW p \in Post, NEW box \in AnyLock, LockKarma(u, p, box)
      PROVE  ChargedToFiring'
  BY <1>5, ChargedBump DEF LockKarma, Spend
<1>6. ASSUME NEW u \in Identity, NEW t \in Identity, CastVouch(u, t) \/ Unvouch(u, t)
      PROVE  ChargedToFiring'
  BY <1>1, <1>6, ChargedBump DEF CastVouch, Spend, Unvouch, ghosts
<1>7. CASE SettleBlock
  BY <1>7, ChargedSettle
<1>8. CASE UNCHANGED vars
  BY <1>1, <1>8 DEF vars, value, ghosts
<1> QED BY <1>2, <1>3, <1>4, <1>5, <1>6, <1>7, <1>8 DEF Next

LEMMA ChargedBounded == ASSUME TypeInv, ChargedToFiring PROVE DecayCharged
<1> SUFFICES ASSUME NEW u \in Identity
             PROVE  charged[u] <= Most(0, (height - record[u].activity) \div DecayInterval)
                                    * DecayAmount
  BY DEF DecayCharged
<1> DEFINE act == record[u].activity
           m   == Most(act, record[u].decay)
           n1  == (m - act) \div DecayInterval
           n2  == (height - act) \div DecayInterval
<1>1. /\ act \in Nat /\ record[u].decay \in Nat /\ record[u].decay <= height /\ height \in Nat
      /\ charged[u] \in Nat /\ charged[u] <= n1 * DecayAmount /\ act <= height + 1
  BY DEF TypeInv, TypeOK, ClocksOK, Record, Block, ChargedToFiring
<1>2. m \in Nat /\ (m - act <= height - act \/ m - act = 0)
  BY <1>1 DEF Most
<1>3. n1 \in Int /\ n2 \in Int /\ 0 \div DecayInterval = 0
  <2>1. m - act \in Int /\ height - act \in Int
    BY <1>1, <1>2
  <2>2. DecayInterval \in Nat \ {0}
    BY Amounts
  <2> HIDE DEF m, act
  <2> QED BY <2>1, <2>2, DivMod
<1>4. n1 <= n2 \/ n1 = 0
  <2> HIDE DEF m, act
  <2>1. m - act \in Int /\ height - act \in Int
    BY <1>1, <1>2
  <2> QED BY <1>2, <1>3, <2>1, Amounts, DivMonotone
<1>5. n1 <= Most(0, n2) /\ Most(0, n2) \in Int
  <2> HIDE DEF n1, n2
  <2> QED BY <1>3, <1>4 DEF Most
<1>6. n1 * DecayAmount <= Most(0, n2) * DecayAmount
  <2> HIDE DEF n1, n2
  <2> QED BY <1>3, <1>5, Amounts, TimesMonotone
<1>7. charged[u] <= Most(0, n2) * DecayAmount
  <2> HIDE DEF n1, n2
  <2>1. n1 * DecayAmount \in Int /\ Most(0, n2) * DecayAmount \in Int
    BY <1>3, <1>5, Amounts
  <2> QED BY <1>1, <1>6, <2>1
<1> QED BY <1>7

(* Decay takes at most one DecayAmount per whole interval of inactivity,       *)
(* wherever its firings fall, for every threshold, interval and amount.       *)
THEOREM DecayBounded == Spec => []DecayCharged
<1>1. TypeInv /\ ChargedToFiring => DecayCharged
  BY ChargedBounded
<1> QED BY <1>1, TypeInvariant, ChargedInit, ChargedStep, PTL DEF Spec

-----------------------------------------------------------------------------
(* Like payouts *)

LEMMA PayoutArithmetic ==
  ASSUME NEW a \in Int, NEW b \in Int, NEW q \in Int, NEW l \in Int, a * l = b * (l - 1)
  PROVE  (a + q * (l - 1)) * l = (b + l * q) * (l - 1)
<1>1. (a + q * (l - 1)) * l = a * l + (q * (l - 1)) * l
  OBVIOUS
<1>2. (b + l * q) * (l - 1) = b * (l - 1) + (l * q) * (l - 1)
  OBVIOUS
<1>3. (q * (l - 1)) * l = (l * q) * (l - 1)
  OBVIOUS
<1> QED BY <1>1, <1>2, <1>3

(* PaidExactly for one author                                                 *)
PaidTo(u) ==
  /\ record[u].carry < LikesPerPayout
  /\ paid[u] * LikesPerPayout
       = (earned[u] - likesPerAuthor[u] - record[u].carry) * (LikesPerPayout - 1)

LEMMA PaidSplit == PaidExactly <=> \A u \in Identity : PaidTo(u)
BY DEF PaidExactly, PaidTo

LEMMA PaidInit == Init => PaidExactly
<1> SUFFICES ASSUME Init, NEW u \in Identity PROVE PaidTo(u)
  BY PaidSplit
<1> QED BY Amounts DEF Init, PaidTo

LEMMA PaidBump ==
  ASSUME TypeInv, PaidExactly, NEW us, record' = Bump(record, us),
         UNCHANGED <<paid, earned, likesPerAuthor>>
  PROVE  PaidExactly'
<1>1. \A u \in Identity : record'[u].carry = record[u].carry
  BY DEF Bump, TypeInv, TypeOK, Record
<1> QED BY <1>1 DEF PaidExactly

LEMMA PaidLike ==
  ASSUME TypeInv, PaidExactly, NEW u \in Identity, NEW p \in Post, ApplyLike(u, p)
  PROVE  PaidExactly'
<1>1. record' = Bump(record, {u}) /\ paid' = paid
  BY DEF ApplyLike, Spend
<1>2. \A v \in Identity : record'[v].carry = record[v].carry
  BY <1>1 DEF Bump, TypeInv, TypeOK, Record
<1>3. /\ likesPerAuthor' = [likesPerAuthor EXCEPT ![Author[p]] = @ + 1]
      /\ earned' = [earned EXCEPT ![Author[p]] = @ + 1]
      /\ likesPerAuthor \in [Identity -> Nat] /\ earned \in [Identity -> Nat]
  BY DEF ApplyLike, TypeInv, TypeOK
<1>4. \A v \in Identity : earned'[v] - likesPerAuthor'[v] = earned[v] - likesPerAuthor[v]
  BY <1>3
<1> QED BY <1>1, <1>2, <1>4 DEF PaidExactly

LEMMA PaidSettle == ASSUME TypeInv, PaidExactly, SettleBlock PROVE PaidExactly'
<1> SUFFICES ASSUME NEW u \in Identity PROVE PaidTo(u)'
  BY DEF PaidExactly, PaidTo
<1>1. /\ record'[u].carry = Carry(u) /\ paid'[u] = paid[u] + Payout(u)
      /\ earned'[u] = earned[u] /\ likesPerAuthor'[u] = 0
  BY DEF SettleBlock
<1>2. /\ record[u].carry \in Nat /\ likesPerAuthor[u] \in Nat
      /\ paid[u] \in Nat /\ earned[u] \in Nat /\ PaidTo(u)
  BY PaidSplit DEF TypeInv, TypeOK, Record
<1>3. CASE likesPerAuthor[u] = 0
  BY <1>1, <1>2, <1>3 DEF Carry, Payout, PaidTo
<1>4. CASE likesPerAuthor[u] # 0
  <2> DEFINE q == Total(u) \div LikesPerPayout
             b == earned[u] - likesPerAuthor[u] - record[u].carry
  <2>1. Total(u) \in Nat /\ LikesPerPayout \in Nat \ {0} /\ Total(u) = record[u].carry + likesPerAuthor[u]
    BY <1>2, Amounts DEF Total
  <2>2. /\ Carry(u) = Total(u) % LikesPerPayout /\ Payout(u) = q * (LikesPerPayout - 1)
    BY <1>4 DEF Carry, Payout
  <2>3. q \in Int /\ Carry(u) = Total(u) - LikesPerPayout * q /\ Carry(u) < LikesPerPayout
    <3> DEFINE d == LikesPerPayout
               a == Total(u)
    <3>1. a \in Int /\ d \in Nat \ {0} /\ Carry(u) = (a % d)
      BY <2>1, <2>2
    <3> HIDE DEF a, d
    <3>2. (a \div d) \in Int /\ (a % d) < d /\ (a % d) = a - d * (a \div d)
      BY <3>1, DivMod
    <3> QED BY <3>1, <3>2 DEF q, a, d
  <2>4. b \in Int /\ paid[u] * LikesPerPayout = b * (LikesPerPayout - 1)
    BY <1>2 DEF PaidTo
  <2> HIDE DEF q
  <2>5. earned'[u] - likesPerAuthor'[u] - record'[u].carry = b + LikesPerPayout * q
    <3>1. LikesPerPayout * q \in Int
      BY <2>1, <2>3
    <3> QED BY <1>1, <1>2, <2>1, <2>3, <3>1
  <2> HIDE DEF b
  <2>6. (paid[u] + q * (LikesPerPayout - 1)) * LikesPerPayout
          = (b + LikesPerPayout * q) * (LikesPerPayout - 1)
    <3>1. paid[u] \in Int /\ LikesPerPayout \in Int
      BY <1>2, <2>1
    <3> QED BY <3>1, <2>3, <2>4, PayoutArithmetic
  <2> QED BY <1>1, <2>2, <2>3, <2>5, <2>6 DEF PaidTo
<1> QED BY <1>3, <1>4

LEMMA PaidStep == TypeInv /\ PaidExactly /\ [Next]_vars => PaidExactly'
<1> SUFFICES ASSUME TypeInv, PaidExactly, [Next]_vars PROVE PaidExactly'
  OBVIOUS
<1>1. CASE UNCHANGED <<record, paid, earned, likesPerAuthor>>
  BY <1>1 DEF PaidExactly
<1>2. ASSUME NEW p \in Post, ConfirmSubBlock(p) \/ PrunePost(p) PROVE PaidExactly'
  <2>1. CASE ConfirmSubBlock(p)
    BY <1>1, <2>1 DEF ConfirmSubBlock, value, ghosts, accrual
  <2>2. CASE PrunePost(p)
    BY <2>2, PaidBump DEF PrunePost, accrual
  <2> QED BY <1>2, <2>1, <2>2
<1>3. ASSUME NEW u \in Identity, Consolidate(u) \/ GrantKarma(u) PROVE PaidExactly'
  BY <1>3, PaidBump DEF Consolidate, GrantKarma, Spend, accrual
<1>4. ASSUME NEW u \in Identity, NEW p \in Post, ApplyLike(u, p) PROVE PaidExactly'
  BY <1>4, PaidLike
<1>5. ASSUME NEW u \in Identity, NEW p \in Post, NEW box \in AnyLock, LockKarma(u, p, box)
      PROVE  PaidExactly'
  BY <1>5, PaidBump DEF LockKarma, Spend, accrual
<1>6. ASSUME NEW u \in Identity, NEW t \in Identity, CastVouch(u, t) \/ Unvouch(u, t)
      PROVE  PaidExactly'
  BY <1>1, <1>6, PaidBump DEF CastVouch, Spend, Unvouch, ghosts, accrual
<1>7. CASE SettleBlock
  BY <1>7, PaidSettle
<1>8. CASE UNCHANGED vars
  BY <1>1, <1>8 DEF vars, value, ghosts, accrual
<1> QED BY <1>2, <1>3, <1>4, <1>5, <1>6, <1>7, <1>8 DEF Next

(* An author is paid for exactly the likes it was given, less the carry its    *)
(* record shows, however they fall into blocks and for every payout rate.     *)
THEOREM AuthorsPaid == Spec => []PaidExactly
BY TypeInvariant, PaidInit, PaidStep, PTL DEF Spec

-----------------------------------------------------------------------------
(* Post locks of clients that lock a post once *)

Vested(box, n) ==
  /\ 0 < box.value /\ box.value <= box.original
  /\ box.original - box.value <= n \div UnlockPerLikes

(* LocksVest is inductive only where a post has one lock at most: a second one  *)
(* would outlive a prune, which takes the likes of the post away.             *)
OneVestedLock ==
  \A p \in Post : \/ locks[p] = << >>
                  \/ \E box \in LockBox : /\ locks[p] = <<box>>
                                          /\ Vested(box, Cardinality(likes[p]))

LEMMA OneVestedImplies == ASSUME OneVestedLock PROVE LocksVest
<1> SUFFICES ASSUME NEW p \in Post, NEW i \in DOMAIN locks[p]
             PROVE  Vested(locks[p][i], Cardinality(likes[p]))
  BY DEF LocksVest, Vested
<1>1. PICK box \in LockBox : locks[p] = <<box>> /\ Vested(box, Cardinality(likes[p]))
  BY DEF OneVestedLock
<1> QED BY <1>1

LEMMA OneVestedKept ==
  ASSUME OneVestedLock, UNCHANGED <<locks, likes>> PROVE OneVestedLock'
BY DEF OneVestedLock

LEMMA OneVestedPrune ==
  ASSUME TypeInv, OneVestedLock, NEW p \in Post, PrunePost(p) PROVE OneVestedLock'
<1> DEFINE ps == Subtree(p)
<1> SUFFICES ASSUME NEW q \in Post
             PROVE  \/ locks'[q] = << >>
                    \/ \E box \in LockBox : /\ locks'[q] = <<box>>
                                            /\ Vested(box, Cardinality(likes'[q]))
  BY DEF OneVestedLock
<1>1. /\ locks'[q] = IF q \in Refunded(ps) THEN Tail(locks[q]) ELSE locks[q]
      /\ likes'[q] = IF q \in ps THEN {} ELSE likes[q]
  BY DEF PrunePost
<1>2. CASE locks[q] = << >>
  BY <1>1, <1>2 DEF Refunded, Locked
<1>3. CASE locks[q] # << >> /\ q \in ps
  <2>1. PICK box \in LockBox : locks[q] = <<box>> /\ Vested(box, Cardinality(likes[q]))
    BY <1>3 DEF OneVestedLock
  <2>2. Locked(q) /\ LockOf(q) = box /\ box.value > 0
    BY <2>1 DEF Locked, LockOf, Vested, LockBox
  <2>3. locks'[q] = Tail(<<box>>)
    BY <1>1, <1>3, <2>1, <2>2 DEF Refunded
  <2> QED BY <2>3
<1>4. CASE q \notin ps
  BY <1>1, <1>4 DEF Refunded, OneVestedLock
<1> QED BY <1>2, <1>3, <1>4

LEMMA OneVestedLike ==
  ASSUME TypeInv, OneVestedLock, NEW u \in Identity, NEW p \in Post, ApplyLike(u, p)
  PROVE  OneVestedLock'
<1>1. locks' = locks /\ likes' = [likes EXCEPT ![p] = @ \cup {u}]
  BY DEF ApplyLike
<1>2. likes \in [Post -> SUBSET Identity]
  BY DEF TypeInv, TypeOK
<1>3. ASSUME NEW q \in Post, NEW box \in LockBox, Vested(box, Cardinality(likes[q]))
      PROVE  Vested(box, Cardinality(likes'[q]))
  <2> DEFINE n == Cardinality(likes[q])
             m == Cardinality(likes'[q])
  <2>1. likes[q] \subseteq likes'[q] /\ likes'[q] \in SUBSET Identity
    BY <1>1, <1>2
  <2>2. IsFiniteSet(likes'[q])
    BY <2>1, SetsAssumption, FS_Subset
  <2>3. n \in Nat /\ m \in Nat /\ n <= m
    BY <2>1, <2>2, FS_Subset, FS_CardinalityType, LikesFinite DEF TypeInv
  <2>4. Vested(box, n) /\ box.value \in Nat /\ box.original \in Nat
    BY <1>3 DEF LockBox
  <2> HIDE DEF n, m
  <2>5. /\ n \div UnlockPerLikes <= m \div UnlockPerLikes
        /\ n \div UnlockPerLikes \in Int /\ m \div UnlockPerLikes \in Int
    BY <2>3, Amounts, DivMonotone, DivMod
  <2>6. Vested(box, m)
    BY <2>4, <2>5 DEF Vested
  <2> QED BY <2>6 DEF m
<1> QED BY <1>1, <1>3 DEF OneVestedLock

LEMMA OneVestedLockKarma ==
  ASSUME ClientRules, TypeInv, OneVestedLock, NEW u \in Identity, NEW p \in Post,
         NEW box \in AnyLock, LockKarma(u, p, box)
  PROVE  OneVestedLock'
<1>1. /\ locks[p] = << >> /\ box = [owner |-> u, value |-> LockCost, original |-> LockCost]
      /\ locks' = [locks EXCEPT ![p] = Append(@, box)] /\ likes' = likes
  BY DEF LockKarma, Locked, tables
<1>2. locks \in [Post -> Seq(LockBox)]
  BY DEF TypeInv, TypeOK
<1>3. locks'[p] = <<box>>
  BY <1>1, <1>2
<1>4. box \in LockBox /\ Vested(box, Cardinality(likes[p]))
  <2>1. Cardinality(likes[p]) \in Nat
    BY LikesFinite DEF TypeInv
  <2>2. Cardinality(likes[p]) \div UnlockPerLikes \in Nat
    BY <2>1, Amounts, DivMod
  <2> QED BY <1>1, <2>2, Amounts DEF Vested, LockBox
<1>5. \A q \in Post \ {p} : locks'[q] = locks[q]
  BY <1>1, <1>2
<1> QED BY <1>1, <1>3, <1>4, <1>5 DEF OneVestedLock

LEMMA OneVestedSettle ==
  ASSUME TypeInv, OneVestedLock, SettleBlock PROVE OneVestedLock'
<1> SUFFICES ASSUME NEW p \in Post
             PROVE  \/ locks'[p] = << >>
                    \/ \E box \in LockBox : /\ locks'[p] = <<box>>
                                            /\ Vested(box, Cardinality(likes'[p]))
  BY DEF OneVestedLock
<1>1. locks'[p] = AfterVesting(p) /\ likes' = likes
  BY DEF SettleBlock
<1>2. CASE ToUnlock(p) = 0
  BY <1>1, <1>2 DEF AfterVesting, OneVestedLock
<1>3. CASE ToUnlock(p) # 0
  <2> DEFINE n == Cardinality(likes[p]) \div UnlockPerLikes
  <2>1. Locked(p) /\ ToUnlock(p) \in Nat
    BY <1>3, ToUnlockTyped DEF TypeInv
  <2>2. PICK box \in LockBox : locks[p] = <<box>> /\ Vested(box, Cardinality(likes[p]))
    BY <2>1 DEF OneVestedLock, Locked
  <2>3. LockOf(p) = box /\ Tail(locks[p]) = << >>
    BY <2>2 DEF LockOf
  <2>4. box.value \in Nat /\ box.original \in Nat /\ n \in Int
    BY <2>2, LikesFinite, Amounts, DivMod DEF LockBox, TypeInv
  <2> HIDE DEF n
  <2>5. ToUnlock(p) = Most(0, Least(box.value, n - (box.original - box.value)))
    BY <1>3, <2>1, <2>3 DEF ToUnlock, n
  <2> DEFINE left == box.value - ToUnlock(p)
  <2>6. left \in Nat /\ left <= box.value /\ box.original - left <= n
    BY <1>3, <2>1, <2>4, <2>5 DEF Most, Least
  <2>7. AfterVesting(p) = << >> \o (IF left = 0 THEN << >> ELSE <<[box EXCEPT !.value = left]>>)
    BY <1>3, <2>3 DEF AfterVesting
  <2> HIDE DEF left
  <2>8. CASE left = 0
    BY <1>1, <2>7, <2>8
  <2>9. CASE left # 0
    <3> DEFINE b == [box EXCEPT !.value = left]
    <3>1. b \in LockBox /\ b.value = left /\ b.original = box.original
      BY <2>6 DEF LockBox
    <3>2. Vested(b, Cardinality(likes[p]))
      BY <2>2, <2>4, <2>6, <2>9, <3>1 DEF Vested, n
    <3>3. locks'[p] = <<b>>
      BY <1>1, <2>7, <2>9
    <3> HIDE DEF b
    <3> QED BY <1>1, <3>1, <3>2, <3>3
  <2> QED BY <2>8, <2>9
<1> QED BY <1>2, <1>3

LEMMA OneVestedStep ==
  ASSUME ClientRules, TypeInv, OneVestedLock, [Next]_vars PROVE OneVestedLock'
<1>1. ASSUME NEW p \in Post, ConfirmSubBlock(p) \/ PrunePost(p) PROVE OneVestedLock'
  BY <1>1, OneVestedPrune, OneVestedKept DEF ConfirmSubBlock, value
<1>2. ASSUME NEW u \in Identity, Consolidate(u) \/ GrantKarma(u) PROVE OneVestedLock'
  BY <1>2, OneVestedKept DEF Consolidate, GrantKarma, tables
<1>3. ASSUME NEW u \in Identity, NEW p \in Post, ApplyLike(u, p) PROVE OneVestedLock'
  BY <1>3, OneVestedLike
<1>4. ASSUME NEW u \in Identity, NEW p \in Post, NEW box \in AnyLock, LockKarma(u, p, box)
      PROVE  OneVestedLock'
  BY <1>4, OneVestedLockKarma
<1>5. ASSUME NEW u \in Identity, NEW t \in Identity, CastVouch(u, t) \/ Unvouch(u, t)
      PROVE  OneVestedLock'
  BY <1>5, OneVestedKept DEF CastVouch, Unvouch, tables
<1>6. CASE SettleBlock
  BY <1>6, OneVestedSettle
<1>7. CASE UNCHANGED vars
  BY <1>7, OneVestedKept DEF vars, value, tables
<1> QED BY <1>1, <1>2, <1>3, <1>4, <1>5, <1>6, <1>7 DEF Next

LEMMA OneVestedInit == Init => OneVestedLock
BY DEF Init, OneVestedLock

(* A lock releases no more than the likes of its post entitle it to, and where *)
(* every client locks a post once this is so for all amounts and rates.        *)
THEOREM VestingBounded == ASSUME ClientRules PROVE Spec => []LocksVest
<1>1. TypeInv /\ OneVestedLock /\ [Next]_vars => OneVestedLock'
  BY OneVestedStep
<1>2. OneVestedLock => LocksVest
  BY OneVestedImplies
<1> QED BY TypeInvariant, OneVestedInit, <1>1, <1>2, PTL DEF Spec

-----------------------------------------------------------------------------
(* Conservation: what a list of locks is worth *)

Worth(s) == SumFunction([i \in DOMAIN s |-> s[i].value])

LEMMA WorthTyped ==
  ASSUME NEW s \in Seq(LockBox)
  PROVE  Worth(s) \in Nat
<1> DEFINE f == [i \in DOMAIN s |-> s[i].value]
<1>1. DOMAIN s = 1 .. Len(s) /\ Len(s) \in Nat
  OBVIOUS
<1>2. IsFiniteSet(DOMAIN s)
  BY <1>1, FS_Interval
<1>3. \A i \in DOMAIN s : f[i] \in Nat
  <2>1. \A i \in DOMAIN s : s[i] \in LockBox
    BY <1>1
  <2> QED BY <2>1 DEF LockBox
<1> HIDE DEF f
<1>4. SumFunctionOnSet(f, DOMAIN s) \in Nat
  BY <1>2, <1>3, SumNat
<1> QED BY <1>4 DEF Worth, SumFunction, f

LEMMA WorthAppend ==
  ASSUME NEW s \in Seq(LockBox), NEW box \in LockBox
  PROVE  Worth(Append(s, box)) = Worth(s) + box.value
<1> DEFINE n == Len(s)
           t == Append(s, box)
           new == n + 1
           f == [i \in DOMAIN s |-> s[i].value]
           g == [i \in DOMAIN t |-> t[i].value]
<1>1. /\ n \in Nat /\ DOMAIN s = 1 .. n /\ DOMAIN t = 1 .. n + 1 /\ t[n + 1] = box
      /\ \A i \in 1 .. n : t[i] = s[i]
  OBVIOUS
<1>2. t \in Seq(LockBox)
  OBVIOUS
<1>3. /\ IsFiniteSet(DOMAIN s) /\ IsFiniteSet(DOMAIN t)
      /\ new \in DOMAIN t /\ (DOMAIN t) \ {new} = DOMAIN s
      /\ \A i \in DOMAIN s : t[i] = s[i]
      /\ t[new] = box
  <2>1. IsFiniteSet(1 .. n)
    BY <1>1, FS_Interval
  <2>2. n + 1 \in Int
    BY <1>1
  <2> HIDE DEF n
  <2>3. IsFiniteSet(1 .. n + 1)
    BY <2>2, FS_Interval
  <2>4. n + 1 \in 1 .. n + 1 /\ (1 .. n + 1) \ {n + 1} = 1 .. n
    BY <1>1
  <2> HIDE DEF t
  <2> QED BY <1>1, <2>1, <2>3, <2>4
<1>4. /\ \A i \in DOMAIN t : t[i] \in LockBox
      /\ \A i \in DOMAIN s : s[i] \in LockBox
  BY <1>2
<1> HIDE DEF new, t
<1>5. /\ \A i \in DOMAIN t : g[i] \in Int
      /\ \A i \in DOMAIN s : g[i] = f[i]
      /\ g[new] = box.value
      /\ DOMAIN f = DOMAIN s /\ DOMAIN g = DOMAIN t
  BY <1>3, <1>4 DEF LockBox
<1> HIDE DEF f, g, n
<1>6. SumFunctionOnSet(g, DOMAIN t) = box.value + SumFunctionOnSet(g, DOMAIN s)
  BY <1>3, <1>5, SumWithout
<1>7. SumFunctionOnSet(g, DOMAIN s) = SumFunctionOnSet(f, DOMAIN s)
  BY <1>3, <1>5, SumSame
<1>8. Worth(t) = SumFunctionOnSet(g, DOMAIN t) /\ Worth(s) = SumFunctionOnSet(f, DOMAIN s)
  BY <1>5 DEF Worth, SumFunction, f, g
<1>9. Worth(s) \in Nat /\ box.value \in Nat
  BY WorthTyped DEF LockBox
<1> QED BY <1>6, <1>7, <1>8, <1>9 DEF t

LEMMA WorthTail ==
  ASSUME NEW s \in Seq(LockBox), s # << >>
  PROVE  Worth(Tail(s)) = Worth(s) - s[1].value
<1> DEFINE n == Len(s)
           t == Tail(s)
           f == [i \in DOMAIN s |-> s[i].value]
           g == [i \in DOMAIN t |-> t[i].value]
           next == [i \in DOMAIN t |-> i + 1]
           first == 1
<1>1. /\ n \in Nat \ {0} /\ DOMAIN s = 1 .. n /\ DOMAIN t = 1 .. n - 1
      /\ \A i \in 1 .. n - 1 : t[i] = s[i + 1]
      /\ \A i \in 1 .. n : s[i] \in LockBox
  OBVIOUS
<1> HIDE DEF n, t
<1>2. /\ first \in DOMAIN s
      /\ \A i \in DOMAIN t : next[i] \in DOMAIN s /\ next[i] # first /\ t[i] = s[next[i]]
      /\ \A i, j \in DOMAIN t : next[i] = next[j] => i = j
  BY <1>1
<1>3. {next[i] : i \in DOMAIN t} = (DOMAIN s) \ {first}
  <2>1. \A j \in (1 .. n) \ {1} : j - 1 \in 1 .. n - 1 /\ next[j - 1] = j
    BY <1>1
  <2>2. \A j \in (DOMAIN s) \ {first} : j - 1 \in DOMAIN t /\ next[j - 1] = j
    BY <1>1, <2>1
  <2> HIDE DEF next, first
  <2> QED BY <1>2, <2>2
<1>4. IsFiniteSet(DOMAIN s) /\ IsFiniteSet(DOMAIN t)
  BY <1>1, FS_Interval
<1>5. \A i \in DOMAIN s : s[i] \in LockBox
  BY <1>1
<1> HIDE DEF next, first
<1>6. /\ DOMAIN f = DOMAIN s /\ DOMAIN g = DOMAIN t
      /\ \A i \in DOMAIN s : f[i] \in Int
      /\ \A i \in DOMAIN t : f[next[i]] \in Int /\ g[i] = f[next[i]]
      /\ f[first] = s[first].value /\ f[first] \in Int
  BY <1>2, <1>5 DEF LockBox
<1> HIDE DEF f, g
<1>7. SumFunctionOnSet(g, DOMAIN t) = SumFunctionOnSet(f, (DOMAIN s) \ {first})
  <2>1. SumFunctionOnSet(g, DOMAIN t) = SumFunctionOnSet(f, {next[i] : i \in DOMAIN t})
    <3> DEFINE T == DOMAIN t
    <3>1. /\ IsFiniteSet(T)
          /\ \A i \in T : f[next[i]] \in Int /\ g[i] = f[next[i]]
          /\ \A i, j \in T : next[i] = next[j] => i = j
      BY <1>2, <1>4, <1>6
    <3> HIDE DEF T
    <3>2. SumFunctionOnSet(g, T) = SumFunctionOnSet(f, {next[i] : i \in T})
      BY <3>1, SumRenamed
    <3> QED BY <3>2 DEF T
  <2> QED BY <2>1, <1>3
<1>8. SumFunctionOnSet(f, DOMAIN s) = f[first] + SumFunctionOnSet(f, (DOMAIN s) \ {first})
  <2> DEFINE S == DOMAIN s
  <2>1. IsFiniteSet(S) /\ first \in S /\ \A i \in S : f[i] \in Int
    BY <1>2, <1>4, <1>6
  <2> HIDE DEF S
  <2>2. SumFunctionOnSet(f, S) = f[first] + SumFunctionOnSet(f, S \ {first})
    BY <2>1, SumWithout
  <2> QED BY <2>2 DEF S
<1>9. Worth(t) = SumFunctionOnSet(g, DOMAIN t) /\ Worth(s) = SumFunctionOnSet(f, DOMAIN s)
  BY <1>6 DEF Worth, SumFunction, f, g
<1>10. Worth(t) \in Nat
  <2>1. t \in Seq(LockBox)
    BY DEF t
  <2> QED BY <2>1, WorthTyped
<1> QED BY <1>6, <1>7, <1>8, <1>9, <1>10 DEF t, first

-----------------------------------------------------------------------------
(* Conservation: one step *)

Locks  == [p \in Post |-> LockedOn(p)]
Stakes == [v \in Pair |-> StakedOn(v)]

LEMMA PairsFinite == IsFiniteSet(Pair)
BY SetsAssumption, FS_Product DEF Pair

TermsAdd ==
  /\ karma \in [Identity -> Int] /\ Locks \in [Post -> Int] /\ Stakes \in [Pair -> Int]
  /\ SumFunction(karma) \in Int /\ SumFunction(Locks) \in Int /\ SumFunction(Stakes) \in Int
  /\ \A p \in Post : Locks[p] = Worth(locks[p])
  /\ AllKarma = SumFunction(karma) + SumFunction(Locks) + SumFunction(Stakes)

LEMMA Terms == TypeOK => TermsAdd
<1> SUFFICES ASSUME TypeOK PROVE TermsAdd
  OBVIOUS
<1>1. karma \in [Identity -> Int]
  BY DEF TypeOK
<1>2. \A p \in Post : Locks[p] = Worth(locks[p])
  BY DEF Locks, LockedOn, Worth
<1>3. Locks \in [Post -> Int]
  <2>1. \A p \in Post : Worth(locks[p]) \in Int
    BY WorthTyped DEF TypeOK
  <2>2. Locks = [p \in Post |-> Locks[p]]
    BY DEF Locks
  <2> QED BY <1>2, <2>1, <2>2
<1>4. Stakes \in [Pair -> Int]
  <2>1. \A v \in Pair : vouches[v] \in Nat
    BY DEF TypeOK
  <2>2. \A v \in Pair : StakedOn(v) \in Int
    BY <2>1, Amounts DEF StakedOn
  <2> QED BY <2>2 DEF Stakes
<1>5. SumFunction(karma) \in Int /\ SumFunction(Locks) \in Int /\ SumFunction(Stakes) \in Int
  BY <1>1, <1>3, <1>4, SumTyped, SetsAssumption, PairsFinite
<1>6. AllKarma = SumFunction(karma) + SumFunction(Locks) + SumFunction(Stakes)
  BY DEF AllKarma, Locks, Stakes
<1> QED BY <1>1, <1>2, <1>3, <1>4, <1>5, <1>6 DEF TermsAdd

LEMMA TermsPrime == TypeOK' => TermsAdd'
BY Terms, PTL

(* One step changes the karma there is by what it changes of the supply        *)
Balanced == AllKarma' - supply' = AllKarma - supply

LEMMA BalancedBy ==
  ASSUME TypeOK, TypeOK', NEW k \in Int, NEW l \in Int, NEW s \in Int,
         SumFunction(karma') = SumFunction(karma) + k,
         SumFunction(Locks') = SumFunction(Locks) + l,
         SumFunction(Stakes') = SumFunction(Stakes) + s
  PROVE  AllKarma' = AllKarma + (k + l + s)
<1>1. TermsAdd /\ TermsAdd'
  BY Terms, TermsPrime
<1> QED BY <1>1 DEF TermsAdd

LEMMA LocksUnchanged ==
  ASSUME TypeOK, locks' = locks PROVE SumFunction(Locks') = SumFunction(Locks) + 0
<1>1. TermsAdd
  BY Terms
<1> QED BY <1>1 DEF Locks, LockedOn, TermsAdd

LEMMA StakesUnchanged ==
  ASSUME TypeOK, vouches' = vouches, escrow' = escrow
  PROVE  SumFunction(Stakes') = SumFunction(Stakes) + 0
<1>1. TermsAdd
  BY Terms
<1> QED BY <1>1 DEF Stakes, StakedOn, TermsAdd

LEMMA SpendTakes ==
  ASSUME TypeOK, TypeOK', NEW u \in Identity, NEW n \in Nat, Spend(u, n)
  PROVE  SumFunction(karma') = SumFunction(karma) + -n
<1>1. karma \in [Identity -> Int] /\ karma' \in [Identity -> Int] /\ -n \in Int
  BY DEF TypeOK
<1>2. karma'[u] = karma[u] + -n /\ \A x \in Identity \ {u} : karma'[x] = karma[x]
  BY <1>1 DEF Spend
<1> QED BY <1>1, <1>2, SumShifted, SetsAssumption

LEMMA GrantBalanced ==
  ASSUME TypeOK, TypeOK', NEW u \in Identity, GrantKarma(u) PROVE Balanced
<1> DEFINE mid == [karma EXCEPT ![System] = @ + -GrantAmount]
<1>1. /\ System \in Identity /\ IsFiniteSet(Identity) /\ TermsAdd
      /\ TermsAdd' /\ GrantAmount \in Nat /\ -GrantAmount \in Int
  BY SetsAssumption, Amounts, Terms, TermsPrime
<1>2. /\ u # System
      /\ karma' = [karma EXCEPT ![System] = @ - GrantAmount, ![u] = @ + GrantAmount]
      /\ locks' = locks /\ vouches' = vouches /\ escrow' = escrow /\ supply' = supply
  BY DEF GrantKarma, tables
<1>3. /\ karma \in [Identity -> Int] /\ karma' \in [Identity -> Int]
      /\ SumFunction(karma) \in Int
  BY <1>1 DEF TermsAdd
<1>4. /\ mid \in [Identity -> Int] /\ mid[System] = karma[System] + -GrantAmount
      /\ \A x \in Identity \ {System} : mid[x] = karma[x]
  BY <1>1, <1>3
<1>5. karma'[u] = mid[u] + GrantAmount /\ \A x \in Identity \ {u} : karma'[x] = mid[x]
  <2>1. karma'[u] = karma[u] + GrantAmount /\ karma'[System] = karma[System] - GrantAmount
    BY <1>1, <1>2, <1>3
  <2>2. \A x \in Identity \ {u, System} : karma'[x] = karma[x]
    BY <1>2, <1>3
  <2> HIDE DEF mid
  <2>3. karma[System] - GrantAmount = karma[System] + -GrantAmount
    BY <1>1, <1>3
  <2> QED BY <1>2, <1>4, <2>1, <2>2, <2>3
<1> HIDE DEF mid
<1>6. SumFunction(mid) = SumFunction(karma) + -GrantAmount
  BY <1>1, <1>3, <1>4, SumShifted
<1>7. SumFunction(karma') = SumFunction(mid) + GrantAmount
  BY <1>1, <1>3, <1>4, <1>5, SumShifted
<1>8. SumFunction(karma') = SumFunction(karma) + 0
  BY <1>1, <1>3, <1>6, <1>7
<1>9. /\ SumFunction(Locks') = SumFunction(Locks) + 0
      /\ SumFunction(Stakes') = SumFunction(Stakes) + 0
  BY <1>2, LocksUnchanged, StakesUnchanged
<1>10. AllKarma' = AllKarma + (0 + 0 + 0)
  BY <1>8, <1>9, BalancedBy
<1> QED BY <1>1, <1>2, <1>10 DEF Balanced, TermsAdd

LEMMA ConsolidateBalanced ==
  ASSUME TypeOK, TypeOK', NEW u \in Identity, Consolidate(u) PROVE Balanced
<1>1. /\ Spend(u, 0) /\ locks' = locks /\ vouches' = vouches /\ escrow' = escrow
      /\ supply' = supply
  BY DEF Consolidate, tables
<1>2. SumFunction(karma') = SumFunction(karma) + -0
  BY <1>1, SpendTakes
<1>3. AllKarma' = AllKarma + (-0 + 0 + 0)
  BY <1>1, <1>2, LocksUnchanged, StakesUnchanged, BalancedBy
<1>4. TermsAdd
  BY Terms
<1> QED BY <1>1, <1>3, <1>4 DEF Balanced, TermsAdd

LEMMA LikeBalanced ==
  ASSUME TypeOK, TypeOK', NEW u \in Identity, NEW p \in Post, ApplyLike(u, p) PROVE Balanced
<1>1. /\ Spend(u, LikeCost) /\ locks' = locks /\ vouches' = vouches /\ escrow' = escrow
      /\ supply' = supply - LikeCost
  BY DEF ApplyLike
<1>2. LikeCost \in Nat /\ -LikeCost \in Int
  BY Amounts
<1>3. SumFunction(karma') = SumFunction(karma) + -LikeCost
  BY <1>1, <1>2, SpendTakes
<1>4. AllKarma' = AllKarma + (-LikeCost + 0 + 0)
  BY <1>1, <1>2, <1>3, LocksUnchanged, StakesUnchanged, BalancedBy
<1>5. TermsAdd /\ supply \in Int
  BY Terms DEF TypeOK
<1> QED BY <1>1, <1>2, <1>4, <1>5 DEF Balanced, TermsAdd

LEMMA LockBalanced ==
  ASSUME TypeOK, TypeOK', NEW u \in Identity, NEW p \in Post, NEW box \in AnyLock,
         LockKarma(u, p, box)
  PROVE  Balanced
<1>1. box \in LockBox /\ box.value \in Nat
  BY Amounts DEF AnyLock, LockBox
<1>2. /\ Spend(u, box.value) /\ locks' = [locks EXCEPT ![p] = Append(@, box)]
      /\ vouches' = vouches /\ escrow' = escrow /\ supply' = supply
  BY DEF LockKarma, tables
<1>3. SumFunction(karma') = SumFunction(karma) + -box.value
  BY <1>1, <1>2, SpendTakes
<1>4. locks \in [Post -> Seq(LockBox)] /\ TermsAdd /\ TermsAdd'
  BY Terms, TermsPrime DEF TypeOK
<1>5. /\ locks'[p] = Append(locks[p], box) /\ locks[p] \in Seq(LockBox)
      /\ \A q \in Post \ {p} : locks'[q] = locks[q]
  BY <1>2, <1>4
<1>6. \A q \in Post : Locks[q] = Worth(locks[q]) /\ Locks'[q] = Worth(locks'[q])
  BY <1>4 DEF TermsAdd
<1>7. \A q \in Post \ {p} : Locks'[q] = Locks[q]
  BY <1>5, <1>6
<1>8. Worth(Append(locks[p], box)) = Worth(locks[p]) + box.value
  BY <1>1, <1>5, WorthAppend
<1>9. Locks'[p] = Locks[p] + box.value
  BY <1>5, <1>6, <1>8
<1>10. /\ Locks \in [Post -> Int] /\ Locks' \in [Post -> Int] /\ Locks[p] \in Int
       /\ SumFunction(Locks) \in Int
  BY <1>4 DEF TermsAdd
<1>11. SumFunction(Locks') = SumFunction(Locks) - Locks[p] + Locks'[p]
  <2>1. IsFiniteSet(Post)
    BY SetsAssumption
  <2> QED BY <1>7, <1>10, <2>1, SumChanged
<1>12. SumFunction(Locks') = SumFunction(Locks) + box.value
  BY <1>1, <1>9, <1>10, <1>11
<1>13. -box.value \in Int
  BY <1>1
<1>14. AllKarma' = AllKarma + (-box.value + box.value + 0)
  BY <1>1, <1>2, <1>3, <1>12, <1>13, StakesUnchanged, BalancedBy
<1>15. AllKarma' = AllKarma + 0
  BY <1>1, <1>14
<1> QED BY <1>2, <1>4, <1>15 DEF Balanced, TermsAdd

(* The stake of one pair changes                                              *)
LEMMA StakeChanged ==
  ASSUME TypeOK, TypeOK', NEW w \in Pair,
         \A v \in Pair \ {w} : vouches'[v] = vouches[v] /\ escrow'[v] = escrow[v]
  PROVE  /\ SumFunction(Stakes') = SumFunction(Stakes) + (Stakes'[w] - Stakes[w])
         /\ Stakes'[w] - Stakes[w] \in Int
<1>1. TermsAdd /\ TermsAdd'
  BY Terms, TermsPrime
<1>2. /\ Stakes \in [Pair -> Int] /\ Stakes' \in [Pair -> Int]
      /\ SumFunction(Stakes) \in Int
  BY <1>1 DEF TermsAdd
<1>3. \A v \in Pair \ {w} : Stakes'[v] = Stakes[v]
  BY DEF Stakes, StakedOn
<1>4. SumFunction(Stakes') = SumFunction(Stakes) - Stakes[w] + Stakes'[w]
  BY <1>2, <1>3, SumChanged, PairsFinite
<1>5. Stakes[w] \in Int /\ Stakes'[w] \in Int
  BY <1>2
<1> QED BY <1>2, <1>4, <1>5

LEMMA VouchBalanced ==
  ASSUME TypeOK, TypeOK', NEW u \in Identity, NEW t \in Identity, CastVouch(u, t) PROVE Balanced
<1> DEFINE w == <<u, t>>
<1>1. w \in Pair
  BY DEF Pair
<1>2. /\ Spend(u, VouchAmount) /\ locks' = locks /\ supply' = supply
      /\ vouches' = [vouches EXCEPT ![w] = @ + 1] /\ escrow' = escrow /\ escrow[w] = 0
  BY DEF CastVouch, tables
<1>3. VouchAmount \in Nat /\ -VouchAmount \in Int
  BY Amounts
<1>4. SumFunction(karma') = SumFunction(karma) + -VouchAmount
  BY <1>2, <1>3, SpendTakes
<1>5. vouches \in [Pair -> Nat] /\ TermsAdd
  BY Terms DEF TypeOK
<1> HIDE DEF w
<1>6. /\ vouches[w] \in Nat /\ vouches'[w] = vouches[w] + 1
      /\ \A v \in Pair \ {w} : vouches'[v] = vouches[v] /\ escrow'[v] = escrow[v]
  BY <1>1, <1>2, <1>5
<1>7. Stakes'[w] - Stakes[w] = VouchAmount
  <2>1. /\ Stakes[w] = VouchAmount * (vouches[w] + 0)
        /\ Stakes'[w] = VouchAmount * ((vouches[w] + 1) + 0)
    BY <1>1, <1>2, <1>6 DEF Stakes, StakedOn
  <2> QED BY <1>3, <1>6, <2>1
<1>8. SumFunction(Stakes') = SumFunction(Stakes) + VouchAmount
  BY <1>1, <1>6, <1>7, StakeChanged
<1>9. AllKarma' = AllKarma + (-VouchAmount + 0 + VouchAmount)
  BY <1>2, <1>3, <1>4, <1>8, LocksUnchanged, BalancedBy
<1> QED BY <1>2, <1>3, <1>5, <1>9 DEF Balanced, TermsAdd

(* With no escrow row to replace the stake only changes its place; with one,    *)
(* one stake less is left and the supply counts it as lost.                    *)
LEMMA UnvouchBalanced ==
  ASSUME TypeOK, TypeOK', NEW u \in Identity, NEW t \in Identity, Unvouch(u, t)
  PROVE  Balanced
<1> DEFINE w == <<u, t>>
           d == Stakes'[w] - Stakes[w]
<1>1. w \in Pair
  BY DEF Pair
<1>2. /\ karma' = karma /\ supply \in Int /\ locks' = locks
      /\ supply' = IF escrow[w] = 0 THEN supply ELSE supply - VouchAmount
      /\ vouches[w] > 0
      /\ vouches' = [vouches EXCEPT ![w] = @ - 1]
      /\ escrow' = [escrow EXCEPT ![w] = Block + CooldownBlocks]
  BY DEF Unvouch, TypeOK
<1>3. /\ vouches \in [Pair -> Nat] /\ escrow \in [Pair -> Nat] /\ height \in Nat
      /\ TermsAdd /\ VouchAmount \in Nat
  <2>1. vouches \in [Pair -> Nat] /\ escrow \in [Pair -> Nat] /\ height \in 0 .. MaxHeight
    BY DEF TypeOK
  <2> QED BY <2>1, Terms, Amounts
<1>4. Block + CooldownBlocks # 0
  BY <1>3, Amounts DEF Block
<1> HIDE DEF w
<1>5. /\ vouches[w] \in Nat /\ vouches'[w] = vouches[w] - 1 /\ escrow'[w] # 0
      /\ \A v \in Pair \ {w} : vouches'[v] = vouches[v] /\ escrow'[v] = escrow[v]
  BY <1>1, <1>2, <1>3, <1>4
<1>6. d = IF escrow[w] = 0 THEN 0 ELSE -VouchAmount
  <2>1. /\ Stakes[w] = VouchAmount * (vouches[w] + IF escrow[w] = 0 THEN 0 ELSE 1)
        /\ Stakes'[w] = VouchAmount * ((vouches[w] - 1) + 1)
    BY <1>1, <1>5 DEF Stakes, StakedOn
  <2>2. CASE escrow[w] = 0
    BY <1>3, <1>5, <2>1, <2>2
  <2>3. CASE escrow[w] # 0
    BY <1>3, <1>5, <2>1, <2>3
  <2> QED BY <2>2, <2>3
<1>7. SumFunction(Stakes') = SumFunction(Stakes) + d /\ d \in Int
  BY <1>1, <1>5, StakeChanged
<1> HIDE DEF d
<1>8. SumFunction(karma') = SumFunction(karma) + 0
  BY <1>2, <1>3 DEF TermsAdd
<1>9. AllKarma' = AllKarma + (0 + 0 + d)
  BY <1>2, <1>7, <1>8, LocksUnchanged, BalancedBy
<1> QED BY <1>2, <1>3, <1>6, <1>7, <1>9 DEF Balanced, TermsAdd, w

LEMMA LocksDrop ==
  ASSUME TypeOK, TypeOK', NEW g \in [Post -> Int],
         \A p \in Post : Worth(locks[p]) = Worth(locks'[p]) + g[p]
  PROVE  SumFunction(Locks) = SumFunction(Locks') + SumFunction(g)
<1>1. TermsAdd /\ TermsAdd' /\ IsFiniteSet(Post)
  BY Terms, TermsPrime, SetsAssumption
<1>2. Locks \in [Post -> Int] /\ Locks' \in [Post -> Int]
  BY <1>1 DEF TermsAdd
<1>3. \A p \in Post : Locks[p] = Locks'[p] + g[p]
  BY <1>1 DEF TermsAdd
<1>4. AddsUp(Post, Locks', g, Locks)
  BY <1>2, <1>3 DEF AddsUp
<1> QED BY <1>1, <1>4, SumAdded

(* What a prune refunds is what it takes out of the locks.                     *)
LEMMA PruneBalanced ==
  ASSUME TypeOK, TypeOK', NEW p \in Post, PrunePost(p) PROVE Balanced
<1> DEFINE R == Refunded(Subtree(p))
           g == [q \in Post |-> IF q \in R THEN LockOf(q).value ELSE 0]
           o == [q \in Post |-> LockOf(q).owner]
           refund(u) == SumFunction([q \in RefundTo(u, Subtree(p)) |-> LockOf(q).value])
           h == [u \in Identity |-> refund(u)]
<1>1. /\ \A u \in Identity : karma'[u] = karma[u] + refund(u)
      /\ \A q \in Post : locks'[q] = IF q \in R THEN Tail(locks[q]) ELSE locks[q]
      /\ vouches' = vouches /\ escrow' = escrow /\ supply' = supply
  BY DEF PrunePost
<1>2. R \subseteq Post /\ \A q \in R : Locked(q)
  BY DEF Refunded, Subtree
<1>3. \A q \in R : LockOf(q).value \in Nat /\ LockOf(q).owner \in Identity
  BY <1>2, LockTyped
<1>4. \A u \in Identity : RefundTo(u, Subtree(p)) = {q \in R : o[q] = u}
  BY <1>2 DEF RefundTo
<1>5. TermsAdd /\ TermsAdd' /\ IsFiniteSet(Post) /\ IsFiniteSet(Identity)
  BY Terms, TermsPrime, SetsAssumption
<1>6. /\ g \in [Post -> Int] /\ \A q \in Post \ R : g[q] = 0
      /\ \A q \in R : g[q] = LockOf(q).value /\ g[q] \in Nat /\ o[q] \in Identity
  BY <1>2, <1>3
<1> HIDE DEF R, g, o
<1>7. ASSUME NEW u \in Identity
      PROVE  /\ refund(u) = SumFunctionOnSet(g, {q \in R : o[q] = u})
             /\ refund(u) \in Int
  <2> DEFINE T == {q \in R : o[q] = u}
             f == [q \in T |-> LockOf(q).value]
  <2>1. T \subseteq Post /\ T \subseteq R /\ DOMAIN f = T
    BY <1>2
  <2>2. IsFiniteSet(T)
    BY <1>5, <2>1, FS_Subset
  <2>3. \A q \in T : f[q] = g[q] /\ f[q] \in Int
    BY <1>6, <2>1
  <2>4. refund(u) = SumFunction(f)
    BY <1>4
  <2> HIDE DEF T, f
  <2>5. SumFunction(f) = SumFunctionOnSet(f, T)
    BY <2>1 DEF SumFunction
  <2>6. SumFunctionOnSet(f, T) = SumFunctionOnSet(g, T) /\ SumFunctionOnSet(f, T) \in Int
    BY <2>2, <2>3, SumSame, SumInt
  <2> QED BY <2>4, <2>5, <2>6 DEF T
<1>8. /\ h \in [Identity -> Int]
      /\ \A u \in Identity : h[u] = refund(u)
                            /\ h[u] = SumFunctionOnSet(g, {q \in R : o[q] = u})
  <2> HIDE DEF refund
  <2> QED BY <1>7
<1> HIDE DEF h, refund
<1>9. SumFunction(h) = SumFunction(g)
  <2>1. PaysOut(Post, Identity, R, g, o, h)
    BY <1>2, <1>6, <1>8 DEF PaysOut
  <2> QED BY <1>5, <2>1, SumPaidOut
<1>10. SumFunction(karma') = SumFunction(karma) + SumFunction(h)
  <2>1. karma \in [Identity -> Int] /\ karma' \in [Identity -> Int]
    BY <1>5 DEF TermsAdd
  <2>2. \A u \in Identity : karma'[u] = karma[u] + h[u]
    BY <1>1, <1>8
  <2>3. AddsUp(Identity, karma, h, karma')
    BY <1>8, <2>1, <2>2 DEF AddsUp
  <2> QED BY <1>5, <2>3, SumAdded
<1>11. SumFunction(Locks) = SumFunction(Locks') + SumFunction(g)
  <2>1. ASSUME NEW q \in Post PROVE Worth(locks[q]) = Worth(locks'[q]) + g[q]
    <3>1. locks[q] \in Seq(LockBox) /\ locks'[q] \in Seq(LockBox)
      BY DEF TypeOK
    <3>2. Worth(locks[q]) \in Nat /\ Worth(locks'[q]) \in Nat
      BY <3>1, WorthTyped
    <3>3. CASE q \notin R
      BY <1>1, <1>6, <3>2, <3>3
    <3>4. CASE q \in R
      <4>1. locks[q] # << >> /\ LockOf(q) = locks[q][1] /\ locks'[q] = Tail(locks[q])
        BY <1>1, <1>2, <3>1, <3>4 DEF Locked, LockOf
      <4>2. Worth(Tail(locks[q])) = Worth(locks[q]) - locks[q][1].value
        BY <3>1, <4>1, WorthTail
      <4>3. g[q] = locks[q][1].value /\ g[q] \in Int
        BY <1>6, <3>4, <4>1
      <4> QED BY <3>2, <4>1, <4>2, <4>3
    <3> QED BY <3>3, <3>4
  <2> QED BY <1>6, <2>1, LocksDrop
<1>12. SumFunction(g) \in Int /\ SumFunction(Locks) \in Int /\ SumFunction(Locks') \in Int
  BY <1>5, <1>6, SumTyped DEF TermsAdd
<1> DEFINE k == SumFunction(g)
<1>13. SumFunction(karma') = SumFunction(karma) + k
  BY <1>9, <1>10
<1>14. SumFunction(Locks') = SumFunction(Locks) + -k /\ k \in Int /\ -k \in Int
  BY <1>11, <1>12
<1> HIDE DEF k
<1>15. AllKarma' = AllKarma + (k + -k + 0)
  BY <1>1, <1>13, <1>14, StakesUnchanged, BalancedBy
<1> QED BY <1>1, <1>5, <1>14, <1>15 DEF Balanced, TermsAdd

(* What the settlement of a block pays, vests, gives back and burns            *)
Pays   == [u \in Identity |-> Payout(u)]
Vests  == [u \in Identity |-> SumFunction([p \in Vesting(u) |-> ToUnlock(p)])]
Gives  == [u \in Identity |-> Cardinality(Matured(u)) * VouchAmount]
Burns  == [u \in Identity |-> DecayBurn(u)]
Opens  == [p \in Post |-> ToUnlock(p)]
Mature == {v \in Pair : v[2] \in Matured(v[1])}
Frees  == [v \in Pair |-> IF v \in Mature THEN VouchAmount ELSE 0]

LEMMA SettleTerms ==
  ASSUME TypeInv
  PROVE  /\ Pays \in [Identity -> Int] /\ Vests \in [Identity -> Int]
         /\ Gives \in [Identity -> Int] /\ Burns \in [Identity -> Int]
         /\ Opens \in [Post -> Int] /\ Frees \in [Pair -> Int]
<1>1. \A u \in Identity : Payout(u) \in Int
  BY PayoutTyped DEF TypeInv
<1>2. \A u \in Identity : SumFunction([p \in Vesting(u) |-> ToUnlock(p)]) \in Int
  BY VestingTyped DEF TypeInv
<1>3. \A u \in Identity : Cardinality(Matured(u)) * VouchAmount \in Int
  <2> SUFFICES ASSUME NEW u \in Identity PROVE Cardinality(Matured(u)) * VouchAmount \in Int
    OBVIOUS
  <2>1. Cardinality(Matured(u)) \in Nat /\ VouchAmount \in Nat
    BY MaturedTyped, Amounts DEF TypeInv
  <2> QED BY <2>1
<1>4. \A u \in Identity : DecayBurn(u) \in Int
  BY SettledTyped DEF TypeInv
<1>5. \A p \in Post : ToUnlock(p) \in Int
  BY ToUnlockTyped DEF TypeInv
<1>6. VouchAmount \in Int
  BY Amounts
<1> QED BY <1>1, <1>2, <1>3, <1>4, <1>5, <1>6 DEF Pays, Vests, Gives, Burns, Opens, Frees

(* What vests is what the locks open.                                          *)
LEMMA VestsAreOpened ==
  ASSUME TypeInv PROVE SumFunction(Vests) = SumFunction(Opens)
<1> DEFINE R == {p \in Post : ToUnlock(p) > 0}
           o == [p \in Post |-> LockOf(p).owner]
<1>1. IsFiniteSet(Post) /\ IsFiniteSet(Identity) /\ TypeOK
  BY SetsAssumption DEF TypeInv
<1>2. \A p \in Post : ToUnlock(p) \in Nat /\ Opens[p] = ToUnlock(p)
  BY <1>1, ToUnlockTyped DEF Opens
<1>3. \A p \in R : o[p] \in Identity
  BY <1>1, ToUnlockTyped, LockTyped
<1>4. ASSUME NEW u \in Identity
      PROVE  Vests[u] = SumFunctionOnSet(Opens, {p \in R : o[p] = u})
  <2> DEFINE T == {p \in R : o[p] = u}
             f == [p \in T |-> ToUnlock(p)]
  <2>1. Vesting(u) = T
    BY DEF Vesting
  <2>2. IsFiniteSet(T) /\ \A p \in T : f[p] = Opens[p]
    <3>1. T \subseteq Post
      OBVIOUS
    <3> QED BY <1>1, <1>2, <3>1, FS_Subset
  <2>3. Vests[u] = SumFunction(f) /\ DOMAIN f = T
    BY <2>1 DEF Vests
  <2> HIDE DEF T, f
  <2>4. SumFunction(f) = SumFunctionOnSet(f, T)
    BY <2>3 DEF SumFunction
  <2>5. SumFunctionOnSet(f, T) = SumFunctionOnSet(Opens, T)
    BY <2>2, SumSame
  <2> QED BY <2>3, <2>4, <2>5 DEF T
<1>5. R \subseteq Post /\ \A p \in Post \ R : Opens[p] = 0
  BY <1>2
<1>6. PaysOut(Post, Identity, R, Opens, o, Vests)
  <2> HIDE DEF R, o
  <2> QED BY <1>3, <1>4, <1>5, SettleTerms DEF PaysOut
<1> QED BY <1>1, <1>6, SumPaidOut

(* What vouchers get back is what the escrow frees.                            *)
LEMMA GivesAreFreed ==
  ASSUME TypeInv PROVE SumFunction(Gives) = SumFunction(Frees)
<1> DEFINE o == [v \in Pair |-> v[1]]
<1>1. IsFiniteSet(Identity) /\ IsFiniteSet(Pair) /\ VouchAmount \in Int
  BY SetsAssumption, PairsFinite, Amounts
<1>2. /\ Mature \subseteq Pair /\ \A v \in Mature : o[v] \in Identity
      /\ \A v \in Pair \ Mature : Frees[v] = 0
      /\ \A v \in Mature : Frees[v] = VouchAmount
  BY DEF Mature, Frees, Pair
<1>3. ASSUME NEW u \in Identity
      PROVE  Gives[u] = SumFunctionOnSet(Frees, {v \in Mature : o[v] = u})
  <2> DEFINE T == Matured(u)
             b == [t \in T |-> <<u, t>>]
             g == [t \in T |-> VouchAmount]
             I == {b[t] : t \in T}
  <2>1. T \subseteq Identity /\ IsFiniteSet(T)
    BY MaturedTyped DEF TypeInv
  <2>2. \A t \in T : b[t] = <<u, t>> /\ b[t] \in Mature
    BY <2>1 DEF Mature, Pair
  <2>3. \A t \in T : g[t] = VouchAmount /\ Frees[b[t]] = VouchAmount
    BY <1>2, <2>2
  <2>4. \A s, t \in T : b[s] = b[t] => s = t
    BY <2>2
  <2>5. I = {v \in Mature : o[v] = u}
    <3>1. \A v \in Mature : v = <<v[1], v[2]>> /\ v[2] \in Matured(v[1]) /\ o[v] = v[1]
      BY DEF Mature, Pair
    <3>2. \A v \in Mature : o[v] = u => v[2] \in T /\ v = b[v[2]]
      BY <2>2, <3>1
    <3>3. \A t \in T : o[b[t]] = u
      BY <2>1, <2>2 DEF Pair
    <3> HIDE DEF T, b, o
    <3> QED BY <2>2, <3>2, <3>3
  <2>6. Gives[u] = Cardinality(T) * VouchAmount
    BY DEF Gives
  <2> HIDE DEF T, b, g
  <2>7. SumFunctionOnSet(g, T) = Cardinality(T) * VouchAmount
    BY <1>1, <2>1, <2>3, SumConstant
  <2>8. SumFunctionOnSet(g, T) = SumFunctionOnSet(Frees, {b[t] : t \in T})
    BY <1>1, <2>1, <2>3, <2>4, SumRenamed
  <2>9. Gives[u] = SumFunctionOnSet(Frees, I)
    BY <2>6, <2>7, <2>8
  <2> HIDE DEF I, o
  <2> QED BY <2>5, <2>9
<1>4. PaysOut(Pair, Identity, Mature, Frees, o, Gives)
  <2> HIDE DEF o
  <2> QED BY <1>2, <1>3, SettleTerms DEF PaysOut
<1> QED BY <1>1, <1>4, SumPaidOut

LEMMA SettleKarma ==
  ASSUME TypeInv, TypeOK', SettleBlock
  PROVE  SumFunction(karma') = SumFunction(karma) + SumFunction(Pays) + SumFunction(Vests)
                                 + SumFunction(Gives) - SumFunction(Burns)
<1> DEFINE a == [u \in Identity |-> karma[u] + Pays[u]]
           b == [u \in Identity |-> a[u] + Vests[u]]
           c == [u \in Identity |-> b[u] + Gives[u]]
<1>1. /\ karma \in [Identity -> Int] /\ karma' \in [Identity -> Int] /\ IsFiniteSet(Identity)
      /\ Pays \in [Identity -> Int] /\ Vests \in [Identity -> Int]
      /\ Gives \in [Identity -> Int] /\ Burns \in [Identity -> Int]
  <2>1. karma \in [Identity -> Int] /\ karma' \in [Identity -> Int]
    BY DEF TypeInv, TypeOK
  <2> QED BY <2>1, SettleTerms, SetsAssumption
<1>2. /\ a \in [Identity -> Int] /\ \A u \in Identity : a[u] = karma[u] + Pays[u]
      /\ b \in [Identity -> Int] /\ \A u \in Identity : b[u] = a[u] + Vests[u]
      /\ c \in [Identity -> Int] /\ \A u \in Identity : c[u] = b[u] + Gives[u]
  <2>1. a \in [Identity -> Int] /\ \A u \in Identity : a[u] = karma[u] + Pays[u]
    BY <1>1
  <2> HIDE DEF a
  <2>2. b \in [Identity -> Int] /\ \A u \in Identity : b[u] = a[u] + Vests[u]
    BY <1>1, <2>1
  <2> HIDE DEF b
  <2>3. c \in [Identity -> Int] /\ \A u \in Identity : c[u] = b[u] + Gives[u]
    BY <1>1, <2>2
  <2> QED BY <2>1, <2>2, <2>3
<1> HIDE DEF a, b, c
<1>3. \A u \in Identity : c[u] = karma'[u] + Burns[u]
  <2> SUFFICES ASSUME NEW u \in Identity PROVE c[u] = karma'[u] + Burns[u]
    OBVIOUS
  <2>1. karma'[u] = (karma[u] + Pays[u] + Vests[u]) - Burns[u] + Gives[u]
    BY DEF SettleBlock, Settled, Pays, Vests, Burns, Gives
  <2>2. /\ karma[u] \in Int /\ Pays[u] \in Int /\ Vests[u] \in Int /\ Burns[u] \in Int
        /\ Gives[u] \in Int
    BY <1>1
  <2>3. c[u] = karma[u] + Pays[u] + Vests[u] + Gives[u]
    BY <1>2
  <2> QED BY <2>1, <2>2, <2>3
<1>4. /\ AddsUp(Identity, karma, Pays, a) /\ AddsUp(Identity, a, Vests, b)
      /\ AddsUp(Identity, b, Gives, c) /\ AddsUp(Identity, karma', Burns, c)
  BY <1>1, <1>2, <1>3 DEF AddsUp
<1>5. /\ SumFunction(a) = SumFunction(karma) + SumFunction(Pays)
      /\ SumFunction(b) = SumFunction(a) + SumFunction(Vests)
      /\ SumFunction(c) = SumFunction(b) + SumFunction(Gives)
      /\ SumFunction(c) = SumFunction(karma') + SumFunction(Burns)
  BY <1>1, <1>4, SumAdded
<1>6. /\ SumFunction(karma) \in Int /\ SumFunction(karma') \in Int /\ SumFunction(Pays) \in Int
      /\ SumFunction(Vests) \in Int /\ SumFunction(Gives) \in Int /\ SumFunction(Burns) \in Int
  BY <1>1, SumTyped
<1> QED BY <1>5, <1>6

(* What a lock opens is gone from the locks.                                   *)
LEMMA SettleLocks ==
  ASSUME TypeInv, TypeOK', SettleBlock
  PROVE  SumFunction(Locks) = SumFunction(Locks') + SumFunction(Opens)
<1>1. ASSUME NEW p \in Post PROVE Worth(locks[p]) = Worth(locks'[p]) + Opens[p]
  <2> DEFINE s == locks[p]
             left == LockOf(p).value - ToUnlock(p)
             rest == [LockOf(p) EXCEPT !.value = left]
  <2>1. /\ locks'[p] = AfterVesting(p) /\ Opens[p] = ToUnlock(p) /\ ToUnlock(p) \in Nat
        /\ s \in Seq(LockBox)
    BY ToUnlockTyped DEF SettleBlock, Opens, TypeInv, TypeOK
  <2>2. Worth(s) \in Nat
    BY <2>1, WorthTyped
  <2>3. CASE ToUnlock(p) = 0
    BY <2>1, <2>2, <2>3 DEF AfterVesting
  <2>4. CASE ToUnlock(p) # 0
    <3>1. Locked(p) /\ ToUnlock(p) <= LockOf(p).value /\ LockOf(p) \in LockBox
          /\ LockOf(p).value \in Nat
      BY <2>1, <2>4, ToUnlockTyped, LockTyped DEF TypeInv
    <3>2. s # << >> /\ LockOf(p) = s[1] /\ Tail(s) \in Seq(LockBox)
      BY <2>1, <3>1 DEF Locked, LockOf
    <3>3. Worth(Tail(s)) = Worth(s) - LockOf(p).value
      BY <2>1, <3>2, WorthTail
    <3>4. AfterVesting(p) = Tail(s) \o (IF left = 0 THEN << >> ELSE <<rest>>)
      BY <2>4 DEF AfterVesting
    <3>5. left \in Nat
      BY <2>1, <3>1
    <3>6. rest \in LockBox /\ rest.value = left
      <4> HIDE DEF left
      <4> QED BY <3>1, <3>5 DEF LockBox
    <3> HIDE DEF s, rest
    <3>7. CASE left = 0
      <4>1. AfterVesting(p) = Tail(s)
        BY <3>2, <3>4, <3>7
      <4> QED BY <2>1, <2>2, <3>1, <3>3, <3>7, <4>1 DEF s
    <3>8. CASE left # 0
      <4>1. AfterVesting(p) = Append(Tail(s), rest)
        BY <3>2, <3>4, <3>6, <3>8
      <4>2. Worth(Append(Tail(s), rest)) = Worth(Tail(s)) + left
        BY <3>2, <3>6, WorthAppend
      <4> QED BY <2>1, <2>2, <3>1, <3>3, <4>1, <4>2 DEF s
    <3> QED BY <3>7, <3>8
  <2> QED BY <2>3, <2>4
<1> QED BY <1>1, LocksDrop, SettleTerms DEF TypeInv

(* What the escrow frees is gone from the stakes.                              *)
LEMMA SettleStakes ==
  ASSUME TypeInv, TypeOK', SettleBlock
  PROVE  SumFunction(Stakes) = SumFunction(Stakes') + SumFunction(Frees)
<1>1. /\ Stakes \in [Pair -> Int] /\ Stakes' \in [Pair -> Int] /\ Frees \in [Pair -> Int]
      /\ IsFiniteSet(Pair)
  <2>1. TermsAdd /\ TermsAdd'
    BY Terms, TermsPrime DEF TypeInv
  <2> QED BY <2>1, SettleTerms, PairsFinite DEF TermsAdd
<1>2. ASSUME NEW v \in Pair PROVE Stakes[v] = Stakes'[v] + Frees[v]
  <2>1. /\ vouches'[v] = vouches[v] /\ vouches[v] \in Nat /\ VouchAmount \in Nat
        /\ escrow'[v] = IF v \in Mature THEN 0 ELSE escrow[v]
        /\ Frees[v] = IF v \in Mature THEN VouchAmount ELSE 0
    BY Amounts DEF SettleBlock, TypeInv, TypeOK, Mature, Frees
  <2>2. v \in Mature => escrow[v] # 0
    <3>1. v = <<v[1], v[2]>>
      BY DEF Pair
    <3>2. v \in Mature => v[2] \in Matured(v[1])
      BY DEF Mature
    <3>3. v \in Mature => escrow[<<v[1], v[2]>>] # 0
      BY <3>2 DEF Matured
    <3> QED BY <3>1, <3>3
  <2>3. /\ Stakes[v] = VouchAmount * (vouches[v] + IF escrow[v] = 0 THEN 0 ELSE 1)
        /\ Stakes'[v] = VouchAmount * (vouches'[v] + IF escrow'[v] = 0 THEN 0 ELSE 1)
    BY DEF Stakes, StakedOn
  <2>4. CASE v \in Mature
    <3>1. Stakes[v] = VouchAmount * (vouches[v] + 1) /\ Stakes'[v] = VouchAmount * (vouches[v] + 0)
      BY <2>1, <2>2, <2>3, <2>4
    <3>2. VouchAmount * (vouches[v] + 1) = VouchAmount * (vouches[v] + 0) + VouchAmount
      BY <2>1
    <3> QED BY <2>1, <2>4, <3>1, <3>2
  <2>5. CASE v \notin Mature
    <3>1. Stakes'[v] = Stakes[v] /\ Frees[v] = 0
      BY <2>1, <2>3, <2>5
    <3> QED BY <1>1, <3>1
  <2> QED BY <2>4, <2>5
<1>3. AddsUp(Pair, Stakes', Frees, Stakes)
  BY <1>1, <1>2 DEF AddsUp
<1> QED BY <1>1, <1>3, SumAdded

LEMMA SettleBalanced ==
  ASSUME TypeInv, TypeOK', SettleBlock PROVE Balanced
<1>1. /\ supply' = supply + SumFunction(Pays) - SumFunction(Burns) /\ supply \in Int
      /\ IsFiniteSet(Identity) /\ TypeOK
  BY SetsAssumption DEF SettleBlock, Pays, Burns, TypeInv, TypeOK
<1> DEFINE py == SumFunction(Pays)
           bu == SumFunction(Burns)
           op == SumFunction(Opens)
           fr == SumFunction(Frees)
<1>2. py \in Int /\ bu \in Int /\ op \in Int /\ fr \in Int
  BY SettleTerms, SumTyped, SetsAssumption, PairsFinite
<1>3. TermsAdd /\ TermsAdd'
  BY <1>1, Terms, TermsPrime
<1>4. /\ SumFunction(karma) \in Int /\ SumFunction(Locks) \in Int /\ SumFunction(Stakes) \in Int
      /\ SumFunction(Locks') \in Int /\ SumFunction(Stakes') \in Int /\ AllKarma \in Int
  BY <1>3 DEF TermsAdd
<1>5. SumFunction(karma') = SumFunction(karma) + py + op + fr - bu
  BY SettleKarma, VestsAreOpened, GivesAreFreed
<1>6. SumFunction(Locks) = SumFunction(Locks') + op
  BY SettleLocks
<1>7. SumFunction(Stakes) = SumFunction(Stakes') + fr
  BY SettleStakes
<1>8. supply' = supply + py - bu
  BY <1>1
<1> HIDE DEF py, bu, op, fr
<1>9. /\ SumFunction(karma') = SumFunction(karma) + (py + op + fr - bu)
      /\ SumFunction(Locks') = SumFunction(Locks) + -op
      /\ SumFunction(Stakes') = SumFunction(Stakes) + -fr
      /\ (py + op + fr - bu) \in Int /\ -op \in Int /\ -fr \in Int
  BY <1>2, <1>4, <1>5, <1>6, <1>7
<1>10. AllKarma' = AllKarma + ((py + op + fr - bu) + -op + -fr)
  BY <1>1, <1>9, BalancedBy
<1>11. AllKarma' = AllKarma + (py - bu)
  BY <1>2, <1>4, <1>10
<1> QED BY <1>1, <1>2, <1>4, <1>8, <1>11 DEF Balanced

-----------------------------------------------------------------------------
(* Conservation: the theorems *)

LEMMA KarmaInit == Init => KarmaConserved
<1> SUFFICES ASSUME Init PROVE KarmaConserved
  OBVIOUS
<1>1. TypeOK /\ TermsAdd /\ IsFiniteSet(Identity) /\ IsFiniteSet(Post) /\ System \in Identity
  BY InitTyped, Terms, SetsAssumption DEF TypeInv
<1>2. /\ \A u \in Identity : karma[u] = IF u = System THEN SystemKarma ELSE 0
      /\ \A p \in Post : locks[p] = << >>
      /\ \A v \in Pair : vouches[v] = 0 /\ escrow[v] = 0
      /\ supply = SystemKarma /\ SystemKarma \in Int
  BY Amounts DEF Init
<1>3. SumFunction(karma) = SystemKarma
  <2> DEFINE none == [u \in Identity |-> 0]
  <2>1. /\ none \in [Identity -> Int] /\ none[System] = 0 /\ \A u \in Identity : none[u] = 0
        /\ DOMAIN none = Identity
    BY <1>1
  <2>2. karma \in [Identity -> Int]
    BY <1>1 DEF TermsAdd
  <2>3. karma[System] = none[System] + SystemKarma /\ \A u \in Identity \ {System} : karma[u] = none[u]
    BY <1>1, <1>2
  <2> HIDE DEF none
  <2>4. SumFunction(karma) = SumFunction(none) + SystemKarma
    BY <1>1, <1>2, <2>1, <2>2, <2>3, SumShifted
  <2>5. SumFunction(none) = Cardinality(Identity) * 0
    BY <1>1, <2>1, SumConstant DEF SumFunction
  <2>6. Cardinality(Identity) \in Nat
    BY <1>1, FS_CardinalityType
  <2> QED BY <1>2, <2>4, <2>5, <2>6
<1>4. SumFunction(Locks) = 0
  <2>1. ASSUME NEW p \in Post PROVE Locks[p] = 0
    <3>1. DOMAIN locks[p] = {}
      BY <1>2
    <3> DEFINE f == [i \in DOMAIN locks[p] |-> locks[p][i].value]
    <3>2. Locks[p] = SumFunction(f) /\ DOMAIN f = {}
      BY <3>1 DEF Locks, LockedOn
    <3> HIDE DEF f
    <3> QED BY <3>2, SumEmpty DEF SumFunction
  <2>2. DOMAIN Locks = Post
    BY DEF Locks
  <2>3. SumFunction(Locks) = Cardinality(Post) * 0
    BY <1>1, <2>1, <2>2, SumConstant DEF SumFunction
  <2>4. Cardinality(Post) \in Nat
    BY <1>1, FS_CardinalityType
  <2> QED BY <2>3, <2>4
<1>5. SumFunction(Stakes) = 0
  <2>1. \A v \in Pair : Stakes[v] = 0
    BY <1>2, Amounts DEF Stakes, StakedOn
  <2>2. DOMAIN Stakes = Pair
    BY DEF Stakes
  <2>3. SumFunction(Stakes) = Cardinality(Pair) * 0
    BY <2>1, <2>2, PairsFinite, SumConstant DEF SumFunction
  <2>4. Cardinality(Pair) \in Nat
    BY PairsFinite, FS_CardinalityType
  <2> QED BY <2>3, <2>4
<1> QED BY <1>1, <1>2, <1>3, <1>4, <1>5 DEF TermsAdd, KarmaConserved

LEMMA Differences ==
  ASSUME NEW a \in Int, NEW b \in Int, NEW c \in Int, NEW d \in Int
  PROVE  c - d = a - b /\ a = b => c = d
OBVIOUS

(* Every step changes the karma there is and the supply by the same.           *)
LEMMA StepBalanced ==
  ASSUME TypeInv, TypeOK', [Next]_vars PROVE Balanced
<1>1. TermsAdd /\ TermsAdd' /\ TypeOK /\ supply \in Int /\ supply' \in Int
  BY Terms, TermsPrime DEF TypeInv, TypeOK
<1>2. AllKarma \in Int /\ AllKarma' \in Int
  BY <1>1 DEF TermsAdd
<1>4. ASSUME locks' = locks, vouches' = vouches, escrow' = escrow, karma' = karma,
             supply' = supply
      PROVE  Balanced
  <2>1. SumFunction(karma') = SumFunction(karma) + 0
    BY <1>1, <1>4 DEF TermsAdd
  <2>2. AllKarma' = AllKarma + (0 + 0 + 0)
    BY <1>1, <1>4, <2>1, LocksUnchanged, StakesUnchanged, BalancedBy
  <2> QED BY <1>2, <1>4, <2>2 DEF Balanced
<1>5. ASSUME NEW p \in Post, ConfirmSubBlock(p) \/ PrunePost(p) PROVE Balanced
  BY <1>1, <1>4, <1>5, PruneBalanced DEF ConfirmSubBlock, value, ghosts
<1>6. ASSUME NEW u \in Identity, Consolidate(u) \/ GrantKarma(u) PROVE Balanced
  BY <1>1, <1>6, ConsolidateBalanced, GrantBalanced
<1>7. ASSUME NEW u \in Identity, NEW p \in Post, ApplyLike(u, p) PROVE Balanced
  BY <1>1, <1>7, LikeBalanced
<1>8. ASSUME NEW u \in Identity, NEW p \in Post, NEW box \in AnyLock, LockKarma(u, p, box)
      PROVE  Balanced
  BY <1>1, <1>8, LockBalanced
<1>9. ASSUME NEW u \in Identity, NEW t \in Identity, CastVouch(u, t) \/ Unvouch(u, t)
      PROVE  Balanced
  BY <1>1, <1>9, VouchBalanced, UnvouchBalanced
<1>10. CASE SettleBlock
  BY <1>1, <1>10, SettleBalanced
<1>11. CASE UNCHANGED vars
  BY <1>4, <1>11 DEF vars, value, tables, ghosts
<1> QED BY <1>5, <1>6, <1>7, <1>8, <1>9, <1>10, <1>11 DEF Next

(* Karma only appears as a like payout and only disappears as a like, as decay *)
(* or with a replaced escrow row, whatever boxes clients ask for, several locks *)
(* of a post and several vouches of a pair among them: for every number of     *)
(* identities and posts and all amounts, rates and intervals.                  *)
THEOREM KarmaIsConserved == Spec => []KarmaConserved
<1>1. TypeInv /\ TypeInv' /\ KarmaConserved /\ [Next]_vars => KarmaConserved'
  <2> SUFFICES ASSUME TypeInv, TypeInv', KarmaConserved, [Next]_vars
               PROVE  KarmaConserved'
    OBVIOUS
  <2>1. TypeOK /\ TypeOK' /\ TermsAdd /\ TermsAdd'
    BY Terms, TermsPrime DEF TypeInv
  <2>2. supply \in Int /\ supply' \in Int /\ AllKarma \in Int /\ AllKarma' \in Int
    BY <2>1 DEF TypeOK, TermsAdd
  <2>3. AllKarma' - supply' = AllKarma - supply
    BY <2>1, StepBalanced DEF Balanced
  <2> QED BY <2>2, <2>3, Differences DEF KarmaConserved
<1> QED BY TypeInvariant, KarmaInit, <1>1, PTL DEF Spec

=============================================================================
