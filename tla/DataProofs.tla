----------------------------- MODULE DataProofs -----------------------------
(***************************************************************************)
(* The sample plan for every number of sources, buckets and epochs, every  *)
(* budget, every draw of episodes and any number of crashes; and after it  *)
(* the readers for every data set.                                         *)
(*                                                                         *)
(* Both are made of sums over finite sets (footage, windows, weights, rows *)
(* before an episode) and of sequences glued together (the map, a shard).  *)
(* What these folds of the community modules return is proved first, by    *)
(* induction over a finite set: a least counterexample, which WFMin        *)
(* provides, cannot be.                                                    *)
(***************************************************************************)
EXTENDS SamplePlan, FiniteSetTheorems, WellFoundedInduction, TLAPS
-----------------------------------------------------------------------------
(* Induction, over the members of a set of numbers or of sets.             *)
LEMMA FirstOf ==
    ASSUME NEW S \in SUBSET Nat, S # {}
    PROVE  \E x \in S : \A y \in S : x <= y
<1> DEFINE R == {ss \in Nat \X Nat : ss[1] < ss[2]}
<1>1. R = OpToRel(<, Nat)
  BY DEF OpToRel
<1>2. IsWellFoundedOn(R, Nat)
  BY <1>1, NatLessThanWellFounded
<1> HIDE DEF R
<1>3. PICK x \in S : \A y \in S : <<y, x>> \notin R
  BY <1>2, WFMin
<1>4. ASSUME NEW y \in S PROVE x <= y
  <2>1. <<y, x>> \in Nat \X Nat /\ <<y, x>>[1] = y /\ <<y, x>>[2] = x
    OBVIOUS
  <2>2. ~(y < x)
    BY <1>3, <2>1 DEF R
  <2>3. QED
    BY <2>2
<1>5. QED
  BY <1>4

(* Induction over the naturals, as membership in a set. *)
LEMMA Inductive ==
    ASSUME NEW S, 0 \in S, \A n \in Nat : n \in S => n + 1 \in S
    PROVE  Nat \subseteq S
<1> DEFINE Bad == {n \in Nat : n \notin S}
<1>1. ASSUME Bad # {} PROVE FALSE
  <2>1. PICK n \in Bad : \A m \in Bad : n <= m
    <3>1. Bad \in SUBSET Nat
      OBVIOUS
    <3>2. QED
      BY <1>1, <3>1, FirstOf
  <2>2. n \in Nat \ {0} /\ n - 1 \in Nat /\ ~(n <= n - 1)
    BY <2>1
  <2>3. n - 1 \in S
    BY <2>1, <2>2
  <2>4. (n - 1) + 1 \in S
    BY <2>2, <2>3
  <2>5. QED
    BY <2>1, <2>2, <2>4
<1>2. QED
  BY <1>1

(* A finite set without one of its members has one member less. *)
LEMMA OneLess ==
    ASSUME NEW S, IsFiniteSet(S), NEW x \in S
    PROVE  /\ IsFiniteSet(S \ {x}) /\ Cardinality(S) \in Nat \ {0}
           /\ Cardinality(S \ {x}) = Cardinality(S) - 1
<1>1. S # {} /\ Cardinality(S) \in Nat /\ Cardinality(S) # 0
  BY FS_EmptySet, FS_CardinalityType
<1>2. QED
  BY <1>1, FS_RemoveElement

(* Induction over a finite set: from a part of it to one with a member     *)
(* more.                                                                   *)
LEMMA InductiveSets ==
    ASSUME NEW S, IsFiniteSet(S), NEW P, {} \in P,
           \A T \in SUBSET S : \A x \in S \ T : T \in P => T \cup {x} \in P
    PROVE  S \in P
<1> DEFINE N == {n \in Nat : \A T \in SUBSET S : Cardinality(T) = n => T \in P}
<1>1. 0 \in N
  BY FS_EmptySet, FS_Subset
<1>2. ASSUME NEW n \in Nat, n \in N PROVE n + 1 \in N
  <2>1. ASSUME NEW T \in SUBSET S, Cardinality(T) = n + 1 PROVE T \in P
    <3>1. IsFiniteSet(T)
      BY FS_Subset
    <3>2. PICK x \in T : TRUE
      BY <2>1, <3>1, FS_EmptySet
    <3>3. Cardinality(T \ {x}) = n
      BY <2>1, <3>1, OneLess
    <3>4. T \ {x} \in P /\ x \in S \ (T \ {x}) /\ T \ {x} \in SUBSET S
      BY <1>2, <3>3
    <3>5. (T \ {x}) \cup {x} \in P
      BY <3>4
    <3>6. T = (T \ {x}) \cup {x}
      OBVIOUS
    <3>7. QED
      BY <3>5, <3>6
  <2>2. QED
    BY <2>1
<1> HIDE DEF N
<1>3. Nat \subseteq N
  BY <1>1, <1>2, Inductive
<1>4. Cardinality(S) \in N
  BY <1>3, FS_CardinalityType
<1>5. QED
  BY <1>4 DEF N
-----------------------------------------------------------------------------
(* The folds of the community modules, over a set: what their recursion    *)
(* returns exists and is one.                                              *)
Pick(S) == CHOOSE x \in S : TRUE
Folded(o, base, f, S, g) ==
    /\ DOMAIN g = SUBSET S
    /\ \A T \in SUBSET S : g[T] = IF T = {} THEN base ELSE o[<<f[Pick(T)], g[T \ {Pick(T)}]>>]

(* The function that folds every part of a finite set exists. *)
LEMMA FoldExists ==
    ASSUME NEW S, IsFiniteSet(S), NEW V, NEW f, \A x \in S : f[x] \in V,
           NEW o \in [V \X V -> V], NEW base \in V
    PROVE  \E g \in [SUBSET S -> V] : Folded(o, base, f, S, g)
<1> DEFINE Upto(n) == {T \in SUBSET S : Cardinality(T) <= n}
           Value(g, T) == IF T = {} THEN base ELSE o[<<f[Pick(T)], g[T \ {Pick(T)}]>>]
           N == {n \in Nat : \E g \in [Upto(n) -> V] : \A T \in Upto(n) : g[T] = Value(g, T)}
<1>1. 0 \in N
  <2>1. \A T \in Upto(0) : T = {}
    <3> TAKE T \in Upto(0)
    <3>1. IsFiniteSet(T) /\ Cardinality(T) <= 0
      BY FS_Subset
    <3>2. QED
      BY <3>1, FS_CardinalityType, FS_EmptySet
  <2>2. [T \in Upto(0) |-> base] \in [Upto(0) -> V]
    OBVIOUS
  <2>3. QED
    BY <2>1, <2>2
<1>2. ASSUME NEW n \in Nat, n \in N PROVE n + 1 \in N
  <2>1. PICK g \in [Upto(n) -> V] : \A T \in Upto(n) : g[T] = Value(g, T)
    BY <1>2
  <2> DEFINE h == [T \in Upto(n + 1) |-> Value(g, T)]
  <2>2. ASSUME NEW T \in Upto(n + 1), T # {}
        PROVE  f[Pick(T)] \in V /\ T \ {Pick(T)} \in Upto(n) /\ T \ {Pick(T)} \in Upto(n + 1)
    <3>1. IsFiniteSet(T) /\ Pick(T) \in T
      BY <2>2, FS_Subset DEF Pick
    <3>2. Cardinality(T \ {Pick(T)}) = Cardinality(T) - 1 /\ Cardinality(T) \in Nat
      BY <3>1, FS_RemoveElement, FS_CardinalityType
    <3>3. QED
      BY <3>1, <3>2
  <2>3. h \in [Upto(n + 1) -> V]
    <3>1. ASSUME NEW T \in Upto(n + 1) PROVE Value(g, T) \in V
      <4>1. CASE T = {}
        BY <4>1
      <4>2. CASE T # {}
        <5>1. <<f[Pick(T)], g[T \ {Pick(T)}]>> \in V \X V
          BY <2>2, <4>2
        <5>2. QED
          BY <4>2, <5>1
      <4>3. QED
        BY <4>1, <4>2
    <3>2. QED
      BY <3>1
  <2>4. ASSUME NEW T \in Upto(n) PROVE h[T] = g[T]
    <3>1. T \in Upto(n + 1)
      <4>1. Cardinality(T) \in Nat
        BY FS_Subset, FS_CardinalityType
      <4>2. QED
        BY <4>1
    <3>2. QED
      BY <2>1, <3>1
  <2>5. \A T \in Upto(n + 1) : h[T] = Value(h, T)
    BY <2>2, <2>4
  <2> HIDE DEF h, Upto, Value
  <2>6. QED
    BY <2>3, <2>5
<1> HIDE DEF N
<1>3. Cardinality(S) \in N
  BY <1>1, <1>2, Inductive, FS_CardinalityType
<1>4. Upto(Cardinality(S)) = SUBSET S
  BY FS_Subset
<1>5. PICK g \in [SUBSET S -> V] : \A T \in SUBSET S : g[T] = Value(g, T)
  BY <1>3, <1>4 DEF N
<1>6. QED
  BY <1>5 DEF Folded

(* Two functions of sets that agree on a set if they agree on what is left *)
(* of it agree.                                                            *)
LEMMA FoldsAgree ==
    ASSUME NEW S, IsFiniteSet(S), NEW g, NEW h, g[{}] = h[{}],
           \A T \in SUBSET S : T # {} /\ g[T \ {Pick(T)}] = h[T \ {Pick(T)}] => g[T] = h[T]
    PROVE  g[S] = h[S]
<1> DEFINE N == {n \in Nat : \A T \in SUBSET S : Cardinality(T) = n => h[T] = g[T]}
<1>1. 0 \in N
  BY FS_Subset, FS_EmptySet
<1>2. ASSUME NEW n \in Nat, n \in N PROVE n + 1 \in N
  <2>1. ASSUME NEW T \in SUBSET S, Cardinality(T) = n + 1 PROVE h[T] = g[T]
    <3>1. IsFiniteSet(T)
      BY FS_Subset
    <3>2. T # {} /\ Pick(T) \in T
      BY <2>1, <3>1, FS_EmptySet DEF Pick
    <3>3. Cardinality(T \ {Pick(T)}) = n
      BY <2>1, <3>1, <3>2, OneLess
    <3>4. h[T \ {Pick(T)}] = g[T \ {Pick(T)}]
      BY <1>2, <3>3
    <3>5. QED
      BY <3>2, <3>4
  <2>2. QED
    BY <2>1
<1> HIDE DEF N
<1>3. Cardinality(S) \in N
  BY <1>1, <1>2, Inductive, FS_CardinalityType
<1>4. QED
  BY <1>3 DEF N
-----------------------------------------------------------------------------
(* Sums over finite sets. *)
Plus == [p \in Int \X Int |-> p[1] + p[2]]

SumBy(f, S, g) ==
    /\ SumFunctionOnSet(f, S) = g[S]
    /\ \A T \in SUBSET S : g[T] = IF T = {} THEN 0 ELSE f[Pick(T)] + g[T \ {Pick(T)}]

(* SumFunctionOnSet is such a fold: of every part of S, by adding one      *)
(* member of it to the rest.                                               *)
LEMMA SumFolded ==
    ASSUME NEW S, IsFiniteSet(S), NEW f, \A x \in S : f[x] \in Int
    PROVE  \E g \in [SUBSET S -> Int] : SumBy(f, S, g)
<1> DEFINE Body(g) == [T \in SUBSET S |-> IF T = {} THEN 0
                                          ELSE f[CHOOSE x \in T : TRUE] + g[T \ {CHOOSE x \in T : TRUE}]]
<1>1. SumFunctionOnSet(f, S) = (CHOOSE g : g = Body(g))[S]
  BY DEF SumFunctionOnSet, FoldFunctionOnSet, MapThenFoldSet
<1>2. PICK h \in [SUBSET S -> Int] : Folded(Plus, 0, f, S, h)
  <2>1. Plus \in [Int \X Int -> Int]
    BY DEF Plus
  <2>2. 0 \in Int
    OBVIOUS
  <2>3. QED
    BY <2>1, <2>2, FoldExists, Zenon
<1>3. ASSUME NEW g \in [SUBSET S -> Int], NEW T \in SUBSET S, T # {}
      PROVE  Plus[<<f[Pick(T)], g[T \ {Pick(T)}]>>] = f[Pick(T)] + g[T \ {Pick(T)}]
  <2>1. Pick(T) \in T
    BY <1>3 DEF Pick
  <2>2. <<f[Pick(T)], g[T \ {Pick(T)}]>> \in Int \X Int
    BY <2>1
  <2>3. QED
    BY <2>2 DEF Plus
<1>4. h = Body(h)
  <2>1. ASSUME NEW T \in SUBSET S PROVE h[T] = Body(h)[T]
    BY <1>2, <1>3 DEF Folded, Pick
  <2>2. QED
    BY <2>1
<1>5. PICK g : g = Body(g) /\ SumFunctionOnSet(f, S) = g[S]
  <2> DEFINE k == CHOOSE g : g = Body(g)
  <2>1. k = Body(k)
    BY <1>4
  <2>2. SumFunctionOnSet(f, S) = k[S]
    BY <1>1
  <2> HIDE DEF k
  <2>3. QED
    BY <2>1, <2>2
<1>6. g[{}] = h[{}]
  BY <1>4, <1>5
<1>7. ASSUME NEW T \in SUBSET S, T # {}, g[T \ {Pick(T)}] = h[T \ {Pick(T)}] PROVE g[T] = h[T]
  <2>1. g[T] = f[Pick(T)] + g[T \ {Pick(T)}]
    BY <1>5, <1>7 DEF Pick
  <2>2. h[T] = f[Pick(T)] + h[T \ {Pick(T)}]
    BY <1>4, <1>7 DEF Pick
  <2>3. QED
    BY <1>7, <2>1, <2>2, Zenon
<1>8. g[S] = h[S]
  BY <1>6, <1>7, FoldsAgree
<1>9. \A T \in SUBSET S : h[T] = IF T = {} THEN 0 ELSE f[Pick(T)] + h[T \ {Pick(T)}]
  BY <1>4 DEF Pick
<1>10. QED
  BY <1>5, <1>8, <1>9 DEF SumBy

(* A sum of integers is an integer. *)
LEMMA SumType ==
    ASSUME NEW S, IsFiniteSet(S), NEW f, \A x \in S : f[x] \in Int
    PROVE  SumFunctionOnSet(f, S) \in Int
<1>1. PICK g \in [SUBSET S -> Int] : SumBy(f, S, g)
  BY SumFolded
<1>2. QED
  BY <1>1 DEF SumBy

(* Nothing adds up to 0. *)
LEMMA SumEmpty == ASSUME NEW f PROVE SumFunctionOnSet(f, {}) = 0
<1>1. IsFiniteSet({})
  BY FS_EmptySet
<1>2. QED
  BY <1>1, SumFolded DEF SumBy

(* The order of the terms does not matter. *)
LEMMA SumRemove ==
    ASSUME NEW S, IsFiniteSet(S), NEW f, \A x \in S : f[x] \in Int, NEW x \in S
    PROVE  SumFunctionOnSet(f, S) = f[x] + SumFunctionOnSet(f, S \ {x})
<1>1. PICK g \in [SUBSET S -> Int] : SumBy(f, S, g)
  BY SumFolded
<1>2. IsFiniteSet(S \ {x}) /\ \A y \in S \ {x} : f[y] \in Int
  BY FS_Subset
<1>3. PICK h \in [SUBSET (S \ {x}) -> Int] : SumBy(f, S \ {x}, h)
  BY <1>2, SumFolded
<1>4. g[S \ {x}] = h[S \ {x}]
  <2>1. g[{}] = h[{}]
    BY <1>1, <1>3 DEF SumBy
  <2>2. ASSUME NEW T \in SUBSET (S \ {x}), T # {}, g[T \ {Pick(T)}] = h[T \ {Pick(T)}] PROVE g[T] = h[T]
    BY <1>1, <1>3, <2>2 DEF SumBy
  <2>3. QED
    BY <1>2, <2>1, <2>2, FoldsAgree, ZenonT(40)
<1> DEFINE N == {n \in Nat : \A T \in SUBSET S : Cardinality(T) = n => \A y \in T : g[T] = f[y] + g[T \ {y}]}
<1>5. 0 \in N
  BY FS_Subset, FS_EmptySet
<1>6. ASSUME NEW n \in Nat, n \in N PROVE n + 1 \in N
  <2>1. ASSUME NEW T \in SUBSET S, Cardinality(T) = n + 1, NEW y \in T PROVE g[T] = f[y] + g[T \ {y}]
    <3> DEFINE p == Pick(T)
    <3>1. p \in T /\ IsFiniteSet(T) /\ T # {} /\ g[T] = f[p] + g[T \ {p}]
      BY <1>1, FS_Subset DEF Pick, SumBy
    <3> HIDE DEF p
    <3>2. CASE y = p
      BY <3>1, <3>2
    <3>3. CASE y # p
      <4>1. Cardinality(T \ {p}) = n /\ Cardinality(T \ {y}) = n
        BY <2>1, <3>1, OneLess
      <4>2. g[T \ {p}] = f[y] + g[(T \ {p}) \ {y}]
        BY <1>6, <3>3, <4>1
      <4>3. g[T \ {y}] = f[p] + g[(T \ {y}) \ {p}]
        BY <1>6, <3>1, <3>3, <4>1
      <4>4. (T \ {p}) \ {y} = (T \ {y}) \ {p} /\ (T \ {p}) \ {y} \in SUBSET S
        OBVIOUS
      <4>5. f[y] \in Int /\ f[p] \in Int /\ g[(T \ {p}) \ {y}] \in Int
        BY <3>1, <4>4
      <4> DEFINE r == g[(T \ {p}) \ {y}]
      <4>6. g[T] = f[p] + (f[y] + r) /\ g[T \ {y}] = f[p] + r
        BY <3>1, <4>2, <4>3, <4>4
      <4>7. r \in Int
        BY <4>5
      <4> HIDE DEF r
      <4>8. QED
        BY <4>5, <4>6, <4>7
    <3>4. QED
      BY <3>2, <3>3
  <2>2. QED
    BY <2>1
<1> HIDE DEF N
<1>7. Cardinality(S) \in N
  BY <1>5, <1>6, Inductive, FS_CardinalityType
<1>8. QED
  BY <1>1, <1>3, <1>4, <1>7 DEF N, SumBy

(* A new member adds its term. *)
LEMMA SumAdd ==
    ASSUME NEW S, IsFiniteSet(S), NEW x, x \notin S, NEW f, \A y \in S \cup {x} : f[y] \in Int
    PROVE  SumFunctionOnSet(f, S \cup {x}) = f[x] + SumFunctionOnSet(f, S)
<1>1. IsFiniteSet(S \cup {x}) /\ (S \cup {x}) \ {x} = S
  BY FS_AddElement
<1>2. QED
  BY <1>1, SumRemove

(* What follows by induction. *)
LEMMA SumEqual ==
    ASSUME NEW S, IsFiniteSet(S), NEW f, NEW g, \A x \in S : f[x] \in Int /\ g[x] = f[x]
    PROVE  SumFunctionOnSet(g, S) = SumFunctionOnSet(f, S)
<1> DEFINE P == {T \in SUBSET S : SumFunctionOnSet(g, T) = SumFunctionOnSet(f, T)}
<1>1. {} \in P
  BY SumEmpty
<1>2. ASSUME NEW T \in SUBSET S, NEW x \in S \ T, T \in P PROVE T \cup {x} \in P
  <2>1. IsFiniteSet(T) /\ x \notin T
    BY FS_Subset
  <2>2. SumFunctionOnSet(f, T \cup {x}) = f[x] + SumFunctionOnSet(f, T)
    BY <2>1, SumAdd
  <2>3. SumFunctionOnSet(g, T \cup {x}) = g[x] + SumFunctionOnSet(g, T)
    BY <2>1, SumAdd
  <2>4. QED
    BY <1>2, <2>2, <2>3
<1> HIDE DEF P
<1>3. S \in P
  BY <1>1, <1>2, InductiveSets
<1>4. QED
  BY <1>3 DEF P

(* A sum of terms that are no less than those of another. *)
LEMMA SumAtMost ==
    ASSUME NEW S, IsFiniteSet(S), NEW f, NEW g, \A x \in S : f[x] \in Int /\ g[x] \in Int /\ f[x] <= g[x]
    PROVE  SumFunctionOnSet(f, S) <= SumFunctionOnSet(g, S)
<1> DEFINE P == {T \in SUBSET S : SumFunctionOnSet(f, T) <= SumFunctionOnSet(g, T)}
<1>1. {} \in P
  BY SumEmpty
<1>2. ASSUME NEW T \in SUBSET S, NEW x \in S \ T, T \in P PROVE T \cup {x} \in P
  <2>1. IsFiniteSet(T) /\ x \notin T
    BY FS_Subset
  <2>2. SumFunctionOnSet(f, T \cup {x}) = f[x] + SumFunctionOnSet(f, T)
    BY <2>1, SumAdd
  <2>3. SumFunctionOnSet(g, T \cup {x}) = g[x] + SumFunctionOnSet(g, T)
    BY <2>1, SumAdd
  <2>4. SumFunctionOnSet(f, T) \in Int /\ SumFunctionOnSet(g, T) \in Int
    BY <2>1, SumType
  <2>5. SumFunctionOnSet(f, T) <= SumFunctionOnSet(g, T) /\ f[x] \in Int /\ g[x] \in Int /\ f[x] <= g[x]
    BY <1>2
  <2>6. QED
    BY <2>2, <2>3, <2>4, <2>5
<1> HIDE DEF P
<1>3. S \in P
  BY <1>1, <1>2, InductiveSets
<1>4. QED
  BY <1>3 DEF P

(* A sum of naturals is a natural. *)
LEMMA SumNat ==
    ASSUME NEW S, IsFiniteSet(S), NEW f, \A x \in S : f[x] \in Nat
    PROVE  SumFunctionOnSet(f, S) \in Nat
<1> DEFINE P == {T \in SUBSET S : SumFunctionOnSet(f, T) \in Nat}
<1>1. {} \in P
  BY SumEmpty
<1>2. ASSUME NEW T \in SUBSET S, NEW x \in S \ T, T \in P PROVE T \cup {x} \in P
  <2>1. IsFiniteSet(T) /\ x \notin T
    BY FS_Subset
  <2>2. SumFunctionOnSet(f, T \cup {x}) = f[x] + SumFunctionOnSet(f, T)
    <3>1. \A y \in T \cup {x} : f[y] \in Int
      OBVIOUS
    <3>2. QED
      BY <2>1, <3>1, SumAdd
  <2>3. QED
    BY <1>2, <2>2
<1> HIDE DEF P
<1>3. S \in P
  BY <1>1, <1>2, InductiveSets
<1>4. QED
  BY <1>3 DEF P

(* A sum is that of a part and that of the rest. *)
LEMMA SumSplit ==
    ASSUME NEW S, IsFiniteSet(S), NEW f, \A x \in S : f[x] \in Int, NEW T \in SUBSET S
    PROVE  SumFunctionOnSet(f, S) = SumFunctionOnSet(f, T) + SumFunctionOnSet(f, S \ T)
<1> DEFINE P == {R \in SUBSET T :
                     SumFunctionOnSet(f, S) = SumFunctionOnSet(f, R) + SumFunctionOnSet(f, S \ R)}
<1>0. IsFiniteSet(T) /\ IsFiniteSet(S \ T)
  BY FS_Subset
<1>1. {} \in P
  <2>1. S \ {} = S
    OBVIOUS
  <2>2. SumFunctionOnSet(f, S) \in Int
    BY SumType
  <2>3. QED
    BY <2>1, <2>2, SumEmpty
<1>2. ASSUME NEW R \in SUBSET T, NEW x \in T \ R, R \in P PROVE R \cup {x} \in P
  <2>1. IsFiniteSet(R) /\ x \notin R /\ IsFiniteSet(S \ R) /\ x \in S \ R
    BY FS_Subset
  <2>2. SumFunctionOnSet(f, R \cup {x}) = f[x] + SumFunctionOnSet(f, R)
    BY <2>1, SumAdd
  <2>3. SumFunctionOnSet(f, S \ R) = f[x] + SumFunctionOnSet(f, (S \ R) \ {x})
    BY <2>1, SumRemove
  <2>4. (S \ R) \ {x} = S \ (R \cup {x}) /\ IsFiniteSet(S \ (R \cup {x}))
    BY FS_Subset
  <2>5. /\ SumFunctionOnSet(f, R) \in Int
        /\ SumFunctionOnSet(f, S \ (R \cup {x})) \in Int
        /\ f[x] \in Int
    BY <2>1, <2>4, SumType
  <2>6. SumFunctionOnSet(f, S) = SumFunctionOnSet(f, R) + SumFunctionOnSet(f, S \ R)
    BY <1>2
  <2> DEFINE a == SumFunctionOnSet(f, R)
             b == SumFunctionOnSet(f, S \ (R \cup {x}))
  <2>7. SumFunctionOnSet(f, S) = SumFunctionOnSet(f, R \cup {x}) + b
    <3>1. SumFunctionOnSet(f, S \ R) = f[x] + b
      BY <2>3, <2>4
    <3>2. SumFunctionOnSet(f, S) = a + (f[x] + b) /\ a \in Int /\ b \in Int /\ f[x] \in Int
      BY <2>5, <2>6, <3>1
    <3> HIDE DEF a, b
    <3>3. SumFunctionOnSet(f, R \cup {x}) = f[x] + a
      BY <2>2 DEF a
    <3>4. QED
      BY <3>2, <3>3
  <2>8. QED
    BY <2>7
<1> HIDE DEF P
<1>3. T \in P
  BY <1>0, <1>1, <1>2, InductiveSets
<1>4. QED
  BY <1>3 DEF P

(* A sum of zeros is 0. *)
LEMMA SumZero ==
    ASSUME NEW S, IsFiniteSet(S), NEW f, \A x \in S : f[x] = 0
    PROVE  SumFunctionOnSet(f, S) = 0
<1> DEFINE P == {T \in SUBSET S : SumFunctionOnSet(f, T) = 0}
<1>1. {} \in P
  BY SumEmpty
<1>2. ASSUME NEW T \in SUBSET S, NEW x \in S \ T, T \in P PROVE T \cup {x} \in P
  <2>1. IsFiniteSet(T) /\ x \notin T /\ \A y \in T \cup {x} : f[y] \in Int
    BY FS_Subset
  <2>2. SumFunctionOnSet(f, T \cup {x}) = f[x] + SumFunctionOnSet(f, T)
    BY <2>1, SumAdd
  <2>3. QED
    BY <1>2, <2>2
<1> HIDE DEF P
<1>3. S \in P
  BY <1>1, <1>2, InductiveSets
<1>4. QED
  BY <1>3 DEF P

(* Equal terms add up to a product. *)
LEMMA SumConstant ==
    ASSUME NEW S, IsFiniteSet(S), NEW c \in Int, NEW f, \A x \in S : f[x] = c
    PROVE  SumFunctionOnSet(f, S) = Cardinality(S) * c
<1> DEFINE P == {T \in SUBSET S : SumFunctionOnSet(f, T) = Cardinality(T) * c}
<1>1. {} \in P
  BY SumEmpty, FS_EmptySet
<1>2. ASSUME NEW T \in SUBSET S, NEW x \in S \ T, T \in P PROVE T \cup {x} \in P
  <2>1. IsFiniteSet(T) /\ x \notin T /\ \A y \in T \cup {x} : f[y] \in Int
    BY FS_Subset
  <2>2. SumFunctionOnSet(f, T \cup {x}) = c + Cardinality(T) * c
    BY <1>2, <2>1, SumAdd, ZenonT(40)
  <2>3. Cardinality(T) \in Nat /\ Cardinality(T \cup {x}) = Cardinality(T) + 1
    BY <2>1, FS_CardinalityType, FS_AddElement
  <2>4. (Cardinality(T) + 1) * c = Cardinality(T) * c + c
    BY <2>3
  <2>5. QED
    BY <2>2, <2>3, <2>4
<1> HIDE DEF P
<1>3. S \in P
  BY <1>1, <1>2, InductiveSets
<1>4. QED
  BY <1>3 DEF P

(* A common factor can be taken out. *)
LEMMA SumScaled ==
    ASSUME NEW S, IsFiniteSet(S), NEW c \in Int, NEW f, NEW g, \A x \in S : f[x] \in Int /\ g[x] = f[x] * c
    PROVE  SumFunctionOnSet(g, S) = SumFunctionOnSet(f, S) * c
<1> DEFINE P == {T \in SUBSET S : SumFunctionOnSet(g, T) = SumFunctionOnSet(f, T) * c}
<1>1. {} \in P
  BY SumEmpty
<1>2. ASSUME NEW T \in SUBSET S, NEW x \in S \ T, T \in P PROVE T \cup {x} \in P
  <2>1. IsFiniteSet(T) /\ x \notin T /\ \A y \in T \cup {x} : f[y] \in Int /\ g[y] \in Int
    BY FS_Subset
  <2>2. SumFunctionOnSet(g, T \cup {x}) = f[x] * c + SumFunctionOnSet(f, T) * c
    BY <1>2, <2>1, SumAdd, ZenonT(40)
  <2>3. SumFunctionOnSet(f, T \cup {x}) = f[x] + SumFunctionOnSet(f, T)
    BY <2>1, SumAdd
  <2>4. SumFunctionOnSet(f, T) \in Int /\ f[x] \in Int
    BY <2>1, SumType
  <2>5. (f[x] + SumFunctionOnSet(f, T)) * c = f[x] * c + SumFunctionOnSet(f, T) * c
    BY <2>4
  <2>6. QED
    BY <2>2, <2>3, <2>5
<1> HIDE DEF P
<1>3. S \in P
  BY <1>1, <1>2, InductiveSets
<1>4. QED
  BY <1>3 DEF P

(* The sum of two functions. *)
LEMMA SumPlus ==
    ASSUME NEW S, IsFiniteSet(S), NEW f, NEW g, NEW h,
           \A x \in S : f[x] \in Int /\ g[x] \in Int /\ h[x] = f[x] + g[x]
    PROVE  SumFunctionOnSet(h, S) = SumFunctionOnSet(f, S) + SumFunctionOnSet(g, S)
<1> DEFINE P == {T \in SUBSET S : SumFunctionOnSet(h, T) = SumFunctionOnSet(f, T) + SumFunctionOnSet(g, T)}
<1>1. {} \in P
  BY SumEmpty
<1>2. ASSUME NEW T \in SUBSET S, NEW x \in S \ T, T \in P PROVE T \cup {x} \in P
  <2>1. IsFiniteSet(T) /\ x \notin T /\ \A y \in T \cup {x} : f[y] \in Int /\ g[y] \in Int /\ h[y] \in Int
    BY FS_Subset
  <2>2. /\ SumFunctionOnSet(h, T \cup {x}) = h[x] + SumFunctionOnSet(h, T)
        /\ SumFunctionOnSet(f, T \cup {x}) = f[x] + SumFunctionOnSet(f, T)
        /\ SumFunctionOnSet(g, T \cup {x}) = g[x] + SumFunctionOnSet(g, T)
    BY <2>1, SumAdd
  <2>3. SumFunctionOnSet(f, T) \in Int /\ SumFunctionOnSet(g, T) \in Int /\ f[x] \in Int /\ g[x] \in Int
    BY <2>1, SumType
  <2>4. SumFunctionOnSet(h, T) = SumFunctionOnSet(f, T) + SumFunctionOnSet(g, T) /\ h[x] = f[x] + g[x]
    BY <1>2
  <2>5. QED
    BY <2>2, <2>3, <2>4
<1> HIDE DEF P
<1>3. S \in P
  BY <1>1, <1>2, InductiveSets
<1>4. QED
  BY <1>3 DEF P

(* Terms that are less, at least one, make a sum that is less. *)
LEMMA SumLess ==
    ASSUME NEW S, IsFiniteSet(S), S # {}, NEW f, NEW g,
           \A x \in S : f[x] \in Int /\ g[x] \in Int /\ f[x] < g[x]
    PROVE  SumFunctionOnSet(f, S) < SumFunctionOnSet(g, S)
<1>1. PICK x \in S : TRUE
  OBVIOUS
<1>2. IsFiniteSet(S \ {x}) /\ \A y \in S \ {x} : f[y] \in Int /\ g[y] \in Int /\ f[y] <= g[y]
  BY FS_Subset
<1>3. SumFunctionOnSet(f, S \ {x}) <= SumFunctionOnSet(g, S \ {x})
  BY <1>2, SumAtMost
<1>4. SumFunctionOnSet(f, S \ {x}) \in Int /\ SumFunctionOnSet(g, S \ {x}) \in Int
  BY <1>2, SumType
<1>5. /\ SumFunctionOnSet(f, S) = f[x] + SumFunctionOnSet(f, S \ {x})
      /\ SumFunctionOnSet(g, S) = g[x] + SumFunctionOnSet(g, S \ {x})
  BY SumRemove
<1>6. f[x] \in Int /\ g[x] \in Int /\ f[x] < g[x]
  OBVIOUS
<1>7. QED
  BY <1>3, <1>4, <1>5, <1>6

(* A sum of naturals that has a positive term is positive. *)
LEMMA SumPositive ==
    ASSUME NEW S, IsFiniteSet(S), NEW f, \A x \in S : f[x] \in Nat, NEW x \in S, f[x] > 0
    PROVE  SumFunctionOnSet(f, S) \in Nat \ {0}
<1>1. IsFiniteSet(S \ {x}) /\ \A y \in S \ {x} : f[y] \in Nat
  BY FS_Subset
<1>2. SumFunctionOnSet(f, S \ {x}) \in Nat
  BY <1>1, SumNat
<1>3. SumFunctionOnSet(f, S) = f[x] + SumFunctionOnSet(f, S \ {x})
  <2>1. \A y \in S : f[y] \in Int
    OBVIOUS
  <2>2. QED
    BY <2>1, SumRemove
<1>4. QED
  BY <1>2, <1>3

(* Of naturals, a part sums to no more than the whole. *)
LEMMA SumPart ==
    ASSUME NEW S, IsFiniteSet(S), NEW f, \A x \in S : f[x] \in Nat, NEW T \in SUBSET S
    PROVE  SumFunctionOnSet(f, T) \in Nat /\ SumFunctionOnSet(f, T) <= SumFunctionOnSet(f, S)
<1>1. IsFiniteSet(T) /\ IsFiniteSet(S \ T) /\ \A x \in S : f[x] \in Int
  BY FS_Subset
<1>2. SumFunctionOnSet(f, T) \in Nat
  BY <1>1, SumNat
<1>3. SumFunctionOnSet(f, S \ T) \in Nat
  BY <1>1, SumNat
<1>4. SumFunctionOnSet(f, S) = SumFunctionOnSet(f, T) + SumFunctionOnSet(f, S \ T)
  BY <1>1, SumSplit
<1>5. QED
  BY <1>2, <1>3, <1>4

(* Sums over the first numbers, and the term a number falls into. *)
LEMMA SumUpto ==
    ASSUME NEW n \in Nat, NEW f, \A k \in 1 .. n + 1 : f[k] \in Int
    PROVE  SumFunctionOnSet(f, 1 .. n + 1) = SumFunctionOnSet(f, 1 .. n) + f[n + 1]
<1>1. IsFiniteSet(1 .. n) /\ (1 .. n) \cup {n + 1} = 1 .. n + 1 /\ n + 1 \notin 1 .. n
  BY FS_Interval
<1>2. SumFunctionOnSet(f, (1 .. n) \cup {n + 1}) = f[n + 1] + SumFunctionOnSet(f, 1 .. n)
  BY <1>1, SumAdd
<1>3. f[n + 1] \in Int /\ SumFunctionOnSet(f, 1 .. n) \in Int
  <2>1. \A k \in 1 .. n : f[k] \in Int
    OBVIOUS
  <2>2. QED
    BY <1>1, <2>1, SumType
<1>4. SumFunctionOnSet(f, 1 .. n + 1) = f[n + 1] + SumFunctionOnSet(f, 1 .. n)
  BY <1>1, <1>2, Zenon
<1>5. QED
  BY <1>3, <1>4

(* A number below a sum of widths is inside one of them: where idx is      *)
(* looked up.                                                              *)
LEMMA Located ==
    ASSUME NEW n \in Nat, NEW f, \A k \in 1 .. n : f[k] \in Nat,
           NEW w \in Nat, w < SumFunctionOnSet(f, 1 .. n)
    PROVE  \E k \in 1 .. n :
               /\ SumFunctionOnSet(f, 1 .. k - 1) \in Nat
               /\ SumFunctionOnSet(f, 1 .. k) = SumFunctionOnSet(f, 1 .. k - 1) + f[k]
               /\ SumFunctionOnSet(f, 1 .. k - 1) <= w
               /\ w < SumFunctionOnSet(f, 1 .. k)
<1> DEFINE S == {k \in 0 .. n : w < SumFunctionOnSet(f, 1 .. k)}
<1>1. PICK k \in S : \A j \in S : k <= j
  <2>1. S \in SUBSET Nat /\ n \in S
    OBVIOUS
  <2>2. QED
    BY <2>1, FirstOf
<1>2. k # 0
  <2>1. 1 .. 0 = {}
    OBVIOUS
  <2>2. QED
    BY <1>1, <2>1, SumEmpty
<1>3. k \in 1 .. n /\ k - 1 \in 0 .. n /\ k - 1 \notin S
  BY <1>1, <1>2
<1>4. IsFiniteSet(1 .. k - 1) /\ \A j \in 1 .. k - 1 : f[j] \in Nat
  BY <1>3, FS_Interval
<1>5. SumFunctionOnSet(f, 1 .. k - 1) \in Nat
  BY <1>4, SumNat
<1>6. SumFunctionOnSet(f, 1 .. k) = SumFunctionOnSet(f, 1 .. k - 1) + f[k]
  <2> DEFINE m == k - 1
  <2>1. m \in Nat /\ m + 1 = k
    BY <1>3
  <2> HIDE DEF m
  <2>2. \A j \in 1 .. m + 1 : f[j] \in Int
    BY <1>3, <2>1
  <2>3. SumFunctionOnSet(f, 1 .. m + 1) = SumFunctionOnSet(f, 1 .. m) + f[m + 1]
    BY <2>1, <2>2, SumUpto
  <2>4. QED
    BY <2>1, <2>3 DEF m
<1>7. QED
  BY <1>1, <1>3, <1>5, <1>6
-----------------------------------------------------------------------------
(* FlattenSeq: where an element of one of the sequences ends up. *)
Glued(s, n, g) == \A i \in 1 .. n : g[i] = IF i = 1 THEN s[i] ELSE g[i - 1] \o s[i]

(* FlattenSeq is such a gluing. *)
LEMMA GluedExists ==
    ASSUME NEW V, NEW s \in Seq(Seq(V)), Len(s) # 0
    PROVE  \E g \in [1 .. Len(s) -> Seq(V)] : Glued(s, Len(s), g) /\ FlattenSeq(s) = g[Len(s)]
<1> DEFINE N == {n \in Nat : n <= Len(s) => \E g \in [1 .. n -> Seq(V)] : Glued(s, n, g)}
<1>1. 0 \in N
  <2>1. [i \in 1 .. 0 |-> s[i]] \in [1 .. 0 -> Seq(V)]
    OBVIOUS
  <2>2. Glued(s, 0, [i \in 1 .. 0 |-> s[i]])
    BY DEF Glued
  <2>3. QED
    BY <2>1, <2>2
<1>2. ASSUME NEW n \in Nat, n \in N PROVE n + 1 \in N
  <2>1. ASSUME n + 1 <= Len(s) PROVE \E g \in [1 .. n + 1 -> Seq(V)] : Glued(s, n + 1, g)
    <3>1. n <= Len(s)
      BY <2>1
    <3>2. PICK g \in [1 .. n -> Seq(V)] : Glued(s, n, g)
      BY <1>2, <3>1
    <3> DEFINE h == [i \in 1 .. n + 1 |-> IF i = 1 THEN s[i] ELSE g[i - 1] \o s[i]]
    <3>3. h \in [1 .. n + 1 -> Seq(V)]
      <4>1. \A i \in 1 .. n + 1 : (IF i = 1 THEN s[i] ELSE g[i - 1] \o s[i]) \in Seq(V)
        BY <2>1
      <4>2. QED
        BY <4>1
    <3>4. \A i \in 1 .. n : h[i] = g[i]
      <4>1. \A i \in 1 .. n : i \in 1 .. n + 1
        OBVIOUS
      <4>2. QED
        BY <3>2, <4>1 DEF Glued
    <3>5. Glued(s, n + 1, h)
      <4>1. ASSUME NEW i \in 1 .. n + 1 PROVE h[i] = IF i = 1 THEN s[i] ELSE h[i - 1] \o s[i]
        <5>1. i = 1 \/ i - 1 \in 1 .. n
          OBVIOUS
        <5>2. QED
          BY <3>4, <5>1
      <4>2. QED
        BY <4>1 DEF Glued
    <3> HIDE DEF h
    <3>6. QED
      BY <3>3, <3>5
  <2>2. QED
    BY <2>1
<1> HIDE DEF N
<1>3. Len(s) \in N
  BY <1>1, <1>2, Inductive, SMTT(30)
<1>4. PICK h \in [1 .. Len(s) -> Seq(V)] : Glued(s, Len(s), h)
  BY <1>3 DEF N
<1> DEFINE Body(g) == [i \in 1 .. Len(s) |-> IF i = 1 THEN s[i] ELSE g[i - 1] \o s[i]]
<1>5. h = Body(h)
  <2>1. \A i \in 1 .. Len(s) : h[i] = Body(h)[i]
    BY <1>4 DEF Glued
  <2>2. QED
    BY <2>1
<1>6. FlattenSeq(s) = (CHOOSE g : g = Body(g))[Len(s)]
  BY DEF FlattenSeq
<1>7. PICK k : k = Body(k) /\ FlattenSeq(s) = k[Len(s)]
  <2> DEFINE k == CHOOSE g : g = Body(g)
  <2>1. k = Body(k)
    BY <1>5
  <2>2. FlattenSeq(s) = k[Len(s)]
    BY <1>6
  <2> HIDE DEF k
  <2>3. QED
    BY <2>1, <2>2
<1>8. k[Len(s)] = h[Len(s)]
  <2> DEFINE M == {n \in Nat : n \in 1 .. Len(s) => k[n] = h[n]}
  <2>1. 0 \in M
    OBVIOUS
  <2>2. ASSUME NEW n \in Nat, n \in M PROVE n + 1 \in M
    <3>1. ASSUME n + 1 \in 1 .. Len(s) PROVE k[n + 1] = h[n + 1]
      <4>1. /\ k[n + 1] = IF n + 1 = 1 THEN s[n + 1] ELSE k[(n + 1) - 1] \o s[n + 1]
            /\ h[n + 1] = IF n + 1 = 1 THEN s[n + 1] ELSE h[(n + 1) - 1] \o s[n + 1]
        BY <1>5, <1>7, <3>1
      <4>2. n + 1 = 1 \/ (n \in 1 .. Len(s) /\ (n + 1) - 1 = n)
        BY <3>1
      <4>3. QED
        BY <2>2, <4>1, <4>2
    <3>2. QED
      BY <3>1
  <2> HIDE DEF M
  <2>3. Nat \subseteq M
    BY <2>1, <2>2, Inductive
  <2>4. Len(s) \in Nat /\ Len(s) \in 1 .. Len(s)
    OBVIOUS
  <2>5. QED
    BY <2>3, <2>4 DEF M
<1>9. QED
  BY <1>4, <1>7, <1>8

(* Where the elements of a concatenation are. *)
LEMMA Appended ==
    ASSUME NEW V, NEW a \in Seq(V), NEW b \in Seq(V)
    PROVE  /\ Len(a \o b) = Len(a) + Len(b)
           /\ \A i \in 1 .. Len(a) : (a \o b)[i] = a[i]
           /\ \A j \in 1 .. Len(b) : (a \o b)[Len(a) + j] = b[j]
OBVIOUS

(* The elements of a flattened sequence, each at the end of what is before *)
(* it.                                                                     *)
LEMMA Flatten ==
    ASSUME NEW V, NEW s \in Seq(Seq(V)), NEW lens, \A k \in DOMAIN s : lens[k] = Len(s[k])
    PROVE  /\ FlattenSeq(s) \in Seq(V)
           /\ Len(FlattenSeq(s)) = SumFunctionOnSet(lens, 1 .. Len(s))
           /\ \A k \in DOMAIN s : \A j \in 1 .. Len(s[k]) :
                  /\ SumFunctionOnSet(lens, 1 .. k - 1) \in Nat
                  /\ SumFunctionOnSet(lens, 1 .. k - 1) + j \in 1 .. Len(FlattenSeq(s))
                  /\ FlattenSeq(s)[SumFunctionOnSet(lens, 1 .. k - 1) + j] = s[k][j]
<1> DEFINE at == [k \in 0 .. Len(s) |-> SumFunctionOnSet(lens, 1 .. k)]
<1>1. CASE Len(s) = 0
  <2>1. s = <<>> /\ 1 .. Len(s) = {}
    BY <1>1
  <2>2. FlattenSeq(s) = s
    BY <1>1 DEF FlattenSeq
  <2>3. SumFunctionOnSet(lens, 1 .. Len(s)) = 0
    BY <2>1, SumEmpty
  <2>4. <<>> \in Seq(V) /\ Len(<<>>) = 0 /\ DOMAIN s = {}
    BY <2>1
  <2>5. QED
    BY <2>1, <2>2, <2>3, <2>4
<1>2. CASE Len(s) # 0
  <2>1. PICK g \in [1 .. Len(s) -> Seq(V)] : Glued(s, Len(s), g) /\ FlattenSeq(s) = g[Len(s)]
    BY <1>2, GluedExists
  <2>2. \A k \in 1 .. Len(s) : lens[k] \in Nat /\ lens[k] = Len(s[k]) /\ s[k] \in Seq(V)
    OBVIOUS
  <2>3. ASSUME NEW n \in 0 .. Len(s) PROVE at[n] \in Nat
    <3>1. IsFiniteSet(1 .. n) /\ \A k \in 1 .. n : lens[k] \in Nat
      BY <2>2, <2>3, FS_Interval
    <3>2. QED
      BY <3>1, SumNat
  <2>4. ASSUME NEW n \in Nat, n + 1 <= Len(s) PROVE at[n + 1] = at[n] + Len(s[n + 1])
    <3>1. \A k \in 1 .. n + 1 : lens[k] \in Int
      BY <2>2, <2>4
    <3>2. SumFunctionOnSet(lens, 1 .. n + 1) = SumFunctionOnSet(lens, 1 .. n) + lens[n + 1]
      BY <3>1, SumUpto
    <3>3. n \in 0 .. Len(s) /\ n + 1 \in 0 .. Len(s) /\ lens[n + 1] = Len(s[n + 1])
      BY <2>2, <2>4
    <3>4. QED
      BY <3>2, <3>3
  <2>5. at[0] = 0
    <3>1. 1 .. 0 = {} /\ 0 \in 0 .. Len(s)
      OBVIOUS
    <3>2. QED
      BY <3>1, SumEmpty
  <2>6. \A k \in DOMAIN s : SumFunctionOnSet(lens, 1 .. k - 1) = at[k - 1]
    OBVIOUS
  <2>7. SumFunctionOnSet(lens, 1 .. Len(s)) = at[Len(s)]
    OBVIOUS
  <2> HIDE DEF at
  <2> DEFINE Right(n) == /\ Len(g[n]) = at[n]
                         /\ \A k \in 1 .. n : \A j \in 1 .. Len(s[k]) :
                                at[k - 1] + j \in 1 .. at[n] /\ g[n][at[k - 1] + j] = s[k][j]
             M == {n \in Nat : n + 1 <= Len(s) => Right(n + 1)}
  <2>8. Right(1)
    <3>1. at[0 + 1] = at[0] + Len(s[0 + 1])
      BY <1>2, <2>4
    <3>2. g[1] = s[1] /\ at[1] = Len(s[1]) /\ Len(s[1]) \in Nat /\ at[1 - 1] = 0
      <4>1. 1 \in 1 .. Len(s) /\ 0 + 1 = 1 /\ 1 - 1 = 0
        BY <1>2
      <4>2. g[1] = s[1] /\ s[1] \in Seq(V)
        BY <2>1, <2>2, <4>1 DEF Glued
      <4>3. QED
        BY <2>5, <3>1, <4>1, <4>2
    <3>3. QED
      BY <3>2
  <2>9. ASSUME NEW n \in Nat, n + 2 <= Len(s), Right(n + 1) PROVE Right(n + 2)
    <3> DEFINE a == g[n + 1]  b == s[n + 2]
    <3>1. /\ Len(a) = at[n + 1] /\ at[n + 1] \in Nat /\ a \in Seq(V) /\ b \in Seq(V)
          /\ \A k \in 1 .. n + 1 : \A j \in 1 .. Len(s[k]) :
                  at[k - 1] + j \in 1 .. at[n + 1] /\ a[at[k - 1] + j] = s[k][j]
      <4>1. n + 1 \in 0 .. Len(s) /\ n + 1 \in 1 .. Len(s) /\ n + 2 \in 1 .. Len(s)
        BY <2>9
      <4>2. QED
        BY <2>2, <2>3, <2>9, <4>1
    <3>2. g[n + 2] = a \o b
      <4>1. (n + 2) - 1 = n + 1 /\ n + 2 # 1 /\ n + 2 \in 1 .. Len(s)
        BY <2>9
      <4>2. QED
        BY <2>1, <4>1 DEF Glued
    <3>3. at[n + 2] = Len(a) + Len(b)
      <4>1. at[(n + 1) + 1] = at[n + 1] + Len(s[(n + 1) + 1]) /\ (n + 1) + 1 = n + 2
        BY <2>4, <2>9
      <4>2. QED
        BY <3>1, <4>1
    <3> HIDE DEF a
    <3>4. /\ Len(a \o b) = Len(a) + Len(b)
          /\ \A i \in 1 .. Len(a) : (a \o b)[i] = a[i]
          /\ \A j \in 1 .. Len(b) : (a \o b)[Len(a) + j] = b[j]
      <4>1. a \in Seq(V) /\ b \in Seq(V)
        BY <3>1
      <4> HIDE DEF b
      <4>2. QED
        BY <4>1, Appended
    <3>5. ASSUME NEW k \in 1 .. n + 2, NEW j \in 1 .. Len(s[k])
          PROVE  at[k - 1] + j \in 1 .. at[n + 2] /\ g[n + 2][at[k - 1] + j] = s[k][j]
      <4>1. CASE k = n + 2
        <5>1. k - 1 = n + 1 /\ j \in 1 .. Len(b) /\ at[k - 1] = Len(a)
          BY <3>1, <4>1
        <5>2. (a \o b)[Len(a) + j] = b[j]
          BY <3>4, <5>1
        <5>3. Len(a) + j \in 1 .. Len(a) + Len(b) /\ Len(a) \in Nat
          BY <3>1, <5>1
        <5>4. QED
          BY <3>2, <3>3, <4>1, <5>1, <5>2, <5>3
      <4>2. CASE k # n + 2
        <5>1. k \in 1 .. n + 1
          BY <4>2
        <5>2. at[k - 1] + j \in 1 .. Len(a) /\ a[at[k - 1] + j] = s[k][j]
          BY <3>1, <5>1
        <5>3. Len(a) \in Nat /\ Len(b) \in Nat
          BY <3>1
        <5>4. at[k - 1] + j \in 1 .. Len(a) + Len(b)
          BY <5>2, <5>3, SMTT(30)
        <5>5. (a \o b)[at[k - 1] + j] = s[k][j]
          BY <3>4, <5>2
        <5>6. QED
          BY <3>2, <3>3, <5>4, <5>5
      <4>3. QED
        BY <4>1, <4>2
    <3>6. QED
      BY <3>2, <3>3, <3>4, <3>5
  <2> HIDE DEF Right
  <2>10. \A n \in Nat : n \in M => n + 1 \in M
    <3> TAKE n \in Nat
    <3>1. (n + 1) + 1 = n + 2 /\ (n + 2 <= Len(s) => n + 1 <= Len(s))
      OBVIOUS
    <3>2. QED
      BY <2>9, <3>1
  <2>11. 0 \in M
    BY <2>8
  <2>12. Len(s) - 1 \in M
    <3> HIDE DEF M
    <3>1. Nat \subseteq M
      BY <2>10, <2>11, Inductive
    <3>2. QED
      BY <1>2, <3>1
  <2>13. Right(Len(s))
    BY <2>12
  <2>14. \A k \in DOMAIN s : at[k - 1] \in Nat
    BY <2>3
  <2>15. at[Len(s)] = Len(FlattenSeq(s)) /\ FlattenSeq(s) \in Seq(V)
    <3>1. Len(s) \in 1 .. Len(s) /\ Len(g[Len(s)]) = at[Len(s)]
      BY <1>2, <2>13 DEF Right
    <3>2. QED
      BY <2>1, <3>1
  <2>16. \A k \in DOMAIN s : \A j \in 1 .. Len(s[k]) :
             at[k - 1] + j \in 1 .. Len(FlattenSeq(s)) /\ FlattenSeq(s)[at[k - 1] + j] = s[k][j]
    <3>1. DOMAIN s = 1 .. Len(s)
      OBVIOUS
    <3>2. QED
      BY <2>1, <2>13, <2>15, <3>1 DEF Right
  <2>17. QED
    BY <2>6, <2>7, <2>14, <2>15, <2>16
<1>3. QED
  BY <1>1, <1>2
-----------------------------------------------------------------------------
(* A product of naturals is one: what Others returns. *)
LEMMA ProductNat ==
    ASSUME NEW S, IsFiniteSet(S), NEW f, \A x \in S : f[x] \in Nat
    PROVE  Product(f, S) \in Nat
<1> DEFINE Times == [p \in Nat \X Nat |-> p[1] * p[2]]
           Body(g) == [T \in SUBSET S |-> IF T = {} THEN 1
                                          ELSE f[CHOOSE x \in T : TRUE] * g[T \ {CHOOSE x \in T : TRUE}]]
<1>1. Product(f, S) = (CHOOSE g : g = Body(g))[S]
  BY DEF Product, FoldFunctionOnSet, MapThenFoldSet
<1>2. PICK h \in [SUBSET S -> Nat] : Folded(Times, 1, f, S, h)
  <2>1. Times \in [Nat \X Nat -> Nat]
    OBVIOUS
  <2>2. 1 \in Nat
    OBVIOUS
  <2> HIDE DEF Times
  <2>3. QED
    BY <2>1, <2>2, FoldExists, Zenon
<1>3. ASSUME NEW g \in [SUBSET S -> Nat], NEW T \in SUBSET S, T # {}
      PROVE  Times[<<f[Pick(T)], g[T \ {Pick(T)}]>>] = f[Pick(T)] * g[T \ {Pick(T)}]
  <2>1. Pick(T) \in T
    BY <1>3 DEF Pick
  <2>2. <<f[Pick(T)], g[T \ {Pick(T)}]>> \in Nat \X Nat
    BY <2>1
  <2>3. QED
    BY <2>2
<1>4. h = Body(h)
  <2> HIDE DEF Times
  <2>1. ASSUME NEW T \in SUBSET S PROVE h[T] = Body(h)[T]
    BY <1>2, <1>3 DEF Folded, Pick
  <2>2. QED
    BY <2>1
<1>5. PICK g : g = Body(g) /\ Product(f, S) = g[S]
  <2> DEFINE k == CHOOSE g : g = Body(g)
  <2>1. k = Body(k)
    BY <1>4, ZenonT(40)
  <2>2. Product(f, S) = k[S]
    BY <1>1
  <2> HIDE DEF k
  <2>3. QED
    BY <2>1, <2>2
<1>6. g[{}] = h[{}]
  BY <1>4, <1>5
<1>7. ASSUME NEW T \in SUBSET S, T # {}, g[T \ {Pick(T)}] = h[T \ {Pick(T)}] PROVE g[T] = h[T]
  <2>1. g[T] = f[Pick(T)] * g[T \ {Pick(T)}]
    BY <1>5, <1>7 DEF Pick
  <2>2. h[T] = f[Pick(T)] * h[T \ {Pick(T)}]
    BY <1>4, <1>7 DEF Pick
  <2>3. QED
    BY <1>7, <2>1, <2>2, Zenon
<1>8. g[S] = h[S]
  BY <1>6, <1>7, FoldsAgree
<1>9. h[S] \in Nat
  OBVIOUS
<1>10. QED
  BY <1>5, <1>8, <1>9, Zenon

(* An element of a sequence. *)
LEMMA Member == ASSUME NEW V, NEW s \in Seq(V), NEW k \in DOMAIN s PROVE s[k] \in V
OBVIOUS

(* The sources, as PlanAssumption types them. *)
LEMMA ConfigTypes ==
    ASSUME PlanAssumption, config \in Configs
    PROVE  /\ config.sources \in Seq(BucketRoots) /\ config.sources # <<>>
           /\ config.epochs \in Nat /\ config.weights \in Seq(Nat)
           /\ Len(config.weights) = Len(config.sources)
           /\ config.strategy \in {"proportional", "uniform", "inverse_size", "manual"}
           /\ Sources = 1 .. Len(config.sources)
           /\ MinLength \in Nat \ {0} /\ Scale \in Nat \ {0} /\ None \notin Nat /\ MaxCrashes \in Nat
BY DEF PlanAssumption, Sources

(* One of the sources. *)
LEMMA SourceTypes ==
    ASSUME PlanAssumption, config \in Configs, NEW i \in Sources
    PROVE  LET root == config.sources[i] IN
           /\ root.buckets \in Seq([lengths : Seq(Nat), fails : {"no", "environment", "contract"}])
           /\ root.budget \in (Nat \ {0}) \cup {None} /\ root.strict \in BOOLEAN
           /\ \A n \in DOMAIN root.buckets : Scale % n = 0
           /\ DOMAIN root.buckets = 1 .. Len(root.buckets)
           /\ IsFiniteSet(DOMAIN root.buckets)
<1>1. config.sources \in Seq(BucketRoots) /\ Sources = 1 .. Len(config.sources)
  BY ConfigTypes
<1>2. config.sources[i] \in BucketRoots
  BY <1>1
<1>3. \A n \in DOMAIN config.sources[i].buckets : Scale % n = 0
  BY DEF PlanAssumption, Sources
<1>4. config.sources[i].buckets \in Seq([lengths : Seq(Nat), fails : {"no", "environment", "contract"}])
  BY <1>2 DEF BucketRoots
<1>5. IsFiniteSet(DOMAIN config.sources[i].buckets)
  BY <1>4, FS_Interval
<1>6. QED
  BY <1>2, <1>3, <1>4, <1>5 DEF BucketRoots

(* One of the buckets of a source. *)
LEMMA BucketTypes ==
    ASSUME PlanAssumption, config \in Configs, NEW i \in Sources, NEW b \in DOMAIN config.sources[i].buckets
    PROVE  /\ Lengths(i, b) \in Seq(Nat)
           /\ IsFiniteSet(Episodes(i, b)) /\ Episodes(i, b) \subseteq Nat \ {0}
           /\ \A e \in Episodes(i, b) : Lengths(i, b)[e] \in Nat
           /\ Sampleable(i, b) \subseteq Episodes(i, b)
           /\ config.sources[i].buckets[b].fails \in {"no", "environment", "contract"}
<1>1. config.sources[i].buckets \in Seq([lengths : Seq(Nat), fails : {"no", "environment", "contract"}])
  BY SourceTypes
<1>2. config.sources[i].buckets[b] \in [lengths : Seq(Nat), fails : {"no", "environment", "contract"}]
  <2> DEFINE buckets == config.sources[i].buckets
  <2>1. buckets \in Seq([lengths : Seq(Nat), fails : {"no", "environment", "contract"}])
          /\ b \in DOMAIN buckets
    BY <1>1
  <2> HIDE DEF buckets
  <2>2. buckets[b] \in [lengths : Seq(Nat), fails : {"no", "environment", "contract"}]
    BY <2>1, Member
  <2>3. QED
    BY <2>2 DEF buckets
<1>3. Lengths(i, b) \in Seq(Nat)
  BY <1>2 DEF Lengths
<1>4. IsFiniteSet(Episodes(i, b))
  BY <1>3, FS_Interval DEF Episodes
<1>5. QED
  BY <1>2, <1>3, <1>4 DEF Episodes, Sampleable

(* Footage and windows are counted by naturals, and there are windows where *)
(* there is footage.                                                        *)
LEMMA Footage ==
    ASSUME PlanAssumption, config \in Configs, NEW i \in Sources, NEW b \in DOMAIN config.sources[i].buckets,
           NEW eps
    PROVE  /\ EffectiveFrames(i, b, eps) \in Nat /\ Windows(i, b, eps) \in Nat
           /\ IsFiniteSet(eps \cap Sampleable(i, b))
           /\ \A e \in Sampleable(i, b) : Lengths(i, b)[e] \in Nat \ {0}
           /\ eps \cap Sampleable(i, b) # {} => EffectiveFrames(i, b, eps) > 0 /\ Windows(i, b, eps) > 0
           /\ eps \cap Sampleable(i, b) = {} => EffectiveFrames(i, b, eps) = 0 /\ Windows(i, b, eps) = 0
<1> DEFINE S == eps \cap Sampleable(i, b)
           starts == [e \in Episodes(i, b) |-> Lengths(i, b)[e] - MinLength + 1]
<1>1. /\ IsFiniteSet(Episodes(i, b)) /\ Sampleable(i, b) \subseteq Episodes(i, b)
      /\ \A e \in Episodes(i, b) : Lengths(i, b)[e] \in Nat
  BY BucketTypes
<1>2. IsFiniteSet(S)
  BY <1>1, FS_Subset
<1>3. MinLength \in Nat \ {0}
  BY ConfigTypes
<1>4. \A e \in Sampleable(i, b) : Lengths(i, b)[e] \in Nat \ {0} /\ starts[e] \in Nat \ {0}
  BY <1>1, <1>3 DEF Sampleable
<1>5. EffectiveFrames(i, b, eps) = SumFunctionOnSet(Lengths(i, b), S)
        /\ Windows(i, b, eps) = SumFunctionOnSet(starts, S)
  BY DEF EffectiveFrames, Windows
<1> HIDE DEF starts
<1>6. EffectiveFrames(i, b, eps) \in Nat /\ Windows(i, b, eps) \in Nat
  <2>1. \A e \in S : Lengths(i, b)[e] \in Nat /\ starts[e] \in Nat
    BY <1>4
  <2> HIDE DEF S
  <2>2. QED
    BY <1>2, <1>5, <2>1, SumNat
<1>7. ASSUME S # {} PROVE EffectiveFrames(i, b, eps) > 0 /\ Windows(i, b, eps) > 0
  <2>1. PICK e \in S : TRUE
    BY <1>7
  <2>2. \A d \in S : Lengths(i, b)[d] \in Nat /\ starts[d] \in Nat
    BY <1>4
  <2>3. Lengths(i, b)[e] > 0 /\ starts[e] > 0
    BY <1>4
  <2> HIDE DEF S
  <2>4. SumFunctionOnSet(Lengths(i, b), S) \in Nat \ {0} /\ SumFunctionOnSet(starts, S) \in Nat \ {0}
    BY <1>2, <2>1, <2>2, <2>3, SumPositive
  <2>5. QED
    BY <1>5, <2>4
<1>8. ASSUME S = {} PROVE EffectiveFrames(i, b, eps) = 0 /\ Windows(i, b, eps) = 0
  BY <1>5, <1>8, SumEmpty
<1>9. QED
  BY <1>2, <1>4, <1>6, <1>7, <1>8
-----------------------------------------------------------------------------
KeptType == UNION {[1 .. n -> SUBSET Nat] : n \in Nat}

(* A source that is built has windows. *)
Usable(i) ==
    /\ kept[i] \in KeptType
    /\ DOMAIN kept[i] = DOMAIN config.sources[i].buckets
    /\ \E b \in DOMAIN kept[i] : kept[i][b] \cap Sampleable(i, b) # {}

(* A source has windows, bucket by bucket. *)
LEMMA SizeType ==
    ASSUME PlanAssumption, config \in Configs, NEW i \in Sources, Usable(i)
    PROVE  /\ Size(i) \in Nat \ {0}
                /\ Size(i) = SumFunctionOnSet(WindowsOf(i), 1 .. Len(config.sources[i].buckets))
           /\ DOMAIN kept[i] = 1 .. Len(config.sources[i].buckets) /\ Len(config.sources[i].buckets) \in Nat
           /\ DOMAIN WindowsOf(i) = DOMAIN kept[i]
           /\ \A b \in DOMAIN kept[i] : WindowsOf(i)[b] = Windows(i, b, kept[i][b]) /\ WindowsOf(i)[b] \in Nat
<1>1. /\ DOMAIN kept[i] = 1 .. Len(config.sources[i].buckets) /\ IsFiniteSet(DOMAIN kept[i])
      /\ Len(config.sources[i].buckets) \in Nat
  <2>1. config.sources[i].buckets \in Seq([lengths : Seq(Nat), fails : {"no", "environment", "contract"}])
    BY SourceTypes
  <2>2. QED
    BY <2>1, SourceTypes DEF Usable
<1>2. \A b \in DOMAIN kept[i] : WindowsOf(i)[b] = Windows(i, b, kept[i][b]) /\ WindowsOf(i)[b] \in Nat
  <2>1. ASSUME NEW b \in DOMAIN kept[i] PROVE Windows(i, b, kept[i][b]) \in Nat
    <3>1. b \in DOMAIN config.sources[i].buckets
      BY DEF Usable
    <3>2. QED
      BY <3>1, Footage
  <2>2. QED
    BY <2>1 DEF WindowsOf
<1>3. DOMAIN WindowsOf(i) = DOMAIN kept[i]
  BY DEF WindowsOf
<1>4. Size(i) = SumFunctionOnSet(WindowsOf(i), DOMAIN kept[i])
  BY <1>3 DEF Size, SumFunction
<1>5. PICK b \in DOMAIN kept[i] : WindowsOf(i)[b] > 0
  <2>1. PICK b \in DOMAIN kept[i] : kept[i][b] \cap Sampleable(i, b) # {}
    BY DEF Usable
  <2>2. b \in DOMAIN config.sources[i].buckets
    BY DEF Usable
  <2>3. Windows(i, b, kept[i][b]) > 0
    BY <2>1, <2>2, Footage
  <2>4. QED
    BY <1>2, <2>3
<1>6. SumFunctionOnSet(WindowsOf(i), DOMAIN kept[i]) \in Nat \ {0}
  BY <1>1, <1>2, <1>5, SumPositive
<1>7. QED
  BY <1>1, <1>2, <1>3, <1>4, <1>6

(* A window of a source is in one of its buckets: no two have one place.   *)
LEMMA Dispatched ==
    ASSUME PlanAssumption, config \in Configs, NEW i \in Sources, Usable(i), NEW idx \in 0 .. Size(i) - 1
    PROVE  \E k \in DOMAIN kept[i] :
               /\ Dispatch(i, idx) = <<i, k, idx - SumFunctionOnSet(WindowsOf(i), 1 .. k - 1)>>
               /\ SumFunctionOnSet(WindowsOf(i), 1 .. k - 1) \in Nat
<1> DEFINE n == Len(config.sources[i].buckets)
           from(k) == SumFunctionOnSet(WindowsOf(i), 1 .. k - 1)
<1>1. /\ n \in Nat /\ DOMAIN kept[i] = 1 .. n /\ \A b \in 1 .. n : WindowsOf(i)[b] \in Nat
      /\ Size(i) = SumFunctionOnSet(WindowsOf(i), 1 .. n) /\ Size(i) \in Nat \ {0}
  BY SizeType
<1>2. \E k \in 1 .. n : from(k) <= idx /\ idx < from(k + 1)
  <2>1. idx \in Nat /\ idx < SumFunctionOnSet(WindowsOf(i), 1 .. n)
    BY <1>1
  <2> HIDE DEF n
  <2>2. PICK k \in 1 .. n : /\ SumFunctionOnSet(WindowsOf(i), 1 .. k - 1) <= idx
                            /\ idx < SumFunctionOnSet(WindowsOf(i), 1 .. k)
    BY <1>1, <2>1, Located
  <2>3. (k + 1) - 1 = k
    OBVIOUS
  <2>4. QED
    BY <2>2, <2>3
<1> DEFINE k == CHOOSE k \in DOMAIN kept[i] : from(k) <= idx /\ idx < from(k + 1)
<1>3. k \in DOMAIN kept[i]
  BY <1>1, <1>2
<1>4. Dispatch(i, idx) = <<i, k, idx - from(k)>>
  BY DEF Dispatch
<1>5. from(k) \in Nat
  <2> HIDE DEF k, n
  <2>1. k \in 1 .. n
    BY <1>1, <1>3
  <2>2. IsFiniteSet(1 .. k - 1)
    BY <1>1, <2>1, FS_Interval
  <2>3. \A b \in 1 .. k - 1 : WindowsOf(i)[b] \in Nat
    BY <1>1, <2>1
  <2>4. QED
    BY <2>2, <2>3, SumNat
<1> HIDE DEF k
<1>6. QED
  BY <1>3, <1>4, <1>5

(* MultiLeRobotV3Reader.__getitem__ returns no window for two indices. *)
LEMMA DispatchedApart ==
    ASSUME PlanAssumption, config \in Configs, NEW i \in Sources, Usable(i),
           NEW m \in 0 .. Size(i) - 1, NEW n \in 0 .. Size(i) - 1, Dispatch(i, m) = Dispatch(i, n)
    PROVE  m = n
<1>0. m \in Int /\ n \in Int
  OBVIOUS
<1>1. PICK k \in DOMAIN kept[i] :
          /\ Dispatch(i, m) = <<i, k, m - SumFunctionOnSet(WindowsOf(i), 1 .. k - 1)>>
          /\ SumFunctionOnSet(WindowsOf(i), 1 .. k - 1) \in Nat
  BY Dispatched
<1>2. PICK l \in DOMAIN kept[i] :
          /\ Dispatch(i, n) = <<i, l, n - SumFunctionOnSet(WindowsOf(i), 1 .. l - 1)>>
          /\ SumFunctionOnSet(WindowsOf(i), 1 .. l - 1) \in Nat
  BY Dispatched
<1> DEFINE x == SumFunctionOnSet(WindowsOf(i), 1 .. k - 1)
           y == SumFunctionOnSet(WindowsOf(i), 1 .. l - 1)
<1>3. <<i, k, m - x>> = <<i, l, n - y>> /\ x \in Nat
  BY <1>1, <1>2, Zenon
<1>4. k = l => x = y
  OBVIOUS
<1> HIDE DEF x, y
<1>5. k = l /\ m - x = n - y
  BY <1>3
<1>6. QED
  BY <1>0, <1>3, <1>4, <1>5

(* round() of a quotient without a rest. *)
LEMMA RoundExact ==
    ASSUME NEW q \in Nat \ {0}, NEW n \in Nat
    PROVE  Round(q * n, q) = n
<1> DEFINE d == (q * n) \div q  r == (q * n) % q
<1>1. d \in Int /\ r \in 0 .. q - 1 /\ q * n = q * d + r
  BY q * n \in Nat
<1> HIDE DEF d, r
<1>2. q * (n - d) = r
  BY <1>1
<1>3. n - d \in Int /\ (n - d >= 1 => q * (n - d) >= q) /\ (n - d <= -1 => q * (n - d) <= -q)
  BY <1>1
<1>4. n = d /\ r = 0
  BY <1>1, <1>2, <1>3
<1>5. QED
  BY <1>4 DEF Round, d, r

(* round() of a quotient of naturals. *)
LEMMA RoundType ==
    ASSUME NEW p \in Nat, NEW q \in Nat \ {0}
    PROVE  Round(p, q) \in Nat
BY DEF Round

(* A function on 1 .. n is a sequence of length n. *)
LEMMA ListOf ==
    ASSUME NEW V, NEW n \in Nat, NEW s \in [1 .. n -> V]
    PROVE  s \in Seq(V) /\ Len(s) = n /\ DOMAIN s = 1 .. n
OBVIOUS
-----------------------------------------------------------------------------
(* The remainder of what is r more than a multiple. *)
LEMMA Remainder ==
    ASSUME NEW len \in Nat \ {0}, NEW q \in Int, NEW r \in 0 .. len - 1
    PROVE  (len * q + r) % len = r
<1> DEFINE x == len * q + r  d == x \div len  m == x % len
<1>1. x \in Int
  OBVIOUS
<1>2. d \in Int /\ m \in 0 .. len - 1 /\ x = len * d + m
  <2> HIDE DEF x
  <2>1. QED
    BY <1>1
<1> HIDE DEF d, m
<1>3. len * (q - d) = m - r
  BY <1>2
<1>4. q - d \in Int /\ (q - d >= 1 => len * (q - d) >= len) /\ (q - d <= -1 => len * (q - d) <= -len)
  BY <1>2
<1>5. m = r
  BY <1>2, <1>3, <1>4
<1>6. QED
  BY <1>5 DEF m

(* Turning the map is a permutation of its places.                         *)
LEMMA Turned ==
    ASSUME NEW len \in Nat \ {0}, NEW e \in Nat, NEW p \in 1 .. len
    PROVE  \E n \in 1 .. len : /\ ((n - 1 + e) % len) + 1 = p
                               /\ \A m \in 1 .. len : ((m - 1 + e) % len) + 1 = p => m = n
<1> DEFINE x == p - 1 + (len - 1) * e  d == x \div len  n == (x % len) + 1
<1>1. x \in Int
  OBVIOUS
<1>2. d \in Int /\ n \in 1 .. len /\ x = len * d + (n - 1)
  <2> HIDE DEF x
  <2>1. QED
    BY <1>1
<1>3. n - 1 + e = len * (e - d) + (p - 1)
  <2>1. x = p - 1 + len * e - e
    OBVIOUS
  <2> HIDE DEF x, d, n
  <2>2. len * (e - d) = len * e - len * d
    BY <1>2
  <2>3. len * e \in Int /\ len * d \in Int
    BY <1>2
  <2>4. QED
    BY <1>2, <2>1, <2>2, <2>3
<1> HIDE DEF d, n
<1>4. ((n - 1 + e) % len) + 1 = p
  <2>1. e - d \in Int /\ p - 1 \in 0 .. len - 1
    BY <1>2
  <2>2. (len * (e - d) + (p - 1)) % len = p - 1
    BY <2>1, Remainder
  <2>3. QED
    BY <1>3, <2>2
<1>5. ASSUME NEW m \in 1 .. len, ((m - 1 + e) % len) + 1 = p PROVE m = n
  <2> DEFINE a == m - 1 + e  b == n - 1 + e
  <2>1. a \in Nat /\ b \in Nat /\ a - b = m - n
    BY <1>2
  <2>2. a % len = b % len
    BY <1>4, <1>5, <1>2
  <2> HIDE DEF a, b
  <2>3. a = len * (a \div len) + (a % len) /\ b = len * (b \div len) + (b % len)
    BY <2>1
  <2> DEFINE k == (a \div len) - (b \div len)
  <2>4. k \in Int /\ a - b = len * k
    <3>1. a \div len \in Int /\ b \div len \in Int /\ a % len \in Int
      BY <2>1
    <3>2. len * k = len * (a \div len) - len * (b \div len)
      BY <3>1
    <3>3. QED
      BY <2>1, <2>2, <2>3, <3>1, <3>2
  <2> HIDE DEF k
  <2>5. (k >= 1 => len * k >= len) /\ (k <= -1 => len * k <= -len)
    BY <2>4
  <2>6. QED
    BY <1>2, <2>1, <2>4, <2>5
<1>6. QED
  BY <1>2, <1>4, <1>5

(* What is once in the map is once in the map of every epoch. *)
LEMMA OnceInMap ==
    ASSUME NEW V, dealt \in Seq(V), NEW e \in Nat, NEW w, NEW p \in 1 .. Len(dealt), dealt[p] = w,
           \A n \in 1 .. Len(dealt) : dealt[n] = w => n = p
    PROVE  Count(w, Map(e)) = 1
<1> DEFINE len == Len(dealt)
<1>1. len \in Nat \ {0} /\ DOMAIN dealt = 1 .. len
  OBVIOUS
<1>2. PICK n \in 1 .. len : /\ ((n - 1 + e) % len) + 1 = p
                            /\ \A m \in 1 .. len : ((m - 1 + e) % len) + 1 = p => m = n
  <2> HIDE DEF len
  <2>1. p \in 1 .. len
    BY DEF len
  <2>2. QED
    BY <1>1, <2>1, Turned
<1>3. DOMAIN Map(e) = 1 .. len /\ \A m \in 1 .. len : Map(e)[m] = dealt[((m - 1 + e) % len) + 1]
  BY <1>1 DEF Map
<1>4. \A m \in 1 .. len : ((m - 1 + e) % len) + 1 \in 1 .. len
  <2> HIDE DEF len
  <2>1. QED
    BY <1>1
<1> HIDE DEF len
<1>5. \A m \in 1 .. len : Map(e)[m] = w <=> m = n
  <2>1. \A k \in 1 .. len : dealt[k] = w <=> k = p
    BY DEF len
  <2>2. QED
    BY <1>2, <1>3, <1>4, <2>1
<1>6. {m \in DOMAIN Map(e) : Map(e)[m] = w} = {n}
  BY <1>2, <1>3, <1>5
<1>7. QED
  BY <1>6, FS_Singleton DEF Count

(* Weights are counted by naturals. *)
LEMMA WeightType ==
    ASSUME PlanAssumption, config \in Configs, \A i \in Sources : Usable(i)
    PROVE  /\ \A i \in Sources : Weight(i) \in Nat
           /\ TotalReal \in Nat /\ TotalWeight \in Nat
<1>1. Sources = 1 .. Len(config.sources) /\ IsFiniteSet(Sources)
  <2>1. Sources = 1 .. Len(config.sources) /\ Len(config.sources) \in Nat
    BY ConfigTypes
  <2>2. QED
    BY <2>1, FS_Interval
<1>2. \A i \in Sources : Size(i) \in Nat
  BY SizeType
<1>3. ASSUME NEW i \in Sources PROVE Weight(i) \in Nat
  <2>1. Others(i) \in Nat
    <3> DEFINE f == [j \in Sources |-> Size(j)]  S == Sources \ {i}
    <3>1. IsFiniteSet(S) /\ \A j \in S : f[j] \in Nat
      BY <1>1, <1>2, FS_Subset
    <3>2. Others(i) = Product(f, S)
      BY DEF Others
    <3> HIDE DEF f, S
    <3>3. Product(f, S) \in Nat
      BY <3>1, ProductNat
    <3>4. QED
      BY <3>2, <3>3, Zenon
  <2>2. config.weights[i] \in Nat
    BY <1>1, ConfigTypes, SMTT(30)
  <2>3. config.strategy \in {"proportional", "uniform", "inverse_size", "manual"}
    BY ConfigTypes
  <2>4. QED
    BY <1>2, <2>1, <2>2, <2>3 DEF Weight
<1>4. TotalReal \in Nat
  <2> DEFINE f == [i \in Sources |-> Size(i)]
  <2>1. DOMAIN f = Sources /\ \A i \in Sources : f[i] \in Nat
    BY <1>2
  <2>2. TotalReal = SumFunctionOnSet(f, Sources)
    BY <2>1 DEF TotalReal, SumFunction
  <2> HIDE DEF f
  <2>3. QED
    BY <1>1, <2>1, <2>2, SumNat
<1>5. TotalWeight \in Nat
  <2> DEFINE f == [i \in Sources |-> Weight(i)]
  <2>1. DOMAIN f = Sources /\ \A i \in Sources : f[i] \in Nat
    BY <1>3
  <2>2. TotalWeight = SumFunctionOnSet(f, Sources)
    BY <2>1 DEF TotalWeight, SumFunction
  <2> HIDE DEF f
  <2>3. QED
    BY <1>1, <2>1, <2>2, SumNat
<1>6. QED
  BY <1>3, <1>4, <1>5

(* Under "proportional" weights a source has as many samples as windows. *)
LEMMA VirtualType ==
    ASSUME PlanAssumption, config \in Configs, \A i \in Sources : Usable(i), TotalWeight # 0,
           NEW i \in Sources
    PROVE  Virtual(i) \in Nat /\ (config.strategy = "proportional" => Virtual(i) = Size(i))
<1>1. Weight(i) \in Nat /\ TotalReal \in Nat /\ TotalWeight \in Nat \ {0}
  BY WeightType
<1>2. TotalReal * Weight(i) \in Nat
  BY <1>1
<1>3. Round(TotalReal * Weight(i), TotalWeight) \in Nat
  BY <1>1, <1>2, RoundType
<1>4. Virtual(i) \in Nat
  BY <1>3 DEF Virtual
<1>5. ASSUME config.strategy = "proportional" PROVE Virtual(i) = Size(i)
  <2>1. \A j \in Sources : Weight(j) = Size(j)
    BY <1>5 DEF Weight
  <2>2. [j \in Sources |-> Weight(j)] = [j \in Sources |-> Size(j)]
    BY <2>1
  <2>3. TotalWeight = TotalReal
    BY <2>2, Zenon DEF TotalWeight, TotalReal
  <2>4. Size(i) \in Nat \ {0}
    BY SizeType
  <2>5. Round(TotalReal * Size(i), TotalReal) = Size(i)
    BY <1>1, <2>3, <2>4, RoundExact
  <2>6. QED
    BY <2>1, <2>3, <2>4, <2>5 DEF Virtual
<1>6. QED
  BY <1>4, <1>5

(* The map before the shuffle: where a source's samples are. *)
Dealing == [i \in Sources |-> [n \in 1 .. Virtual(i) |-> Dispatch(i, (n - 1) % Size(i))]]
Deals   == [i \in Sources |-> Virtual(i)]
Triples == {Dispatch(i, n) : i \in Sources, n \in Int}

(* The map has the samples of a source in a row. *)
LEMMA DealtOut ==
    ASSUME PlanAssumption, config \in Configs, \A i \in Sources : Usable(i), TotalWeight # 0
    PROVE  /\ Deal \in Seq(Triples)
           /\ Len(Deal) = SumFunctionOnSet(Deals, 1 .. Len(config.sources))
           /\ \A i \in Sources : \A n \in 1 .. Virtual(i) :
                  /\ SumFunctionOnSet(Deals, 1 .. i - 1) \in Nat
                  /\ SumFunctionOnSet(Deals, 1 .. i - 1) + n \in 1 .. Len(Deal)
                  /\ Deal[SumFunctionOnSet(Deals, 1 .. i - 1) + n] = Dispatch(i, (n - 1) % Size(i))
<1>1. Sources = 1 .. Len(config.sources) /\ Len(config.sources) \in Nat
  BY ConfigTypes
<1>2. \A i \in Sources : Virtual(i) \in Nat /\ Size(i) \in Nat \ {0}
  BY VirtualType, SizeType
<1>3. \A i \in Sources : Dealing[i] = [n \in 1 .. Virtual(i) |-> Dispatch(i, (n - 1) % Size(i))]
  BY DEF Dealing
<1>4. ASSUME NEW i \in Sources PROVE Dealing[i] \in Seq(Triples) /\ Len(Dealing[i]) = Deals[i]
  <2>1. \A n \in 1 .. Virtual(i) : Dispatch(i, (n - 1) % Size(i)) \in Triples
    <3>1. \A n \in 1 .. Virtual(i) : (n - 1) % Size(i) \in Int
      BY <1>2
    <3>2. QED
      BY <3>1 DEF Triples
  <2>2. Dealing[i] \in [1 .. Virtual(i) -> Triples]
    BY <1>3, <2>1
  <2>3. Dealing[i] \in Seq(Triples) /\ Len(Dealing[i]) = Virtual(i)
    BY <1>2, <2>2, ListOf
  <2>4. QED
    BY <2>3 DEF Deals
<1>5. Dealing \in Seq(Seq(Triples)) /\ DOMAIN Dealing = Sources /\ Len(Dealing) = Len(config.sources)
  <2>1. DOMAIN Dealing = 1 .. Len(config.sources)
    BY <1>1 DEF Dealing
  <2>2. Dealing = [i \in 1 .. Len(config.sources) |-> Dealing[i]]
    BY <1>1 DEF Dealing
  <2>3. \A i \in 1 .. Len(config.sources) : Dealing[i] \in Seq(Triples)
    BY <1>1, <1>4
  <2>4. QED
    BY <1>1, <2>1, <2>2, <2>3
<1>6. Deal = FlattenSeq(Dealing)
  BY DEF Deal, Dealing
<1>7. \A i \in DOMAIN Dealing : Deals[i] = Len(Dealing[i])
  BY <1>4, <1>5
<1>8. /\ Deal \in Seq(Triples)
      /\ Len(Deal) = SumFunctionOnSet(Deals, 1 .. Len(Dealing))
      /\ \A i \in DOMAIN Dealing : \A n \in 1 .. Len(Dealing[i]) :
             /\ SumFunctionOnSet(Deals, 1 .. i - 1) \in Nat
             /\ SumFunctionOnSet(Deals, 1 .. i - 1) + n \in 1 .. Len(Deal)
             /\ Deal[SumFunctionOnSet(Deals, 1 .. i - 1) + n] = Dealing[i][n]
  BY <1>5, <1>6, <1>7, Flatten, SMTT(30)
<1>9. \A i \in Sources : \A n \in 1 .. Virtual(i) : n \in 1 .. Len(Dealing[i])
        /\ Dealing[i][n] = Dispatch(i, (n - 1) % Size(i))
  BY <1>3, <1>4, ZenonT(40) DEF Deals
<1>10. QED
  BY <1>5, <1>8, <1>9

(* Under "proportional" weights each window is in the map of an epoch      *)
(* once.                                                                   *)
LEMMA OneEach ==
    ASSUME PlanAssumption, config \in Configs, \A i \in Sources : Usable(i), TotalWeight # 0, dealt = Deal,
           config.strategy = "proportional", NEW e \in Nat, NEW i \in Sources, NEW w \in AllWindows(i)
    PROVE  Count(w, Map(e)) = 1
<1> DEFINE from(k) == SumFunctionOnSet(Deals, 1 .. k - 1)
           len == Len(config.sources)
<1>1. /\ \A k \in Sources : Virtual(k) = Size(k) /\ Size(k) \in Nat \ {0} /\ Deals[k] = Size(k)
      /\ Sources = 1 .. len /\ len \in Nat
  BY VirtualType, SizeType, ConfigTypes DEF Deals
<1>2. PICK n \in 0 .. Size(i) - 1 : w = Dispatch(i, n)
  BY DEF AllWindows
<1>3. /\ dealt \in Seq(Triples)
      /\ Len(dealt) = SumFunctionOnSet(Deals, 1 .. len)
      /\ \A k \in Sources : \A j \in 1 .. Size(k) :
             /\ from(k) \in Nat
             /\ from(k) + j \in 1 .. Len(dealt)
             /\ dealt[from(k) + j] = Dispatch(k, (j - 1) % Size(k))
  BY <1>1, DealtOut
<1>4. \A k \in Sources : \A j \in 1 .. Size(k) : (j - 1) % Size(k) = j - 1
  <2>1. ASSUME NEW k \in Sources, NEW j \in 1 .. Size(k) PROVE (j - 1) % Size(k) = j - 1
    <3>1. Size(k) \in Nat \ {0} /\ j - 1 \in 0 .. Size(k) - 1
      BY <1>1
    <3>2. QED
      BY <3>1, SMTT(30)
  <2>2. QED
    BY <2>1
<1> DEFINE p == from(i) + (n + 1)
<1>5. p \in 1 .. Len(dealt) /\ dealt[p] = w
  <2>1. n + 1 \in 1 .. Size(i) /\ (n + 1) - 1 = n
    BY <1>1
  <2>2. QED
    BY <1>2, <1>3, <1>4, <2>1
<1>6. ASSUME NEW q \in 1 .. Len(dealt), dealt[q] = w PROVE q = p
  <2>1. \A k \in 1 .. len : Deals[k] \in Nat
    BY <1>1
  <2>2. q - 1 \in Nat /\ q - 1 < SumFunctionOnSet(Deals, 1 .. len)
    BY <1>3
  <2>3. PICK k \in 1 .. len : /\ SumFunctionOnSet(Deals, 1 .. k - 1) \in Nat
                              /\ SumFunctionOnSet(Deals, 1 .. k)
                                     = SumFunctionOnSet(Deals, 1 .. k - 1) + Deals[k]
                              /\ SumFunctionOnSet(Deals, 1 .. k - 1) <= q - 1
                              /\ q - 1 < SumFunctionOnSet(Deals, 1 .. k)
    <3> HIDE DEF len
    <3>1. QED
      BY <1>1, <2>1, <2>2, Located
  <2> DEFINE j == q - from(k)
  <2>4. k \in Sources /\ from(k) \in Nat /\ j \in 1 .. Size(k) /\ from(k) + j = q
    BY <1>1, <2>3, SMTT(30)
  <2>5. w = Dispatch(k, j - 1)
    BY <1>3, <1>4, <1>6, <2>4
  <2>6. j - 1 \in 0 .. Size(k) - 1
    BY <1>1, <2>4, SMTT(30)
  <2>7. k = i
    <3>1. Dispatch(k, j - 1)[1] = k
      <4>1. \E l : \E x : Dispatch(k, j - 1) = <<k, l, x>>
        BY <2>4, <2>6, Dispatched
      <4>2. QED
        BY <4>1
    <3>2. Dispatch(i, n)[1] = i
      <4>1. \E l : \E x : Dispatch(i, n) = <<i, l, x>>
        BY Dispatched
      <4>2. QED
        BY <4>1
    <3>3. QED
      BY <1>2, <2>5, <3>1, <3>2, Zenon
  <2>8. j - 1 = n
    BY <1>2, <2>5, <2>6, <2>7, DispatchedApart
  <2>9. QED
    BY <1>3, <2>4, <2>7, <2>8, SMTT(30)
<1> HIDE DEF p
<1>7. QED
  BY <1>3, <1>5, <1>6, OnceInMap
-----------------------------------------------------------------------------
(* The inductive invariant. *)
Building == {"load", "fill", "select"}
Looping  == {"epochs", "training", "done"}

(* The sources are built one by one; each has windows. *)
BuildInv ==
    /\ config \in Configs /\ source \in 1 .. Len(config.sources) + 1
    /\ stage \in Building \cup Looping \cup {"mix", "aborted"}
    /\ stage \in Building => source <= Len(config.sources)
    /\ stage \in Looping \cup {"mix"} => source = Len(config.sources) + 1
    /\ kept \in Seq(KeptType)
    /\ Len(kept) = IF stage \in {"fill", "select"} THEN source ELSE source - 1
    /\ \A i \in 1 .. Len(kept) : Usable(i)

(* A source that shares out its budget, which is not enough for all of it. *)
Footing(b) == EffectiveFrames(source, b, Episodes(source, b))
Sharing ==
    /\ Loaded # {} /\ Source.budget # None /\ Source.budget < Available(source)
    /\ DOMAIN alloc = Loaded /\ active \subseteq Loaded /\ active # {}
    /\ \A b \in active : kept[source][b] = Episodes(source, b)
    /\ \A b \in DOMAIN Source.buckets \ Loaded : kept[source][b] = {}

(* The buckets with a share have all their footage, at no more than what   *)
(* the others will get; what is left is not enough for the others.         *)
FillInv ==
    stage = "fill" =>
        /\ Sharing
        /\ \A b \in Loaded : kept[source][b] = Episodes(source, b)
        /\ remaining \in Nat \ {0} /\ remaining % Scale = 0
        /\ \A b \in Loaded \ active : /\ alloc[b] = Capacity(b)
                                      /\ Capacity(b) * Cardinality(active) <= remaining
        /\ SumFunctionOnSet(alloc, Loaded \ active) + remaining = Source.budget * Scale

(* Each selected bucket has its share, and less than an episode more.      *)
Near(i, b, share) ==
    LET frames == EffectiveFrames(i, b, kept[i][b]) IN
    share <= frames * Scale /\ frames * Scale < share + Longest(i, b) * Scale

Level(level) ==
    \A b \in DOMAIN alloc : alloc[b] = IF Capacity(b) <= level THEN Capacity(b) ELSE level

SelectInv ==
    stage = "select" =>
        /\ Sharing
        /\ \A b \in Loaded : alloc[b] \in Nat \ {0} /\ alloc[b] <= Footing(b) * Scale
        /\ SumFunctionOnSet(alloc, Loaded) = Source.budget * Scale
        /\ active = Loaded => \E level \in Range(alloc) : Level(level)
        /\ \A b \in Loaded \ active : Near(source, b, alloc[b]) /\ kept[source][b] # {}

Budgeted(i) ==
    LET budget == config.sources[i].budget
        used   == {b \in DOMAIN kept[i] : kept[i][b] # {}}
    IN IF budget = None \/ budget >= Available(i) THEN Realized(i) = Available(i)
       ELSE /\ budget <= Realized(i)
            /\ Realized(i) < budget + SumFunction([b \in used |-> Longest(i, b)])

BudgetInv == \A i \in 1 .. source - 1 : Budgeted(i)

(* What was trained, of an epoch and the position in it: all of the maps   *)
(* before, a first part of this one.                                       *)
History(e, p) ==
    [x \in 0 .. config.epochs - 1 |->
        IF x < e THEN Map(x) ELSE IF x = e THEN SubSeq(Map(x), 1, p) ELSE <<>>]

Reached(e, p, t) == e \in 0 .. config.epochs - 1 /\ p \in 0 .. Len(dealt) /\ t = History(e, p)

LoopInv ==
    /\ stage \notin Looping => epoch = 0 /\ pos = 0 /\ saved = None
         /\ trained = [e \in 0 .. config.epochs - 1 |-> <<>>]
    /\ stage \in Looping =>
           /\ dealt = Deal /\ TotalWeight # 0
           /\ config.epochs = 0 => stage = "done" /\ epoch = 0
           /\ config.epochs # 0 => Reached(epoch, pos, trained)
           /\ saved # None => config.epochs # 0 /\ Reached(saved.epoch, saved.pos, saved.trained)
    /\ stage = "training" => forked = epoch
    /\ stage = "done" /\ config.epochs # 0 => epoch = config.epochs - 1 /\ pos = Len(dealt)

PlanInv == BuildInv /\ FillInv /\ SelectInv /\ BudgetInv /\ LoopInv
-----------------------------------------------------------------------------
(* Max of a bounded set of naturals is its greatest member. *)
LEMMA Greatest ==
    ASSUME NEW S \in SUBSET Nat, S # {}, NEW u \in Nat, \A x \in S : x <= u
    PROVE  Max(S) \in S /\ \A x \in S : x <= Max(S)
<1> DEFINE U == {m \in Nat : \A x \in S : x <= m}
<1>1. PICK m \in U : \A n \in U : m <= n
  <2>1. U \in SUBSET Nat /\ u \in U
    OBVIOUS
  <2>2. QED
    BY <2>1, FirstOf
<1>2. m \in S
  <2>1. ASSUME m \notin S PROVE FALSE
    <3>1. \A x \in S : x <= m /\ x # m /\ x \in Nat
      BY <1>1, <2>1
    <3>2. PICK x \in S : TRUE
      OBVIOUS
    <3>3. m - 1 \in U
      BY <1>1, <3>1, <3>2
    <3>4. QED
      BY <1>1, <3>3
  <2>2. QED
    BY <2>1
<1>3. \E x \in S : \A y \in S : x >= y
  BY <1>1, <1>2
<1> DEFINE x == CHOOSE x \in S : \A y \in S : x >= y
<1>4. x \in S /\ \A y \in S : x >= y
  BY <1>3
<1>5. Max(S) = x
  BY DEF Max
<1> HIDE DEF x
<1>6. QED
  BY <1>4, <1>5

(* No episode is longer than the longest. *)
LEMMA LongestIs ==
    ASSUME PlanAssumption, config \in Configs, NEW i \in Sources, NEW b \in DOMAIN config.sources[i].buckets,
           Episodes(i, b) # {}
    PROVE  Longest(i, b) \in Nat /\ \A e \in Episodes(i, b) : Lengths(i, b)[e] <= Longest(i, b)
<1> DEFINE S == Range(Lengths(i, b))  u == SumFunctionOnSet(Lengths(i, b), Episodes(i, b))
<1>1. IsFiniteSet(Episodes(i, b)) /\ \A e \in Episodes(i, b) : Lengths(i, b)[e] \in Nat
  BY BucketTypes
<1>2. S = {Lengths(i, b)[e] : e \in Episodes(i, b)}
  BY DEF Range, Episodes
<1>3. S \in SUBSET Nat /\ S # {}
  BY <1>1, <1>2
<1>4. u \in Nat
  BY <1>1, SumNat
<1>5. \A e \in Episodes(i, b) : Lengths(i, b)[e] <= u
  <2> TAKE e \in Episodes(i, b)
  <2>1. u = Lengths(i, b)[e] + SumFunctionOnSet(Lengths(i, b), Episodes(i, b) \ {e})
    <3>1. \A d \in Episodes(i, b) : Lengths(i, b)[d] \in Int
      BY <1>1
    <3>2. QED
      BY <1>1, <3>1, SumRemove
  <2>2. SumFunctionOnSet(Lengths(i, b), Episodes(i, b) \ {e}) \in Nat
    BY <1>1, SumPart
  <2> HIDE DEF u
  <2>3. QED
    BY <1>1, <1>4, <2>1, <2>2
<1> HIDE DEF u
<1>6. \A x \in S : x <= u
  BY <1>2, <1>5
<1>7. Max(S) \in S /\ \A x \in S : x <= Max(S)
  <2> HIDE DEF S
  <2>1. QED
    BY <1>3, <1>4, <1>6, Greatest
<1>8. Longest(i, b) = Max(S)
  BY DEF Longest
<1> HIDE DEF S
<1>9. QED
  BY <1>2, <1>3, <1>7, <1>8

(* A permutation of the episodes leaves none out. *)
LEMMA Permuted ==
    ASSUME NEW S, IsFiniteSet(S), NEW permutation \in SetToSeqs(S)
    PROVE  /\ Cardinality(S) \in Nat /\ permutation \in [1 .. Cardinality(S) -> S]
           /\ \A x \in S : \E k \in 1 .. Cardinality(S) : permutation[k] = x
<1> DEFINE n == Cardinality(S)
<1>1. n \in Nat
  BY FS_CardinalityType
<1>2. permutation \in [1 .. n -> S] /\ \A k, l \in 1 .. n : k # l => permutation[k] # permutation[l]
  BY DEF SetToSeqs
<1>3. IsFiniteSet(1 .. n) /\ Cardinality(1 .. n) = n
  <2> HIDE DEF n
  <2>1. QED
    BY <1>1, FS_Interval
<1>4. permutation \in Injection(1 .. n, S)
  BY <1>2 DEF Injection, IsInjective
<1>5. permutation \in Surjection(1 .. n, S)
  BY <1>3, <1>4, FS_Injection
<1>6. QED
  BY <1>1, <1>2, <1>5 DEF Surjection

(* The target of a bucket is its share, rounded up to a frame. *)
LEMMA TargetIs ==
    ASSUME PlanAssumption, config \in Configs, NEW b, alloc[b] \in Nat \ {0}
    PROVE  /\ Target(b) \in Nat \ {0} /\ Target(b) * Scale \in Nat
           /\ alloc[b] <= Target(b) * Scale /\ Target(b) * Scale < alloc[b] + Scale
<1> DEFINE x == alloc[b]  y == x + Scale - 1  c == y \div Scale  r == y % Scale
<1>1. Scale \in Nat \ {0} /\ x \in Nat \ {0}
  BY ConfigTypes
<1>2. y \in Nat
  BY <1>1
<1>3. c \in Int /\ r \in 0 .. Scale - 1 /\ y = Scale * c + r
  <2> HIDE DEF y
  <2>1. QED
    BY <1>1, <1>2
<1>4. Ceiling(alloc[b]) = c
  BY DEF Ceiling
<1> HIDE DEF c, r
<1>5. x <= Scale * c /\ Scale * c < x + Scale /\ Scale * c \in Int
  BY <1>1, <1>3
<1>6. c >= 1
  <2>1. c <= 0 => Scale * c <= 0
    BY <1>1, <1>3
  <2>2. QED
    BY <1>1, <1>3, <1>5, <2>1
<1>7. Target(b) = c
  BY <1>3, <1>4, <1>6 DEF Target
<1>8. c * Scale = Scale * c
  BY <1>1, <1>3
<1>9. QED
  BY <1>1, <1>3, <1>5, <1>6, <1>7, <1>8

(* What subsample_episodes_by_hours draws reaches the target, and passes it *)
(* by less than one episode.                                                *)
LEMMA DrawnIs ==
    ASSUME PlanAssumption, config \in Configs, source \in Sources, NEW b \in DOMAIN Source.buckets,
           kept[source][b] = Episodes(source, b), alloc[b] \in Nat \ {0}, ~Whole(b),
           NEW permutation \in SetToSeqs(Episodes(source, b))
    PROVE  LET drawn == Drawn(b, permutation)
               frames == EffectiveFrames(source, b, drawn)
           IN /\ drawn \subseteq Sampleable(source, b) /\ drawn # {}
              /\ Target(b) <= frames
              /\ frames <= Target(b) - 1 + Longest(source, b)
<1> DEFINE i == source
           first(n) == {permutation[k] : k \in 1 .. n}
           frames(n) == EffectiveFrames(i, b, first(n))
           N == Cardinality(Episodes(i, b))
           t == Target(b)
<1>0. i \in Sources /\ b \in DOMAIN config.sources[i].buckets
  BY DEF Source
<1>1. /\ IsFiniteSet(Episodes(i, b)) /\ \A e \in Episodes(i, b) : Lengths(i, b)[e] \in Nat
      /\ Sampleable(i, b) \subseteq Episodes(i, b)
  BY <1>0, BucketTypes
<1>2. /\ N \in Nat /\ permutation \in [1 .. N -> Episodes(i, b)]
      /\ \A e \in Episodes(i, b) : \E k \in 1 .. N : permutation[k] = e
  BY <1>1, Permuted
<1>3. t \in Nat \ {0}
  BY TargetIs
<1>4. \A eps : EffectiveFrames(i, b, eps) \in Nat
        /\ (eps \cap Sampleable(i, b) = {} => EffectiveFrames(i, b, eps) = 0)
  BY <1>0, Footage
<1>5. frames(0) = 0
  <2>1. first(0) = {}
    OBVIOUS
  <2>2. QED
    BY <1>4, <2>1
<1>6. frames(N) > t
  <2>1. first(N) = Episodes(i, b)
    BY <1>2
  <2>2. Capacity(b) = EffectiveFrames(i, b, Episodes(i, b)) * Scale
    BY DEF Capacity
  <2>3. ~(EffectiveFrames(i, b, Episodes(i, b)) * Scale <= t * Scale)
    BY <2>2 DEF Whole
  <2>4. EffectiveFrames(i, b, Episodes(i, b)) \in Nat /\ Scale \in Nat \ {0}
    BY <1>4, ConfigTypes
  <2> HIDE DEF first, t
  <2>5. EffectiveFrames(i, b, Episodes(i, b)) <= t
          => EffectiveFrames(i, b, Episodes(i, b)) * Scale <= t * Scale
    BY <1>3, <2>4
  <2>6. QED
    BY <1>3, <2>1, <2>3, <2>4, <2>5
<1>7. \A n : frames(n) \in Nat
  BY <1>4
<1>8. PICK n \in 1 .. N : frames(n) >= t /\ frames(n - 1) < t
  <2> DEFINE S == {n \in 0 .. N : frames(n) >= t}
  <2>1. S \in SUBSET Nat /\ N \in S
    BY <1>2, <1>3, <1>6, <1>7
  <2>2. PICK n \in S : \A m \in S : n <= m
    BY <2>1, FirstOf
  <2>3. n # 0
    BY <1>3, <1>5, <2>2
  <2>4. n \in 1 .. N /\ n - 1 \in 0 .. N /\ n - 1 \notin S
    BY <1>2, <2>2, <2>3
  <2>5. frames(n - 1) < t
    <3> HIDE DEF frames
    <3>1. QED
      BY <1>3, <1>7, <2>4
  <2>6. QED
    BY <2>2, <2>4, <2>5
<1> DEFINE m == CHOOSE k \in DOMAIN permutation : frames(k) >= t /\ frames(k - 1) < t
<1>9. m \in 1 .. N /\ frames(m) >= t /\ frames(m - 1) < t
  <2>1. \E k \in DOMAIN permutation : frames(k) >= t /\ frames(k - 1) < t
    BY <1>2, <1>8
  <2>2. DOMAIN permutation = 1 .. N
    BY <1>2
  <2> HIDE DEF frames
  <2>3. QED
    BY <2>1, <2>2
<1> DEFINE drawn == first(m) \cap Sampleable(i, b)
<1>10. Drawn(b, permutation) = drawn
  BY DEF Drawn
<1> HIDE DEF m
<1>11. EffectiveFrames(i, b, drawn) = frames(m)
  <2>1. drawn \cap Sampleable(i, b) = first(m) \cap Sampleable(i, b)
    OBVIOUS
  <2>2. QED
    BY <2>1, Zenon DEF EffectiveFrames
<1>12. drawn # {}
  <2>1. drawn = {} => frames(m) = 0
    BY <1>4
  <2>2. QED
    BY <1>3, <1>9, <2>1
<1>13. frames(m) <= frames(m - 1) + Longest(i, b)
  <2> DEFINE e == permutation[m]
             T == first(m - 1) \cap Sampleable(i, b)
  <2>1. e \in Episodes(i, b) /\ first(m) = first(m - 1) \cup {e}
    <3>1. 1 .. m = (1 .. m - 1) \cup {m}
      BY <1>9
    <3>2. QED
      BY <1>2, <1>9, <3>1
  <2>2. Longest(i, b) \in Nat /\ Lengths(i, b)[e] <= Longest(i, b) /\ Lengths(i, b)[e] \in Nat
    BY <1>0, <1>1, <2>1, LongestIs
  <2>3. frames(m) = SumFunctionOnSet(Lengths(i, b), drawn)
          /\ frames(m - 1) = SumFunctionOnSet(Lengths(i, b), T)
    BY DEF EffectiveFrames
  <2>4. IsFiniteSet(T) /\ T \subseteq Episodes(i, b)
    BY <1>1, FS_Subset
  <2>5. frames(m - 1) \in Nat /\ frames(m) \in Nat
    BY <1>4
  <2>6. CASE drawn = T
    <3> HIDE DEF T, drawn, e, frames
    <3>1. frames(m) = frames(m - 1)
      BY <2>3, <2>6
    <3>2. QED
      BY <2>2, <2>5, <3>1
  <2>7. CASE drawn # T
    <3>1. drawn = T \cup {e} /\ e \notin T
      BY <2>1, <2>7
    <3>2. \A d \in T \cup {e} : Lengths(i, b)[d] \in Int
      BY <1>1, <2>1, <2>4
    <3> HIDE DEF T, drawn, e
    <3>3. SumFunctionOnSet(Lengths(i, b), drawn) = Lengths(i, b)[e] + SumFunctionOnSet(Lengths(i, b), T)
      BY <2>4, <3>1, <3>2, SumAdd
    <3>4. QED
      BY <2>2, <2>3, <2>5, <3>3
  <2>8. QED
    BY <2>6, <2>7
<1>14. Longest(i, b) \in Nat
  BY <1>0, <1>1, <1>12, LongestIs
<1>15. frames(m) <= t - 1 + Longest(i, b)
  <2>1. frames(m) \in Nat /\ frames(m - 1) \in Nat
    BY <1>4
  <2> HIDE DEF frames, t
  <2>2. QED
    BY <1>3, <1>9, <1>13, <1>14, <2>1
<1>16. QED
  BY <1>9, <1>10, <1>11, <1>12, <1>15
-----------------------------------------------------------------------------
(* The sources that are built: BuildInv. *)

(* What depends on the configuration alone. *)
LEMMA SameConfig ==
    ASSUME config' = config
    PROVE  /\ Sources' = Sources
           /\ \A i, b : /\ Lengths(i, b)' = Lengths(i, b) /\ Episodes(i, b)' = Episodes(i, b)
                        /\ Sampleable(i, b)' = Sampleable(i, b) /\ Longest(i, b)' = Longest(i, b)
           /\ \A i, b, eps : /\ EffectiveFrames(i, b, eps)' = EffectiveFrames(i, b, eps)
                             /\ Windows(i, b, eps)' = Windows(i, b, eps)
           /\ \A i : Available(i)' = Available(i)
<1>1. Sources' = Sources
  BY DEF Sources
<1>2. \A i, b : Lengths(i, b)' = Lengths(i, b)
  BY DEF Lengths
<1>3. \A i, b : Episodes(i, b)' = Episodes(i, b)
  BY <1>2 DEF Episodes
<1>4. \A i, b : Sampleable(i, b)' = Sampleable(i, b)
  BY <1>2, <1>3 DEF Sampleable
<1>5. \A i, b : Longest(i, b)' = Longest(i, b)
  BY <1>2 DEF Longest
<1>6. \A i, b, eps : EffectiveFrames(i, b, eps)' = EffectiveFrames(i, b, eps)
  BY <1>2, <1>4 DEF EffectiveFrames
<1>7. \A i, b, eps : Windows(i, b, eps)' = Windows(i, b, eps)
  BY <1>2, <1>3, <1>4 DEF Windows
<1>8. \A i : Available(i)' = Available(i)
  BY <1>3, <1>6 DEF Available
<1>9. QED
  BY <1>1, <1>2, <1>3, <1>4, <1>5, <1>6, <1>7, <1>8

(* A source that is left alone stays as it is. *)
LEMMA UsableSame ==
    ASSUME config' = config, NEW i, kept'[i] = kept[i], Usable(i)
    PROVE  Usable(i)'
BY SameConfig DEF Usable

(* The episodes that are kept when a source is loaded. *)
Entire == [b \in DOMAIN Source.buckets |-> IF b \in Loaded THEN Episodes(source, b) ELSE {}]

(* A bucket that was loaded has footage. *)
LEMMA WholeIs ==
    ASSUME PlanAssumption, config \in Configs, source \in Sources
    PROVE  /\ Loaded \subseteq DOMAIN Source.buckets /\ IsFiniteSet(Loaded)
           /\ Entire \in KeptType /\ DOMAIN Entire = DOMAIN Source.buckets
           /\ \A b \in Loaded : /\ Entire[b] = Episodes(source, b)
                                /\ Episodes(source, b) \cap Sampleable(source, b) # {}
                                /\ Episodes(source, b) # {}
                                /\ Footing(b) \in Nat \ {0}
           /\ \A b \in DOMAIN Source.buckets \ Loaded : Entire[b] = {}
<1>1. /\ Source.buckets \in Seq([lengths : Seq(Nat), fails : {"no", "environment", "contract"}])
      /\ DOMAIN Source.buckets = 1 .. Len(Source.buckets) /\ IsFiniteSet(DOMAIN Source.buckets)
  BY SourceTypes DEF Source
<1>2. Loaded \subseteq DOMAIN Source.buckets
  BY DEF Loaded
<1>3. IsFiniteSet(Loaded)
  BY <1>1, <1>2, FS_Subset
<1>4. Entire \in KeptType
  <2>1. \A b \in DOMAIN Source.buckets : Episodes(source, b) \subseteq Nat
    BY BucketTypes DEF Source
  <2>2. Entire \in [1 .. Len(Source.buckets) -> SUBSET Nat] /\ Len(Source.buckets) \in Nat
    BY <1>1, <2>1 DEF Entire
  <2>3. QED
    BY <2>2 DEF KeptType
<1>5. ASSUME NEW b \in Loaded
      PROVE  /\ Episodes(source, b) \cap Sampleable(source, b) # {}
             /\ Footing(b) \in Nat \ {0}
  <2>1. b \in DOMAIN config.sources[source].buckets
    BY <1>2 DEF Source
  <2>2. Windows(source, b, Episodes(source, b)) > 0
    BY DEF Loaded
  <2>3. Episodes(source, b) \cap Sampleable(source, b) = {} => Windows(source, b, Episodes(source, b)) = 0
    BY <2>1, Footage
  <2>4. EffectiveFrames(source, b, Episodes(source, b)) \in Nat
    BY <2>1, Footage
  <2>5. Episodes(source, b) \cap Sampleable(source, b) # {}
          => EffectiveFrames(source, b, Episodes(source, b)) > 0
    BY <2>1, Footage
  <2>6. QED
    BY <2>2, <2>3, <2>4, <2>5 DEF Footing
<1>6. QED
  BY <1>2, <1>3, <1>4, <1>5 DEF Entire

(* There is a source being built. *)
LEMMA SourceIs ==
    ASSUME PlanAssumption, BuildInv, stage \in Building
    PROVE  source \in Sources /\ config \in Configs /\ source \in Nat /\ Source = config.sources[source]
BY ConfigTypes DEF BuildInv, Source

(* DrawnIs, of a bucket that is selected. *)
LEMMA DrawnInSelect ==
    ASSUME PlanAssumption, BuildInv, SelectInv, stage = "select",
           NEW b \in active, ~Whole(b), NEW permutation \in SetToSeqs(Episodes(source, b))
    PROVE  LET drawn == Drawn(b, permutation)
               frames == EffectiveFrames(source, b, drawn)
           IN /\ drawn \subseteq Sampleable(source, b) /\ drawn # {}
              /\ Target(b) <= frames
              /\ frames <= Target(b) - 1 + Longest(source, b)
<1>1. source \in Sources /\ config \in Configs
  BY SourceIs DEF Building
<1>2. b \in Loaded /\ kept[source][b] = Episodes(source, b) /\ alloc[b] \in Nat \ {0}
  BY DEF SelectInv, Sharing
<1>3. b \in DOMAIN Source.buckets
  BY <1>2 DEF Loaded
<1>4. QED
  BY <1>1, <1>2, <1>3, DrawnIs

(* Load appends a source with windows. *)
LEMMA LoadBuilds ==
    ASSUME PlanAssumption, BuildInv, Load
    PROVE  BuildInv'
<1>1. source \in Sources /\ config \in Configs /\ source \in Nat /\ stage = "load"
  BY SourceIs DEF Load, Building
<1>2. CASE Refused
  <2>1. Abort
    BY <1>2 DEF Load
  <2>2. UNCHANGED <<config, source, kept>> /\ stage' = "aborted"
    BY <2>1 DEF Abort, plan
  <2>3. \A i \in 1 .. Len(kept) : Usable(i)'
    BY <2>2, UsableSame DEF BuildInv
  <2>4. QED
    BY <1>1, <2>2, <2>3 DEF BuildInv, Building, Looping
<1>3. CASE ~Refused
  <2>1. kept' = Append(kept, Entire) /\ config' = config
    BY <1>3 DEF Load, Entire
  <2>2. \/ stage' = "fill" /\ source' = source
        \/ NextSource
    BY <1>3 DEF Load
  <2>3. kept \in Seq(KeptType) /\ Len(kept) = source - 1
    BY <1>1 DEF BuildInv
  <2>4. Entire \in KeptType /\ DOMAIN Entire = DOMAIN Source.buckets
    BY <1>1, WholeIs
  <2>5. kept' \in Seq(KeptType) /\ Len(kept') = source
    BY <1>1, <2>1, <2>3, <2>4
  <2>6. ASSUME NEW i \in 1 .. source PROVE Usable(i)'
    <3>1. CASE i = source
      <4>1. kept'[i] = Entire
        BY <2>1, <2>3, <2>4, <3>1
      <4>2. PICK b \in Loaded : TRUE
        BY <1>3 DEF Refused
      <4>3. b \in DOMAIN Entire /\ Entire[b] \cap Sampleable(source, b) # {}
        BY <1>1, <4>2, WholeIs
      <4>4. Sampleable(i, b)' = Sampleable(i, b)
        BY <2>1, SameConfig
      <4>5. DOMAIN kept'[i] = DOMAIN config'.sources[i].buckets
        BY <2>1, <2>4, <3>1, <4>1 DEF Source
      <4>6. QED
        BY <2>4, <3>1, <4>1, <4>3, <4>4, <4>5 DEF Usable
    <3>2. CASE i # source
      <4>1. kept'[i] = kept[i] /\ i \in 1 .. Len(kept)
        BY <1>1, <2>1, <2>3, <2>4, <3>2
      <4>2. QED
        BY <2>1, <4>1, UsableSame DEF BuildInv
    <3>3. QED
      BY <3>1, <3>2
  <2>7. CASE stage' = "fill" /\ source' = source
    BY <1>1, <2>1, <2>5, <2>6, <2>7 DEF BuildInv, Building, Looping
  <2>8. CASE NextSource
    BY <1>1, <2>1, <2>5, <2>6, <2>8 DEF BuildInv, Building, Looping, NextSource
  <2>9. QED
    BY <2>2, <2>7, <2>8
<1>4. QED
  BY <1>2, <1>3

(* A selection leaves the source a window. *)
LEMMA SelectBuilds ==
    ASSUME PlanAssumption, BuildInv, SelectInv, NEW b \in active,
           NEW permutation \in SetToSeqs(Episodes(source, b)), Select(b, permutation)
    PROVE  BuildInv'
<1> DEFINE new == IF Whole(b) THEN kept[source][b] ELSE Drawn(b, permutation)
<1>1. source \in Sources /\ config \in Configs /\ source \in Nat /\ stage = "select" /\ config' = config
  BY SourceIs DEF Select, Building
<1>2. kept' = [kept EXCEPT ![source][b] = new]
  BY DEF Select
<1>3. /\ kept \in Seq(KeptType) /\ Len(kept) = source /\ source \in DOMAIN kept
      /\ Usable(source)
  BY <1>1 DEF BuildInv
<1>4. b \in Loaded /\ b \in DOMAIN Source.buckets /\ kept[source][b] = Episodes(source, b)
  BY <1>1 DEF SelectInv, Sharing, Loaded
<1>5. b \in DOMAIN kept[source]
  BY <1>3, <1>4 DEF Usable, Source
<1>6. new \cap Sampleable(source, b) # {} /\ new \subseteq Nat
  <2>1. Episodes(source, b) \cap Sampleable(source, b) # {}
    BY <1>1, <1>4, WholeIs
  <2>2. Episodes(source, b) \subseteq Nat /\ Sampleable(source, b) \subseteq Episodes(source, b)
    BY <1>1, <1>4, BucketTypes DEF Source
  <2>3. CASE Whole(b)
    BY <1>4, <2>1, <2>2, <2>3
  <2>4. CASE ~Whole(b)
    <3>1. Drawn(b, permutation) \subseteq Sampleable(source, b) /\ Drawn(b, permutation) # {}
      BY <1>1, <2>4, DrawnInSelect
    <3>2. QED
      BY <2>2, <2>4, <3>1
  <2>5. QED
    BY <2>3, <2>4
<1> DEFINE changed == [kept[source] EXCEPT ![b] = new]
<1>7. kept' = [kept EXCEPT ![source] = changed]
  BY <1>2
<1>8. changed \in KeptType /\ DOMAIN changed = DOMAIN kept[source] /\ changed[b] = new
  <2>1. PICK n \in Nat : kept[source] \in [1 .. n -> SUBSET Nat]
    BY <1>3 DEF Usable, KeptType
  <2>2. changed \in [1 .. n -> SUBSET Nat]
    BY <1>6, <2>1
  <2>3. QED
    BY <1>5, <2>2 DEF KeptType
<1> HIDE DEF changed, new
<1>9. kept' \in Seq(KeptType) /\ Len(kept') = source /\ kept'[source] = changed
      /\ \A i \in 1 .. source : i # source => kept'[i] = kept[i]
  BY <1>3, <1>7, <1>8
<1>10. ASSUME NEW i \in 1 .. source PROVE Usable(i)'
  <2>1. CASE i = source
    <3>1. Sampleable(i, b)' = Sampleable(i, b)
      BY <1>1, SameConfig
    <3>2. \E x \in DOMAIN changed : changed[x] \cap Sampleable(i, x)' # {}
      BY <1>5, <1>6, <1>8, <2>1, <3>1
    <3>3. DOMAIN changed = DOMAIN config.sources[i].buckets
      BY <1>3, <1>8, <2>1 DEF Usable
    <3>4. QED
      BY <1>1, <1>8, <1>9, <2>1, <3>2, <3>3 DEF Usable
  <2>2. CASE i # source
    BY <1>1, <1>3, <1>9, <2>2, UsableSame DEF BuildInv
  <2>3. QED
    BY <2>1, <2>2
<1>11. \/ stage' = stage /\ source' = source
       \/ NextSource
  BY DEF Select
<1>12. CASE stage' = stage /\ source' = source
  BY <1>1, <1>9, <1>10, <1>12 DEF BuildInv, Building, Looping
<1>13. CASE NextSource
  BY <1>1, <1>9, <1>10, <1>13 DEF BuildInv, Building, Looping, NextSource
<1>14. QED
  BY <1>11, <1>12, <1>13

(* Other steps leave the sources alone. *)
LEMMA StaysBuilt ==
    ASSUME PlanAssumption, BuildInv, UNCHANGED <<config, source, kept>>,
           \/ stage \in {"fill", "select"} /\ stage' \in {"fill", "select"}
           \/ stage \in Looping \cup {"mix"} /\ stage' \in Looping \cup {"mix", "aborted"}
           \/ stage' = stage
    PROVE  BuildInv'
<1>1. \A i \in 1 .. Len(kept) : Usable(i)'
  BY UsableSame DEF BuildInv
<1>2. QED
  BY <1>1 DEF BuildInv, Building, Looping

(* A round of water_fill_hours keeps the sources. *)
LEMMA FillBuilds == ASSUME PlanAssumption, BuildInv, Fill PROVE BuildInv'
<1>1. UNCHANGED <<config, source, kept>> /\ stage = "fill" /\ stage' \in {"fill", "select"}
  BY DEF Fill
<1>2. QED
  BY <1>1, StaysBuilt

Looped == StartEpoch \/ Train \/ EndEpoch \/ Save \/ CrashAndResume

(* A step of the training loop changes nothing that was planned. *)
LEMMA LoopKeeps ==
    ASSUME Looped \/ UNCHANGED vars
    PROVE  /\ UNCHANGED <<config, source, kept, alloc, active, remaining, dealt>>
           /\ \/ stage \in Looping /\ stage' \in Looping
              \/ stage' = stage
BY DEF Looped, vars, plan, StartEpoch, Train, EndEpoch, Save, CrashAndResume, Looping

(* A step of the training loop keeps the sources. *)
LEMMA LoopBuilds == ASSUME PlanAssumption, BuildInv, Looped \/ UNCHANGED vars PROVE BuildInv'
<1>1. UNCHANGED <<config, source, kept>>
  BY LoopKeeps
<1>2. \/ stage \in Looping /\ stage' \in Looping
      \/ stage' = stage
  BY LoopKeeps
<1>3. QED
  BY <1>1, <1>2, StaysBuilt

(* The mixture keeps the sources. *)
LEMMA MixBuilds == ASSUME PlanAssumption, BuildInv, Mix PROVE BuildInv'
<1>1. UNCHANGED <<config, source, kept>> /\ stage = "mix" /\ stage' \in Looping \cup {"aborted"}
  BY DEF Mix, Abort, plan, Looping
<1>2. QED
  BY <1>1, StaysBuilt
-----------------------------------------------------------------------------
(* The sharing of a budget: FillInv, SelectInv and BudgetInv. *)

(* A multiple leaves no rest. *)
LEMMA Multiple ==
    ASSUME NEW q \in Nat \ {0}, NEW n \in Nat
    PROVE  (n * q) % q = 0 /\ (n * q) \div q = n
<1> DEFINE d == (n * q) \div q  r == (n * q) % q
<1>1. d \in Int /\ r \in 0 .. q - 1 /\ n * q = q * d + r
  BY n * q \in Nat
<1> HIDE DEF d, r
<1>2. q * (n - d) = r
  BY <1>1
<1>3. n - d \in Int /\ (n - d >= 1 => q * (n - d) >= q) /\ (n - d <= -1 => q * (n - d) <= -q)
  BY <1>1
<1>4. n = d /\ r = 0
  BY <1>1, <1>2, <1>3
<1>5. QED
  BY <1>4 DEF d, r

(* All the footage of each bucket. *)
Footings(i) == [b \in DOMAIN config.sources[i].buckets |-> EffectiveFrames(i, b, Episodes(i, b))]

(* The footage of a source is that of the buckets that were loaded: the    *)
(* others have none.                                                       *)
LEMMA FootingsAre ==
    ASSUME PlanAssumption, config \in Configs, source \in Sources
    PROVE  /\ \A b \in DOMAIN Source.buckets : Footings(source)[b] = Footing(b) /\ Footing(b) \in Nat
           /\ Available(source) = SumFunctionOnSet(Footings(source), Loaded) /\ Available(source) \in Nat
           /\ SumFunction([b \in Loaded |-> EffectiveFrames(source, b, Entire[b])]) = Available(source)
<1> DEFINE i == source
           Ok == {b \in DOMAIN config.sources[i].buckets : config.sources[i].buckets[b].fails = "no"}
<1>1. /\ Source = config.sources[i] /\ IsFiniteSet(DOMAIN config.sources[i].buckets)
      /\ IsFiniteSet(Loaded) /\ Loaded \subseteq Ok /\ IsFiniteSet(Ok)
  <2>1. IsFiniteSet(DOMAIN config.sources[i].buckets) /\ IsFiniteSet(Loaded)
    BY SourceTypes, WholeIs
  <2>2. Ok \in SUBSET DOMAIN config.sources[i].buckets
    OBVIOUS
  <2>3. IsFiniteSet(Ok)
    BY <2>1, <2>2, FS_Subset
  <2>4. QED
    BY <2>1, <2>3 DEF Source, Loaded
<1>2. \A b \in DOMAIN Source.buckets : Footings(i)[b] = Footing(b) /\ Footing(b) \in Nat
  <2> TAKE b \in DOMAIN Source.buckets
  <2>1. b \in DOMAIN config.sources[i].buckets
    BY DEF Source
  <2>2. QED
    BY <2>1, Footage DEF Footings, Footing
<1>3. \A b \in Ok \ Loaded : Footings(i)[b] = 0
  <2> TAKE b \in Ok \ Loaded
  <2>1. b \in DOMAIN config.sources[i].buckets /\ Windows(i, b, Episodes(i, b)) \in Nat
    BY Footage
  <2>2. ~(Windows(i, b, Episodes(i, b)) > 0)
    BY DEF Loaded, Source
  <2>3. Footing(b) = 0
    <3>1. Episodes(i, b) \cap Sampleable(i, b) # {} => Windows(i, b, Episodes(i, b)) > 0
      BY <2>1, Footage
    <3>2. Episodes(i, b) \cap Sampleable(i, b) = {} => EffectiveFrames(i, b, Episodes(i, b)) = 0
      BY <2>1, Footage
    <3>3. QED
      BY <2>2, <3>1, <3>2 DEF Footing
  <2>4. QED
    BY <1>1, <1>2, <2>1, <2>3
<1>4. \A b \in Ok : Footings(i)[b] \in Nat /\ Footings(i)[b] \in Int
  BY <1>1, <1>2
<1>5. SumFunctionOnSet(Footings(i), Ok) = SumFunctionOnSet(Footings(i), Loaded)
  <2> HIDE DEF Ok
  <2>1. SumFunctionOnSet(Footings(i), Ok)
          = SumFunctionOnSet(Footings(i), Loaded) + SumFunctionOnSet(Footings(i), Ok \ Loaded)
    BY <1>1, <1>4, SumSplit
  <2>2. IsFiniteSet(Ok \ Loaded)
    BY <1>1, FS_Subset
  <2>3. SumFunctionOnSet(Footings(i), Ok \ Loaded) = 0
    BY <1>3, <2>2, SumZero
  <2>4. SumFunctionOnSet(Footings(i), Loaded) \in Int
    BY <1>1, <1>4, SumType
  <2>5. QED
    BY <2>1, <2>3, <2>4
<1>6. Available(i) = SumFunctionOnSet(Footings(i), Ok)
  BY DEF Available, Footings
<1>7. SumFunctionOnSet(Footings(i), Ok) \in Nat
  <2> HIDE DEF Ok
  <2>1. QED
    BY <1>1, <1>4, SumNat
<1>8. SumFunction([b \in Loaded |-> EffectiveFrames(source, b, Entire[b])])
        = SumFunctionOnSet(Footings(i), Loaded)
  <2> DEFINE g == [b \in Loaded |-> EffectiveFrames(source, b, Entire[b])]
  <2>1. SumFunction(g) = SumFunctionOnSet(g, Loaded)
    BY DEF SumFunction
  <2>2. \A b \in Loaded : Footings(i)[b] \in Int /\ g[b] = Footings(i)[b]
    <3> TAKE b \in Loaded
    <3>1. Entire[b] = Episodes(source, b)
      BY WholeIs
    <3>2. b \in Ok /\ b \in DOMAIN Source.buckets
      BY <1>1
    <3>3. g[b] = Footing(b)
      BY <3>1 DEF Footing
    <3>4. QED
      BY <1>2, <1>4, <3>2, <3>3
  <2> HIDE DEF g
  <2>3. SumFunctionOnSet(g, Loaded) = SumFunctionOnSet(Footings(i), Loaded)
    BY <1>1, <2>2, SumEqual
  <2>4. QED
    BY <2>1, <2>3 DEF g
<1>9. QED
  BY <1>2, <1>5, <1>6, <1>7, <1>8

(* What is realized of the budget, of a row of episodes. *)
FramesOf(i, row) == [b \in DOMAIN row |-> EffectiveFrames(i, b, row[b])]
Spent(i, row) ==
    LET budget == config.sources[i].budget
        used   == {b \in DOMAIN row : row[b] # {}}
    IN IF budget = None \/ budget >= Available(i) THEN SumFunction(FramesOf(i, row)) = Available(i)
       ELSE /\ budget <= SumFunction(FramesOf(i, row))
            /\ SumFunction(FramesOf(i, row)) < budget + SumFunction([b \in used |-> Longest(i, b)])

(* The budget of a source, of the row of episodes it keeps. *)
LEMMA BudgetedIs == ASSUME NEW i, Budgeted(i) PROVE Spent(i, kept[i])
BY DEF Budgeted, Spent, FramesOf, Realized

(* A source whose row spends its budget is budgeted after the step. *)
LEMMA Budgets ==
    ASSUME config' = config, NEW i, NEW row, kept'[i] = row, Spent(i, row)
    PROVE  Budgeted(i)'
<1>1. Available(i)' = Available(i) /\ \A b, eps : EffectiveFrames(i, b, eps)' = EffectiveFrames(i, b, eps)
  BY SameConfig
<1>2. Realized(i)' = SumFunction(FramesOf(i, row))
  BY <1>1 DEF Realized, FramesOf
<1>3. \A b : Longest(i, b)' = Longest(i, b)
  BY SameConfig
<1>4. QED
  BY <1>1, <1>2, <1>3 DEF Budgeted, Spent

(* A step that touches at most the source being built keeps the budgets of *)
(* those before.                                                           *)
LEMMA BudgetsSame ==
    ASSUME config' = config, BudgetInv, source \in Nat, \A i \in 1 .. source - 1 : kept'[i] = kept[i],
           \/ source' = source
           \/ source' = source + 1 /\ Spent(source, kept'[source])
    PROVE  BudgetInv'
<1>1. ASSUME NEW i \in 1 .. source - 1 PROVE Budgeted(i)'
  BY <1>1, BudgetedIs, Budgets DEF BudgetInv
<1>2. CASE source' = source
  BY <1>1, <1>2 DEF BudgetInv
<1>3. CASE source' = source + 1 /\ Spent(source, kept'[source])
  <2>1. ASSUME NEW i, i = source PROVE Budgeted(i)'
    <3>1. Spent(i, kept'[i])
      BY <1>3, <2>1
    <3>2. QED
      BY <3>1, Budgets
  <2>2. ASSUME NEW i \in 1 .. source' - 1 PROVE Budgeted(i)'
    <3>1. i \in 1 .. source - 1 \/ i = source
      BY <1>3
    <3>2. QED
      BY <1>1, <2>1, <3>1
  <2>3. QED
    BY <2>2 DEF BudgetInv
<1>4. QED
  BY <1>2, <1>3

(* What is not loaded adds nothing. *)
LEMMA RowSum ==
    ASSUME PlanAssumption, config \in Configs, source \in Sources,
           NEW row, DOMAIN row = DOMAIN Source.buckets, \A b \in DOMAIN row \ Loaded : row[b] = {}
    PROVE  /\ SumFunction(FramesOf(source, row)) = SumFunctionOnSet(FramesOf(source, row), Loaded)
           /\ \A b \in DOMAIN row : FramesOf(source, row)[b] = EffectiveFrames(source, b, row[b])
                /\ FramesOf(source, row)[b] \in Nat
<1> DEFINE f == FramesOf(source, row)  D == DOMAIN row
<1>1. IsFiniteSet(D) /\ Loaded \in SUBSET D /\ IsFiniteSet(Loaded)
  BY WholeIs, SourceTypes DEF Source
<1>2. \A b \in D : f[b] = EffectiveFrames(source, b, row[b]) /\ f[b] \in Nat /\ f[b] \in Int
  <2> TAKE b \in D
  <2>1. b \in DOMAIN config.sources[source].buckets
    BY DEF Source
  <2>2. EffectiveFrames(source, b, row[b]) \in Nat
    BY <2>1, Footage
  <2>3. QED
    BY <2>2 DEF FramesOf
<1>3. \A b \in D \ Loaded : f[b] = 0
  <2> TAKE b \in D \ Loaded
  <2>1. b \in DOMAIN config.sources[source].buckets /\ row[b] \cap Sampleable(source, b) = {}
    BY DEF Source
  <2>2. EffectiveFrames(source, b, row[b]) = 0
    BY <2>1, Footage
  <2>3. QED
    BY <1>2, <2>2
<1>4. SumFunction(f) = SumFunctionOnSet(f, D)
  BY DEF SumFunction, FramesOf
<1> HIDE DEF f, D
<1>5. SumFunctionOnSet(f, D) = SumFunctionOnSet(f, Loaded) + SumFunctionOnSet(f, D \ Loaded)
  BY <1>1, <1>2, SumSplit
<1>6. SumFunctionOnSet(f, D \ Loaded) = 0
  <2>1. IsFiniteSet(D \ Loaded)
    BY <1>1, FS_Subset
  <2>2. QED
    BY <1>3, <2>1, SumZero
<1>7. SumFunctionOnSet(f, Loaded) \in Nat
  BY <1>1, <1>2, SumNat
<1>8. SumFunctionOnSet(f, D) = SumFunctionOnSet(f, Loaded)
  BY <1>5, <1>6, <1>7
<1>9. QED
  BY <1>2, <1>4, <1>8 DEF f, D

(* A source that keeps everything spends a budget that is large enough. *)
LEMMA SpentWhole ==
    ASSUME PlanAssumption, config \in Configs, source \in Sources,
           Source.budget = None \/ Source.budget >= Available(source)
    PROVE  Spent(source, Entire)
<1>1. /\ Loaded \subseteq DOMAIN Entire /\ DOMAIN Entire = DOMAIN Source.buckets
      /\ \A b \in DOMAIN Entire \ Loaded : Entire[b] = {}
      /\ \A b \in Loaded : Entire[b] = Episodes(source, b)
      /\ IsFiniteSet(Loaded)
  BY WholeIs
<1>2. /\ SumFunction(FramesOf(source, Entire)) = SumFunctionOnSet(FramesOf(source, Entire), Loaded)
      /\ \A b \in DOMAIN Entire : FramesOf(source, Entire)[b] = EffectiveFrames(source, b, Entire[b])
  BY <1>1, RowSum
<1>3. \A b \in DOMAIN Source.buckets : Footings(source)[b] = Footing(b) /\ Footing(b) \in Nat
  BY FootingsAre
<1>4. \A b \in Loaded : Footings(source)[b] \in Int /\ FramesOf(source, Entire)[b] = Footings(source)[b]
  BY <1>1, <1>2, <1>3 DEF Footing
<1>5. SumFunctionOnSet(FramesOf(source, Entire), Loaded) = SumFunctionOnSet(Footings(source), Loaded)
  BY <1>1, <1>4, SumEqual
<1>6. SumFunction(FramesOf(source, Entire)) = Available(source)
  BY <1>2, <1>5, FootingsAre
<1>7. QED
  BY <1>6 DEF Spent, Source

(* What depends on the source being built, when it stays the same one. *)
LEMMA SameSource ==
    ASSUME config' = config, source' = source
    PROVE  /\ Loaded' = Loaded /\ Source' = Source /\ Available(source)' = Available(source)
           /\ \A b : Footing(b)' = Footing(b) /\ Episodes(source, b)' = Episodes(source, b)
           /\ \A b : Capacity(b)' = EffectiveFrames(source, b, kept'[source][b]) * Scale
           /\ \A b, share : Near(source, b, share)' =
                  (share <= EffectiveFrames(source, b, kept'[source][b]) * Scale
                       /\ EffectiveFrames(source, b, kept'[source][b]) * Scale
                            < share + Longest(source, b) * Scale)
<1>1. \A i, b : Episodes(i, b)' = Episodes(i, b) /\ Longest(i, b)' = Longest(i, b)
  BY SameConfig
<1>2. \A i, b, eps : EffectiveFrames(i, b, eps)' = EffectiveFrames(i, b, eps)
        /\ Windows(i, b, eps)' = Windows(i, b, eps)
  BY SameConfig
<1>3. Source' = Source
  BY DEF Source
<1>4. Loaded' = Loaded
  BY <1>1, <1>2, <1>3 DEF Loaded
<1>5. Available(source)' = Available(source)
  BY <1>1, <1>2 DEF Available
<1>6. QED
  BY <1>1, <1>2, <1>3, <1>4, <1>5 DEF Footing, Capacity, Near

(* Load shares out a budget that is not enough for everything. *)
LEMMA LoadFills == ASSUME PlanAssumption, BuildInv, Load PROVE FillInv' /\ SelectInv'
<1>1. source \in Sources /\ config \in Configs /\ source \in Nat /\ stage = "load"
  BY SourceIs DEF Load, Building
<1>2. CASE stage' # "fill"
  <2>1. stage' # "select"
    BY DEF Load, Abort, NextSource
  <2>2. QED
    BY <1>2, <2>1 DEF FillInv, SelectInv
<1>3. CASE stage' = "fill"
  <2>1. /\ ~Refused /\ config' = config /\ source' = source
        /\ Source.budget # None
             /\ ~(Source.budget >= SumFunction([b \in Loaded |-> EffectiveFrames(source, b, Entire[b])]))
        /\ kept' = Append(kept, Entire)
        /\ alloc' = [b \in Loaded |-> 0] /\ active' = Loaded /\ remaining' = Source.budget * Scale
    BY <1>3 DEF Load, Abort, NextSource, Entire
  <2>2. Available(source) \in Nat /\ Source.budget < Available(source) /\ Source.budget \in Nat \ {0}
          /\ Scale \in Nat \ {0}
    <3>1. Source.budget \in Nat \ {0} /\ Scale \in Nat \ {0}
      BY <1>1, <2>1, SourceTypes, ConfigTypes DEF Source
    <3>2. Available(source) \in Nat /\ ~(Source.budget >= Available(source))
      BY <1>1, <2>1, FootingsAre
    <3>3. QED
      BY <3>1, <3>2
  <2>3. kept'[source] = Entire
    <3>1. kept \in Seq(KeptType) /\ Len(kept) = source - 1
      BY <1>1 DEF BuildInv
    <3>2. QED
      BY <1>1, <2>1, <3>1
  <2>4. /\ \A b \in Loaded : kept'[source][b] = Episodes(source, b)
        /\ \A b \in DOMAIN Source.buckets \ Loaded : kept'[source][b] = {}
    BY <1>1, <2>3, WholeIs
  <2>5. Loaded # {}
    BY <2>1 DEF Refused
  <2>6. /\ Loaded' = Loaded /\ Source' = Source /\ Available(source)' = Available(source)
        /\ \A b : Episodes(source, b)' = Episodes(source, b)
    BY <2>1, SameSource
  <2>7. Sharing'
    BY <2>1, <2>2, <2>4, <2>5, <2>6 DEF Sharing
  <2>8. remaining' \in Nat \ {0} /\ remaining' % Scale = 0
    <3>1. remaining' % Scale = 0
      BY <2>1, <2>2, Multiple
    <3>2. Source.budget * Scale \in Nat /\ Source.budget * Scale >= 1
      BY <2>2
    <3>3. QED
      BY <2>1, <3>1, <3>2
  <2>9. SumFunctionOnSet(alloc', Loaded \ Loaded) + remaining' = Source.budget * Scale
    <3>1. Loaded \ Loaded = {} /\ SumFunctionOnSet(alloc', {}) = 0
      BY SumEmpty
    <3>2. SumFunctionOnSet(alloc', Loaded \ Loaded) = 0
      BY <3>1, Zenon
    <3>3. QED
      BY <2>1, <2>8, <3>2
  <2>10. FillInv'
    <3>1. \A b \in Loaded' : (kept[source][b])' = Episodes(source, b)'
      BY <2>1, <2>4, <2>6
    <3>2. Loaded' \ active' = {}
      BY <2>1, <2>6
    <3>3. (SumFunctionOnSet(alloc, Loaded \ active) + remaining)' = (Source.budget * Scale)'
      BY <2>1, <2>6, <2>9
    <3>4. QED
      BY <2>7, <2>8, <3>1, <3>2, <3>3 DEF FillInv
  <2>11. SelectInv'
    BY <1>3 DEF SelectInv
  <2>12. QED
    BY <2>10, <2>11
<1>4. QED
  BY <1>2, <1>3

(* A source that Load finishes has all its footage. *)
LEMMA LoadBudgets == ASSUME PlanAssumption, BuildInv, BudgetInv, Load PROVE BudgetInv'
<1>1. source \in Sources /\ config \in Configs /\ source \in Nat /\ stage = "load"
  BY SourceIs DEF Load, Building
<1>2. config' = config
  BY DEF Load, Abort
<1>3. kept \in Seq(KeptType) /\ Len(kept) = source - 1
  BY <1>1 DEF BuildInv
<1>4. CASE Refused
  <2>1. UNCHANGED <<source, kept>>
    BY <1>4 DEF Load, Abort, plan
  <2>2. QED
    BY <1>1, <1>2, <2>1, BudgetsSame
<1>5. CASE ~Refused
  <2>1. kept' = Append(kept, Entire)
    BY <1>5 DEF Load, Entire
  <2>2. kept'[source] = Entire /\ \A i \in 1 .. source - 1 : kept'[i] = kept[i]
    <3>1. Entire \in KeptType
      BY <1>1, WholeIs
    <3>2. QED
      BY <1>1, <1>3, <2>1, <3>1
  <2>3. CASE Source.budget = None \/ Source.budget >= Available(source)
    <3>1. Spent(source, kept'[source])
      BY <1>1, <2>2, <2>3, SpentWhole
    <3>2. source' = source \/ source' = source + 1
      BY <1>5 DEF Load, NextSource
    <3>3. QED
      BY <1>1, <1>2, <2>2, <3>1, <3>2, BudgetsSame
  <2>4. CASE ~(Source.budget = None \/ Source.budget >= Available(source))
    <3>1. ~(Source.budget >= SumFunction([b \in Loaded |-> EffectiveFrames(source, b, Entire[b])]))
      BY <1>1, <2>4, FootingsAre
    <3>2. source' = source
      BY <1>5, <2>4, <3>1 DEF Load, Entire
    <3>3. QED
      BY <1>1, <1>2, <2>2, <3>2, BudgetsSame
  <2>5. QED
    BY <2>3, <2>4
<1>6. QED
  BY <1>4, <1>5
-----------------------------------------------------------------------------
(* A round of water_fill_hours. *)

(* A share is a whole number of Scale-ths of a frame. *)
LEMMA Divides ==
    ASSUME NEW n \in Nat \ {0}, NEW s \in Nat \ {0}, s % n = 0, NEW r \in Nat, r % s = 0
    PROVE  r \div n \in Nat /\ r = n * (r \div n)
<1> DEFINE p == s \div n  q == r \div s
<1>1. p \in Nat /\ s = n * p
  OBVIOUS
<1>2. q \in Nat /\ r = s * q
  OBVIOUS
<1> HIDE DEF p, q
<1>3. p * q \in Nat /\ r = (p * q) * n
  BY <1>1, <1>2
<1>4. (((p * q) * n) \div n) = p * q
  BY <1>3, Multiple
<1>5. r \div n = p * q
  BY <1>3, <1>4
<1> DEFINE m == p * q
<1>6. m \in Nat /\ r = m * n /\ r \div n = m
  BY <1>3, <1>5
<1> HIDE DEF m
<1>7. QED
  BY <1>6

Fair     == remaining \div Cardinality(active)
Small    == {k \in active : Capacity(k) <= Fair}
Capacities == [b \in Loaded |-> Capacity(b)]
Left     == remaining - SumFunctionOnSet(Capacities, Small)

(* The budget is not enough for those without a share, and is shared       *)
(* without a rest.                                                         *)
LEMMA FillFacts ==
    ASSUME PlanAssumption, BuildInv, FillInv, stage = "fill"
    PROVE  /\ Scale \in Nat \ {0} /\ Source.budget \in Nat \ {0}
           /\ IsFiniteSet(Loaded) /\ IsFiniteSet(active) /\ active \subseteq Loaded /\ active # {}
           /\ \A b \in Loaded : /\ Capacity(b) \in Nat \ {0} /\ Footing(b) \in Nat \ {0}
                                /\ Capacity(b) = Footing(b) * Scale /\ Capacities[b] = Capacity(b)
                                /\ Footings(source)[b] = Footing(b)
           /\ Cardinality(active) \in Nat \ {0}
           /\ Fair \in Nat \ {0} /\ remaining = Cardinality(active) * Fair /\ remaining \in Nat
           /\ remaining < SumFunctionOnSet(Capacities, active)
<1>1. source \in Sources /\ config \in Configs /\ source \in Nat
  BY SourceIs DEF Building
<1>2. Scale \in Nat \ {0} /\ Source.budget \in Nat \ {0}
  BY <1>1, ConfigTypes, SourceTypes DEF FillInv, Sharing, Source
<1>3. IsFiniteSet(Loaded) /\ Loaded \subseteq DOMAIN Source.buckets /\ active \subseteq Loaded /\ active # {}
  BY <1>1, WholeIs DEF FillInv, Sharing
<1>4. \A b \in Loaded : /\ Footing(b) \in Nat \ {0} /\ Capacity(b) = Footing(b) * Scale
                        /\ Capacities[b] = Capacity(b) /\ Footings(source)[b] = Footing(b)
  <2> TAKE b \in Loaded
  <2>1. Footing(b) \in Nat \ {0}
    BY <1>1, WholeIs
  <2>2. kept[source][b] = Episodes(source, b)
    BY DEF FillInv
  <2>3. Footings(source)[b] = Footing(b)
    BY <1>1, <1>3, FootingsAre
  <2>4. QED
    BY <2>1, <2>2, <2>3 DEF Capacity, Footing, Capacities
<1>5. \A b \in Loaded : Capacity(b) \in Nat \ {0}
  <2>1. \A m, n \in Nat \ {0} : m * n \in Nat \ {0}
    OBVIOUS
  <2>2. QED
    BY <1>2, <1>4, <2>1
<1>6. IsFiniteSet(active) /\ Cardinality(active) \in Nat \ {0} /\ Scale % Cardinality(active) = 0
  <2>1. /\ DOMAIN Source.buckets = 1 .. Len(Source.buckets) /\ \A n \in DOMAIN Source.buckets : Scale % n = 0
        /\ Source.buckets \in Seq([lengths : Seq(Nat), fails : {"no", "environment", "contract"}])
    BY <1>1, SourceTypes DEF Source
  <2> DEFINE n == Len(Source.buckets)
  <2>2. n \in Nat
    BY <2>1
  <2> HIDE DEF n
  <2>3. IsFiniteSet(1 .. n) /\ Cardinality(1 .. n) = n
    BY <2>2, FS_Interval
  <2>4. active \subseteq 1 .. n
    BY <1>3, <2>1 DEF n
  <2>5. IsFiniteSet(active) /\ Cardinality(active) <= n
    BY <2>3, <2>4, FS_Subset
  <2>6. Cardinality(active) \in Nat \ {0}
    BY <1>3, <2>5, FS_EmptySet, FS_CardinalityType
  <2>7. Cardinality(active) \in 1 .. n
    BY <2>2, <2>5, <2>6
  <2>8. QED
    BY <2>1, <2>5, <2>6, <2>7 DEF n
<1>7. remaining \in Nat \ {0} /\ remaining % Scale = 0
  BY DEF FillInv
<1>8. Fair \in Nat /\ remaining = Cardinality(active) * Fair
  BY <1>2, <1>6, <1>7, Divides DEF Fair
<1>9. Fair # 0
  BY <1>6, <1>7, <1>8
<1>10. remaining < SumFunctionOnSet(Capacities, active)
  <2> DEFINE rest == Loaded \ active  C == SumFunctionOnSet(Capacities, active)
             R == SumFunctionOnSet(Capacities, rest)  W == SumFunctionOnSet(Footings(source), Loaded)
  <2>1. IsFiniteSet(rest)
    BY <1>3, FS_Subset
  <2>2. \A b \in Loaded : Capacities[b] \in Int /\ Footings(source)[b] \in Int
          /\ Capacities[b] = Footings(source)[b] * Scale
    BY <1>4, <1>5
  <2>3. SumFunctionOnSet(Capacities, Loaded) = C + R
    BY <1>3, <2>2, SumSplit
  <2>4. SumFunctionOnSet(Capacities, Loaded) = W * Scale
    BY <1>2, <1>3, <2>2, SumScaled
  <2>5. W = Available(source) /\ W \in Nat /\ Source.budget < W
    BY <1>1, FootingsAre DEF FillInv, Sharing
  <2>6. SumFunctionOnSet(alloc, rest) = R
    <3>1. \A b \in rest : Capacities[b] \in Int /\ alloc[b] = Capacities[b]
      BY <1>4, <1>5 DEF FillInv
    <3> HIDE DEF rest
    <3>2. QED
      BY <2>1, <3>1, SumEqual
  <2>7. R + remaining = Source.budget * Scale
    BY <2>6 DEF FillInv
  <2>8. C \in Int /\ R \in Int
    <3>1. \A b \in active : Capacities[b] \in Int
      BY <1>3, <2>2
    <3>2. \A b \in rest : Capacities[b] \in Int
      BY <2>2
    <3> HIDE DEF rest
    <3>3. QED
      BY <1>6, <2>1, <3>1, <3>2, SumType
  <2> HIDE DEF C, R, W, rest
  <2>9. Source.budget * Scale < W * Scale
    BY <1>2, <2>5
  <2>10. QED
    BY <1>2, <1>7, <2>3, <2>4, <2>5, <2>7, <2>8, <2>9 DEF C
<1>11. QED
  BY <1>2, <1>3, <1>4, <1>5, <1>6, <1>7, <1>8, <1>9, <1>10

(* The small ones leave something, and there is one that is not small.     *)
LEMMA SmallFacts ==
    ASSUME PlanAssumption, BuildInv, FillInv, stage = "fill"
    PROVE  /\ Small \subseteq active /\ Small # active /\ IsFiniteSet(Small) /\ IsFiniteSet(active \ Small)
           /\ Cardinality(active \ Small) \in Nat \ {0}
           /\ Left \in Nat \ {0} /\ Cardinality(active \ Small) * Fair <= Left
           /\ Left % Scale = 0
<1> DEFINE C == SumFunctionOnSet(Capacities, Small)
           n == Cardinality(active)  m == Cardinality(Small)  k == Cardinality(active \ Small)
<1>1. /\ Scale \in Nat \ {0}
      /\ IsFiniteSet(Loaded) /\ IsFiniteSet(active) /\ active \subseteq Loaded /\ active # {}
      /\ \A b \in Loaded : /\ Capacity(b) \in Nat \ {0} /\ Footing(b) \in Nat \ {0}
                           /\ Capacity(b) = Footing(b) * Scale /\ Capacities[b] = Capacity(b)
                           /\ Footings(source)[b] = Footing(b)
      /\ n \in Nat \ {0}
      /\ Fair \in Nat \ {0} /\ remaining = n * Fair /\ remaining \in Nat
      /\ remaining < SumFunctionOnSet(Capacities, active)
  BY FillFacts
<1>2. Small \subseteq active /\ IsFiniteSet(Small) /\ IsFiniteSet(active \ Small)
  <2>1. Small \subseteq active
    BY DEF Small
  <2>2. QED
    BY <1>1, <2>1, FS_Subset
<1>3. m \in Nat /\ k \in Nat
  BY <1>2, FS_CardinalityType
<1>4. n = m + k
  <2>1. active = Small \cup (active \ Small) /\ Small \cap (active \ Small) = {}
    BY <1>2
  <2>2. Cardinality(Small \cup (active \ Small)) = m + k - Cardinality(Small \cap (active \ Small))
    BY <1>2, FS_Union
  <2>3. Cardinality(Small \cap (active \ Small)) = 0
    BY <2>1, FS_EmptySet, Zenon
  <2>4. n = Cardinality(Small \cup (active \ Small))
    BY <2>1, Zenon
  <2> DEFINE u == Cardinality(Small \cup (active \ Small))
             i == Cardinality(Small \cap (active \ Small))
  <2>5. u = m + k - i /\ i = 0 /\ n = u
    BY <2>2, <2>3, <2>4
  <2> HIDE DEF m, k, n, u, i
  <2>6. QED
    BY <1>3, <2>5
<1>5. C \in Nat /\ C <= m * Fair
  <2> DEFINE g == [b \in Small |-> Fair]
  <2>1. SumFunctionOnSet(g, Small) = m * Fair
    <3>1. \A b \in Small : g[b] = Fair
      OBVIOUS
    <3> HIDE DEF g
    <3>2. QED
      BY <1>1, <1>2, <3>1, SumConstant
  <2>2. \A b \in Small : Capacities[b] \in Nat /\ Capacities[b] \in Int /\ g[b] \in Int
          /\ Capacities[b] <= g[b]
    BY <1>1, <1>2 DEF Small
  <2> HIDE DEF g
  <2>3. C \in Nat
    BY <1>2, <2>2, SumNat
  <2>4. C <= SumFunctionOnSet(g, Small)
    BY <1>2, <2>2, SumAtMost
  <2>5. QED
    BY <2>1, <2>3, <2>4
<1>6. k # 0
  <2>1. ASSUME k = 0 PROVE FALSE
    <3>1. active \ Small = {}
      BY <1>2, <2>1, FS_EmptySet
    <3>2. Small = active
      BY <1>2, <3>1
    <3>3. C <= n * Fair
      BY <1>5, <3>2
    <3>4. remaining < C
      BY <1>1, <3>2
    <3> HIDE DEF C, n
    <3>5. QED
      BY <1>1, <1>5, <3>3, <3>4
  <2>2. QED
    BY <2>1
<1>7. Left = remaining - C
  BY DEF Left
<1> DEFINE F == SumFunctionOnSet(Footings(source), Small)
<1>8. C = F * Scale /\ F \in Nat
  <2>1. \A b \in Small : /\ Footings(source)[b] \in Int /\ Footings(source)[b] \in Nat
                         /\ Capacities[b] = Footings(source)[b] * Scale
    BY <1>1, <1>2
  <2>2. C = F * Scale
    BY <1>1, <1>2, <2>1, SumScaled
  <2>3. F \in Nat
    BY <1>2, <2>1, SumNat
  <2>4. QED
    BY <2>2, <2>3
<1>9. Small # active
  <2>1. ASSUME Small = active PROVE FALSE
    <3>1. active \ Small = {}
      BY <2>1
    <3>2. QED
      BY <1>6, <3>1, FS_EmptySet, Zenon
  <2>2. QED
    BY <2>1
<1> HIDE DEF C, F, n, m, k
<1>10. k * Fair <= Left /\ Left \in Nat \ {0}
  <2>1. n * Fair = m * Fair + k * Fair /\ m * Fair \in Nat /\ k * Fair \in Nat
    BY <1>1, <1>3, <1>4
  <2>2. k * Fair >= Fair
    BY <1>1, <1>3, <1>6
  <2>3. QED
    BY <1>1, <1>5, <1>7, <2>1, <2>2
<1>11. Left % Scale = 0
  <2> DEFINE q == remaining \div Scale
  <2>1. q \in Nat /\ remaining = q * Scale
    <3>1. remaining % Scale = 0
      BY DEF FillInv
    <3>2. QED
      BY <1>1, <3>1
  <2> HIDE DEF q
  <2>2. Left = (q - F) * Scale
    BY <1>1, <1>7, <1>8, <2>1
  <2>3. q - F \in Nat
    <3>1. q - F < 0 => (q - F) * Scale < 0
      BY <1>1, <1>8, <2>1
    <3>2. QED
      BY <1>8, <1>10, <2>1, <2>2, <3>1
  <2>4. QED
    BY <1>1, <2>2, <2>3, Multiple
<1>12. QED
  BY <1>2, <1>3, <1>6, <1>9, <1>10, <1>11 DEF k

(* What a round does: never are all small, and never is nothing left. *)
LEMMA FillIs ==
    ASSUME PlanAssumption, BuildInv, FillInv, Fill
    PROVE  /\ alloc' = [b \in DOMAIN alloc |->
                            IF b \in Small THEN Capacity(b) ELSE IF Small = {}
                              /\ b \in active THEN Fair ELSE alloc[b]]
           /\ IF Small = {} THEN active' = DOMAIN alloc /\ stage' = "select"
              ELSE active' = active \ Small /\ remaining' = Left /\ stage' = "fill"
           /\ UNCHANGED <<config, source, kept>> /\ stage = "fill"
<1> DEFINE g == [b \in Small |-> Capacity(b)]
<1>1. stage = "fill"
  BY DEF Fill
<1>2. /\ Small # active /\ IsFiniteSet(Small) /\ Small \subseteq active
      /\ Left \in Nat \ {0}
  BY <1>1, SmallFacts
<1>3. remaining - SumFunction(g) = Left
  <2>1. SumFunction(g) = SumFunctionOnSet(g, Small)
    BY DEF SumFunction
  <2>2. \A b \in Small : Capacities[b] \in Int /\ g[b] = Capacities[b]
    BY <1>1, <1>2, FillFacts
  <2> HIDE DEF g
  <2>3. SumFunctionOnSet(g, Small) = SumFunctionOnSet(Capacities, Small)
    BY <1>2, <2>2, SumEqual
  <2>4. QED
    BY <2>1, <2>3 DEF Left
<1>4. Left # 0
  BY <1>2
<1>5. QED
  BY <1>1, <1>2, <1>3, <1>4 DEF Fill, Small, Fair

(* A round with small buckets leaves a smaller problem of the same kind. *)
LEMMA FillFills ==
    ASSUME PlanAssumption, BuildInv, FillInv, Fill, Small # {}
    PROVE  FillInv'
<1>1. /\ alloc' = [b \in DOMAIN alloc |-> IF b \in Small THEN Capacity(b) ELSE alloc[b]]
      /\ active' = active \ Small /\ remaining' = Left
      /\ UNCHANGED <<config, source, kept>> /\ stage = "fill"
  BY FillIs
<1>2. /\ Scale \in Nat \ {0}
      /\ IsFiniteSet(Loaded) /\ IsFiniteSet(active) /\ active \subseteq Loaded /\ active # {}
      /\ \A b \in Loaded : Capacity(b) \in Nat \ {0} /\ Capacities[b] = Capacity(b)
      /\ Cardinality(active) \in Nat \ {0}
      /\ Fair \in Nat \ {0} /\ remaining = Cardinality(active) * Fair /\ remaining \in Nat
  BY <1>1, FillFacts
<1>3. /\ Small \subseteq active /\ Small # active /\ IsFiniteSet(Small)
      /\ Cardinality(active \ Small) \in Nat \ {0}
      /\ Left \in Nat \ {0} /\ Cardinality(active \ Small) * Fair <= Left
      /\ Left % Scale = 0
  BY <1>1, SmallFacts
<1>4. Loaded' = Loaded /\ Source' = Source /\ Available(source)' = Available(source)
      /\ \A b : Episodes(source, b)' = Episodes(source, b) /\ Capacity(b)' = Capacity(b)
  <2>1. \A b : Capacity(b)' = Capacity(b)
    BY <1>1, SameSource DEF Capacity
  <2>2. QED
    BY <1>1, <2>1, SameSource
<1>5. /\ Sharing /\ DOMAIN alloc = Loaded
      /\ \A b \in Loaded : kept[source][b] = Episodes(source, b)
      /\ \A b \in Loaded \ active : alloc[b] = Capacity(b) /\ Capacity(b) * Cardinality(active) <= remaining
      /\ SumFunctionOnSet(alloc, Loaded \ active) + remaining = Source.budget * Scale
  BY <1>1 DEF FillInv, Sharing
<1>6. Sharing'
  BY <1>1, <1>3, <1>4, <1>5 DEF Sharing
<1>7. \A b \in Loaded \ active' : alloc'[b] = Capacity(b) /\ Capacity(b) <= Fair
  <2> TAKE b \in Loaded \ active'
  <2>1. CASE b \in Small
    BY <1>1, <1>5, <2>1 DEF Small
  <2>2. CASE b \notin Small
    <3>1. b \in Loaded \ active /\ alloc'[b] = alloc[b]
      BY <1>1, <1>5, <2>2
    <3>2. Capacity(b) * Cardinality(active) <= Cardinality(active) * Fair /\ Capacity(b) \in Nat
      BY <1>2, <1>5, <3>1
    <3>3. \A c, f \in Nat : \A n \in Nat \ {0} : c * n <= n * f => c <= f
      <4>1. SUFFICES ASSUME NEW c \in Nat, NEW f \in Nat, NEW n \in Nat \ {0}, c > f PROVE c * n > n * f
        BY <4>1
      <4>2. c - f >= 1 /\ (c - f) * n >= n /\ (c - f) * n = c * n - n * f
        BY <4>1
      <4>3. QED
        BY <4>2
    <3>4. Capacity(b) <= Fair
      BY <1>2, <3>2, <3>3
    <3>5. QED
      BY <1>5, <3>1, <3>4
  <2>3. QED
    BY <2>1, <2>2
<1>8. \A b \in Loaded \ active' : Capacity(b) * Cardinality(active \ Small) <= Left
  <2> TAKE b \in Loaded \ active'
  <2> DEFINE k == Cardinality(active \ Small)  c == Capacity(b)
  <2>1. c \in Nat /\ c <= Fair /\ k \in Nat /\ Fair \in Nat /\ Left \in Nat /\ k * Fair <= Left
    BY <1>2, <1>3, <1>7
  <2> HIDE DEF k, c
  <2>2. c * k <= k * Fair
    BY <2>1
  <2>3. c * k <= Left
    BY <2>1, <2>2
  <2>4. QED
    BY <2>3 DEF k, c
<1>9. SumFunctionOnSet(alloc', Loaded \ active') + Left = Source.budget * Scale
  <2> DEFINE rest == Loaded \ active  more == Loaded \ active'
  <2>1. more = rest \cup Small /\ Small \subseteq more /\ more \ Small = rest /\ IsFiniteSet(more)
          /\ IsFiniteSet(rest)
    BY <1>1, <1>2, <1>3, FS_Subset
  <2>2. \A b \in more : alloc'[b] \in Int
    BY <1>2, <1>7
  <2>3. \A b \in Small : Capacities[b] \in Int /\ alloc'[b] = Capacities[b]
    BY <1>1, <1>2, <1>3, <1>5
  <2>4. \A b \in rest : alloc[b] \in Int /\ alloc'[b] = alloc[b]
    BY <1>1, <1>2, <1>3, <1>5
  <2> HIDE DEF rest, more
  <2>5. SumFunctionOnSet(alloc', more) = SumFunctionOnSet(alloc', Small) + SumFunctionOnSet(alloc', rest)
    <3>1. SumFunctionOnSet(alloc', more)
            = SumFunctionOnSet(alloc', Small) + SumFunctionOnSet(alloc', more \ Small)
      BY <2>1, <2>2, SumSplit
    <3>2. QED
      BY <2>1, <3>1
  <2>6. SumFunctionOnSet(alloc', Small) = SumFunctionOnSet(Capacities, Small)
    BY <1>3, <2>3, SumEqual
  <2>7. SumFunctionOnSet(alloc', rest) = SumFunctionOnSet(alloc, rest)
    BY <2>1, <2>4, SumEqual
  <2>8. SumFunctionOnSet(Capacities, Small) \in Int /\ SumFunctionOnSet(alloc, rest) \in Int
    BY <1>3, <2>1, <2>3, <2>4, SumType
  <2>9. SumFunctionOnSet(alloc, rest) + remaining = Source.budget * Scale
    BY <1>5 DEF rest
  <2> DEFINE C == SumFunctionOnSet(Capacities, Small)  R == SumFunctionOnSet(alloc, rest)
             M == SumFunctionOnSet(alloc', more)
  <2>10. M = C + R /\ C \in Int /\ R \in Int /\ Left = remaining - C /\ R + remaining = Source.budget * Scale
    BY <2>5, <2>6, <2>7, <2>8, <2>9 DEF Left
  <2> HIDE DEF C, R, M
  <2>11. M + Left = R + remaining
    BY <1>2, <2>10
  <2>12. QED
    BY <2>10, <2>11 DEF M, more
<1>10. (Source.budget * Scale)' = Source.budget * Scale
  BY <1>4
<1>11. \A b \in (Loaded \ active)' : /\ alloc'[b] = Capacity(b)'
                                     /\ Capacity(b)' * Cardinality(active') <= remaining'
  BY <1>1, <1>4, <1>7, <1>8
<1>12. \A b \in Loaded' : (kept[source][b])' = Episodes(source, b)'
  BY <1>1, <1>4, <1>5
<1>13. (SumFunctionOnSet(alloc, Loaded \ active) + remaining)' = (Source.budget * Scale)'
  BY <1>1, <1>4, <1>9, <1>10
<1>14. remaining' \in Nat \ {0} /\ remaining' % Scale = 0
  BY <1>1, <1>3
<1>15. QED
  BY <1>6, <1>11, <1>12, <1>13, <1>14 DEF FillInv

(* A round without small buckets finds the level. *)
LEMMA FillSelects ==
    ASSUME PlanAssumption, BuildInv, FillInv, Fill, Small = {}
    PROVE  SelectInv'
<1>1. /\ alloc' = [b \in DOMAIN alloc |-> IF b \in active THEN Fair ELSE alloc[b]]
      /\ active' = DOMAIN alloc
      /\ UNCHANGED <<config, source, kept>> /\ stage = "fill"
  BY FillIs
<1>2. /\ Scale \in Nat \ {0}
      /\ IsFiniteSet(Loaded) /\ IsFiniteSet(active) /\ active \subseteq Loaded /\ active # {}
      /\ \A b \in Loaded : Capacity(b) \in Nat \ {0} /\ Capacity(b) = Footing(b) * Scale
      /\ Cardinality(active) \in Nat \ {0}
      /\ Fair \in Nat \ {0} /\ remaining = Cardinality(active) * Fair /\ remaining \in Nat
  BY <1>1, FillFacts
<1>3. \A b \in active : Capacity(b) > Fair
  BY <1>2 DEF Small
<1>4. Loaded' = Loaded /\ Source' = Source /\ Available(source)' = Available(source)
      /\ \A b : /\ Episodes(source, b)' = Episodes(source, b) /\ Capacity(b)' = Capacity(b)
                /\ Footing(b)' = Footing(b)
  <2>1. \A b : Capacity(b)' = Capacity(b)
    BY <1>1, SameSource DEF Capacity
  <2>2. QED
    BY <1>1, <2>1, SameSource
<1>5. /\ Sharing /\ DOMAIN alloc = Loaded
      /\ \A b \in Loaded : kept[source][b] = Episodes(source, b)
      /\ \A b \in Loaded \ active : alloc[b] = Capacity(b) /\ Capacity(b) * Cardinality(active) <= remaining
      /\ SumFunctionOnSet(alloc, Loaded \ active) + remaining = Source.budget * Scale
  BY <1>1 DEF FillInv, Sharing
<1>6. Sharing'
  BY <1>1, <1>4, <1>5 DEF Sharing
<1>7. \A b \in Loaded \ active : Capacity(b) <= Fair
  <2> TAKE b \in Loaded \ active
  <2> DEFINE c == Capacity(b)  n == Cardinality(active)
  <2>1. c \in Nat /\ n \in Nat \ {0} /\ c * n <= n * Fair /\ Fair \in Nat
    BY <1>2, <1>5
  <2> HIDE DEF c, n
  <2>2. c > Fair => (c - Fair) * n >= n /\ (c - Fair) * n = c * n - n * Fair
    BY <2>1
  <2>3. c <= Fair
    BY <2>1, <2>2
  <2>4. QED
    BY <2>3 DEF c
<1>8. \A b \in Loaded : alloc'[b] = IF Capacity(b) <= Fair THEN Capacity(b) ELSE Fair
  <2> TAKE b \in Loaded
  <2>1. CASE b \in active
    BY <1>1, <1>2, <1>3, <1>5, <2>1
  <2>2. CASE b \notin active
    BY <1>1, <1>5, <1>7, <2>2
  <2>3. QED
    BY <2>1, <2>2
<1>9. \A b \in Loaded : alloc'[b] \in Nat \ {0} /\ alloc'[b] <= Footing(b) * Scale
  BY <1>2, <1>8
<1>10. \E level \in Range(alloc') : \A b \in DOMAIN alloc' :
           alloc'[b] = IF Capacity(b)' <= level THEN Capacity(b)' ELSE level
  <2>1. PICK b \in active : TRUE
    BY <1>2
  <2>2. b \in DOMAIN alloc' /\ alloc'[b] = Fair
    BY <1>1, <1>2, <1>5, <2>1
  <2>3. Fair \in Range(alloc')
    BY <2>2 DEF Range
  <2>4. DOMAIN alloc' = Loaded
    BY <1>1, <1>5
  <2>5. QED
    BY <1>4, <1>8, <2>3, <2>4
<1>11. SumFunctionOnSet(alloc', Loaded) = Source.budget * Scale
  <2> DEFINE rest == Loaded \ active  A == SumFunctionOnSet(alloc', active)
             M == SumFunctionOnSet(alloc', Loaded)  R == SumFunctionOnSet(alloc, rest)
  <2>1. \A b \in Loaded : alloc'[b] \in Int
    BY <1>9
  <2>2. M = A + SumFunctionOnSet(alloc', rest)
    BY <1>2, <2>1, SumSplit
  <2>3. \A b \in active : alloc'[b] = Fair
    BY <1>1, <1>2, <1>5
  <2>4. A = Cardinality(active) * Fair
    BY <1>2, <2>3, SumConstant
  <2>5. \A b \in rest : alloc[b] \in Int /\ alloc'[b] = alloc[b]
    BY <1>1, <1>2, <1>5
  <2>6. IsFiniteSet(rest)
    BY <1>2, FS_Subset
  <2>7. R + remaining = Source.budget * Scale
    BY <1>5
  <2> HIDE DEF rest
  <2>8. SumFunctionOnSet(alloc', rest) = R
    BY <2>5, <2>6, SumEqual
  <2>9. R \in Int
    BY <2>5, <2>6, SumType
  <2> HIDE DEF A, M, R
  <2>10. M = R + remaining
    BY <1>2, <2>2, <2>4, <2>8, <2>9
  <2>11. QED
    BY <2>7, <2>10 DEF M
<1>12. \A b \in Loaded' : alloc'[b] \in Nat \ {0} /\ alloc'[b] <= Footing(b)' * Scale
  BY <1>4, <1>9
<1>13. (SumFunctionOnSet(alloc, Loaded))' = (Source.budget * Scale)'
  BY <1>4, <1>11
<1>14. (active = Loaded => \E level \in Range(alloc) : Level(level))'
  BY <1>10 DEF Level
<1>15. (Loaded \ active)' = {}
  BY <1>1, <1>4, <1>5
<1>16. QED
  BY <1>6, <1>12, <1>13, <1>14, <1>15 DEF SelectInv

(* A round of water_fill_hours keeps the shares. *)
LEMMA FillKeeps ==
    ASSUME PlanAssumption, BuildInv, FillInv, BudgetInv, Fill
    PROVE  FillInv' /\ SelectInv' /\ BudgetInv'
<1>1. /\ IF Small = {} THEN stage' = "select" ELSE stage' = "fill"
      /\ UNCHANGED <<config, source, kept>> /\ stage = "fill"
  BY FillIs
<1>2. source \in Nat
  BY <1>1, SourceIs DEF Building
<1>3. BudgetInv'
  BY <1>1, <1>2, BudgetsSame
<1>4. CASE Small = {}
  BY <1>1, <1>3, <1>4, FillSelects DEF FillInv
<1>5. CASE Small # {}
  BY <1>1, <1>3, <1>5, FillFills DEF SelectInv
<1>6. QED
  BY <1>4, <1>5
-----------------------------------------------------------------------------
(* subsample_episodes_by_hours. *)

(* Shares that are nearly met, each by whole episodes, make a budget that  *)
(* is nearly met.                                                          *)
LEMMA SpentShares ==
    ASSUME PlanAssumption, config \in Configs, source \in Sources,
           Source.budget \in Nat, Source.budget # None, Source.budget < Available(source), Loaded # {},
           SumFunctionOnSet(alloc, Loaded) = Source.budget * Scale,
           NEW row, DOMAIN row = DOMAIN Source.buckets, \A b \in DOMAIN row \ Loaded : row[b] = {},
           \A b \in Loaded :
               /\ alloc[b] \in Nat /\ row[b] # {} /\ Longest(source, b) \in Nat
               /\ alloc[b] <= EffectiveFrames(source, b, row[b]) * Scale
               /\ EffectiveFrames(source, b, row[b]) * Scale < alloc[b] + Longest(source, b) * Scale
    PROVE  Spent(source, row)
<1> DEFINE used == {b \in DOMAIN row : row[b] # {}}
           longest == [b \in used |-> Longest(source, b)]
           f == FramesOf(source, row)
           scaled == [b \in Loaded |-> f[b] * Scale]
           most == [b \in Loaded |-> alloc[b] + longest[b] * Scale]
           more == [b \in Loaded |-> longest[b] * Scale]
           A == SumFunctionOnSet(alloc, Loaded)  F == SumFunctionOnSet(f, Loaded)
           L == SumFunctionOnSet(longest, Loaded)
<1>1. IsFiniteSet(Loaded) /\ Loaded \subseteq DOMAIN row /\ Scale \in Nat \ {0}
  BY WholeIs, ConfigTypes
<1>2. used = Loaded
  BY <1>1
<1>3. SumFunction(f) = F /\ \A b \in Loaded : f[b] = EffectiveFrames(source, b, row[b]) /\ f[b] \in Nat
  BY <1>1, RowSum
<1>4. \A b \in Loaded : longest[b] = Longest(source, b) /\ longest[b] \in Nat
  BY <1>2
<1>5. SumFunction(longest) = L
  BY <1>2 DEF SumFunction
<1> HIDE DEF f, longest, used
<1>6. \A b \in Loaded : /\ f[b] \in Int /\ alloc[b] \in Int /\ longest[b] \in Int /\ f[b] * Scale \in Int
        /\ longest[b] * Scale \in Int
                        /\ scaled[b] = f[b] * Scale /\ more[b] = longest[b] * Scale
                             /\ most[b] = alloc[b] + more[b]
                        /\ alloc[b] <= scaled[b] /\ scaled[b] < most[b]
  <2> TAKE b \in Loaded
  <2>1. f[b] \in Int /\ alloc[b] \in Int /\ longest[b] \in Int /\ f[b] * Scale \in Int
          /\ longest[b] * Scale \in Int
    BY <1>1, <1>3, <1>4
  <2>2. scaled[b] = f[b] * Scale /\ more[b] = longest[b] * Scale /\ most[b] = alloc[b] + longest[b] * Scale
    OBVIOUS
  <2>3. alloc[b] <= f[b] * Scale /\ f[b] * Scale < alloc[b] + longest[b] * Scale
    BY <1>3, <1>4
  <2> HIDE DEF scaled, more, most
  <2>4. QED
    BY <2>1, <2>2, <2>3
<1> HIDE DEF scaled, most, more
<1>7. \A b \in Loaded : scaled[b] \in Int /\ more[b] \in Int /\ most[b] \in Int
  BY <1>6
<1>8. A <= SumFunctionOnSet(scaled, Loaded)
  BY <1>1, <1>6, <1>7, SumAtMost
<1>9. SumFunctionOnSet(scaled, Loaded) = F * Scale
  BY <1>1, <1>6, SumScaled
<1>10. SumFunctionOnSet(scaled, Loaded) < SumFunctionOnSet(most, Loaded)
  BY <1>1, <1>6, <1>7, SumLess
<1>11. SumFunctionOnSet(most, Loaded) = A + SumFunctionOnSet(more, Loaded)
  BY <1>1, <1>6, <1>7, SumPlus
<1>12. SumFunctionOnSet(more, Loaded) = L * Scale
  BY <1>1, <1>6, SumScaled
<1>13. F \in Nat /\ L \in Nat
  BY <1>1, <1>3, <1>4, SumNat
<1>14. A = Source.budget * Scale
  OBVIOUS
<1> DEFINE B == Source.budget
<1>15. B \in Nat /\ B # None /\ B < Available(source) /\ Available(source) \in Nat
  BY FootingsAre
<1>16. B * Scale <= F * Scale /\ F * Scale < B * Scale + L * Scale
  BY <1>8, <1>9, <1>10, <1>11, <1>12, <1>14
<1> HIDE DEF A, F, L, B
<1>17. B <= F /\ F < B + L
  <2>1. F < B => F * Scale < B * Scale
    BY <1>1, <1>13, <1>15
  <2>2. F >= B + L => F * Scale >= (B + L) * Scale
    BY <1>1, <1>13, <1>15
  <2>3. (B + L) * Scale = B * Scale + L * Scale
    BY <1>1, <1>13, <1>15
  <2>4. B * Scale \in Nat /\ F * Scale \in Nat /\ L * Scale \in Nat
    BY <1>1, <1>13, <1>15
  <2>5. QED
    BY <1>13, <1>15, <1>16, <2>1, <2>2, <2>3, <2>4
<1>18. ~(B >= Available(source))
  BY <1>15
<1>19. Source.budget = config.sources[source].budget
  BY DEF Source
<1>20. QED
  BY <1>3, <1>5, <1>15, <1>17, <1>18, <1>19 DEF Spent, f, longest, used, B

(* A selected bucket has its share.                                        *)
LEMMA SelectedIs ==
    ASSUME PlanAssumption, BuildInv, SelectInv, stage = "select",
           NEW b \in active, NEW permutation \in SetToSeqs(Episodes(source, b)),
           NEW new, new = IF Whole(b) THEN kept[source][b] ELSE Drawn(b, permutation)
    PROVE  LET frames == EffectiveFrames(source, b, new) IN
           /\ new # {} /\ frames \in Nat
           /\ alloc[b] <= frames * Scale /\ frames * Scale < alloc[b] + Longest(source, b) * Scale
<1> DEFINE frames == EffectiveFrames(source, b, new)  t == Target(b)  x == alloc[b]  m == Longest(source, b)
<1>1. source \in Sources /\ config \in Configs /\ Scale \in Nat \ {0}
  BY SourceIs, ConfigTypes, SMTT(30) DEF Building
<1>2. /\ b \in Loaded /\ b \in DOMAIN config.sources[source].buckets
      /\ kept[source][b] = Episodes(source, b) /\ x \in Nat \ {0} /\ x <= Footing(b) * Scale
  BY DEF SelectInv, Sharing, Loaded, Source
<1>3. t \in Nat \ {0} /\ t * Scale \in Nat /\ x <= t * Scale /\ t * Scale < x + Scale
  BY <1>1, <1>2, TargetIs
<1>4. frames \in Nat
  BY <1>1, <1>2, Footage
<1>5. Episodes(source, b) \cap Sampleable(source, b) # {} /\ Episodes(source, b) # {}
        /\ Footing(b) \in Nat \ {0}
  BY <1>1, <1>2, WholeIs
<1>6. m \in Nat \ {0}
  <2>1. m \in Nat /\ \A e \in Episodes(source, b) : Lengths(source, b)[e] <= m
    BY <1>1, <1>2, <1>5, LongestIs
  <2>2. \A e \in Sampleable(source, b) : Lengths(source, b)[e] \in Nat \ {0}
    BY <1>1, <1>2, Footage
  <2>3. PICK e \in Episodes(source, b) \cap Sampleable(source, b) : TRUE
    BY <1>5
  <2> HIDE DEF m
  <2>4. QED
    BY <2>1, <2>2, <2>3
<1>7. CASE Whole(b)
  <2>1. new = Episodes(source, b) /\ frames = Footing(b) /\ Capacity(b) = frames * Scale
    BY <1>2, <1>7 DEF Footing, Capacity
  <2>2. frames * Scale <= t * Scale
    BY <1>7, <2>1 DEF Whole
  <2>3. x <= frames * Scale /\ new # {}
    BY <1>2, <1>5, <2>1
  <2> HIDE DEF frames, t, x, m
  <2>4. Scale <= m * Scale /\ m * Scale \in Nat /\ frames * Scale \in Nat
    BY <1>1, <1>4, <1>6
  <2>5. frames * Scale < x + m * Scale
    BY <1>1, <1>2, <1>3, <2>2, <2>4
  <2>6. QED
    BY <1>4, <2>3, <2>5 DEF frames, x, m
<1>8. CASE ~Whole(b)
  <2>1. new # {} /\ t <= frames /\ frames <= t - 1 + m
    BY <1>8, DrawnInSelect
  <2> HIDE DEF frames, t, x, m
  <2>2. t * Scale <= frames * Scale /\ frames * Scale <= (t - 1 + m) * Scale
    BY <1>1, <1>3, <1>4, <1>6, <2>1
  <2>3. (t - 1 + m) * Scale = t * Scale - Scale + m * Scale
    BY <1>1, <1>3, <1>6
  <2>4. m * Scale \in Nat /\ frames * Scale \in Nat
    BY <1>1, <1>4, <1>6
  <2>5. x <= frames * Scale /\ frames * Scale < x + m * Scale
    BY <1>1, <1>2, <1>3, <2>2, <2>3, <2>4
  <2>6. QED
    BY <1>4, <2>1, <2>5 DEF frames, x, m
<1>9. QED
  BY <1>7, <1>8

(* A selection keeps the shares; the last one of a source makes its        *)
(* budget.                                                                 *)
LEMMA SelectKeeps ==
    ASSUME PlanAssumption, BuildInv, SelectInv, BudgetInv, NEW b \in active,
           NEW permutation \in SetToSeqs(Episodes(source, b)), Select(b, permutation)
    PROVE  FillInv' /\ SelectInv' /\ BudgetInv'
<1> DEFINE row == kept'[source]
           Met(k) == /\ row[k] # {}
                     /\ alloc[k] <= EffectiveFrames(source, k, row[k]) * Scale
                     /\ EffectiveFrames(source, k, row[k]) * Scale < alloc[k] + Longest(source, k) * Scale
<1>1. /\ source \in Sources /\ config \in Configs /\ source \in Nat /\ Scale \in Nat \ {0}
      /\ stage = "select" /\ UNCHANGED <<config, alloc>> /\ active' = active \ {b}
  BY SourceIs, ConfigTypes DEF Select, Building
<1>2. PICK new : /\ new = IF Whole(b) THEN kept[source][b] ELSE Drawn(b, permutation)
                 /\ kept' = [kept EXCEPT ![source] = [kept[source] EXCEPT ![b] = new]]
  BY DEF Select
<1>3. kept \in Seq(KeptType) /\ Len(kept) = source /\ source \in DOMAIN kept /\ Usable(source)
  BY <1>1 DEF BuildInv
<1>4. /\ Sharing
      /\ \A k \in Loaded : alloc[k] \in Nat \ {0} /\ alloc[k] <= Footing(k) * Scale
      /\ SumFunctionOnSet(alloc, Loaded) = Source.budget * Scale
      /\ \A k \in Loaded \ active : Near(source, k, alloc[k]) /\ kept[source][k] # {}
  BY <1>1 DEF SelectInv
<1>5. /\ Loaded # {} /\ Source.budget # None /\ Source.budget < Available(source)
      /\ DOMAIN alloc = Loaded /\ active \subseteq Loaded /\ active # {}
      /\ \A k \in active : kept[source][k] = Episodes(source, k)
      /\ \A k \in DOMAIN Source.buckets \ Loaded : kept[source][k] = {}
  BY <1>4 DEF Sharing
<1>6. Loaded \subseteq DOMAIN Source.buckets /\ DOMAIN kept[source] = DOMAIN Source.buckets
  BY <1>3 DEF Loaded, Usable, Source
<1>7. /\ row = [kept[source] EXCEPT ![b] = new] /\ DOMAIN row = DOMAIN Source.buckets
      /\ row[b] = new /\ \A k \in DOMAIN Source.buckets : k # b => row[k] = kept[source][k]
      /\ \A i \in 1 .. source - 1 : kept'[i] = kept[i]
  <2>1. row = [kept[source] EXCEPT ![b] = new] /\ \A i \in 1 .. source - 1 : kept'[i] = kept[i]
    BY <1>1, <1>2, <1>3
  <2> HIDE DEF row
  <2>2. QED
    BY <1>5, <1>6, <2>1
<1> HIDE DEF row
<1>8. \A k \in Loaded \ active' : Met(k)
  <2> TAKE k \in Loaded \ active'
  <2>1. CASE k = b
    BY <1>1, <1>2, <1>7, <2>1, SelectedIs
  <2>2. CASE k # b
    <3>1. k \in Loaded \ active /\ row[k] = kept[source][k]
      BY <1>1, <1>6, <1>7, <2>2
    <3>2. QED
      BY <1>4, <3>1 DEF Near
  <2>3. QED
    BY <2>1, <2>2
<1>9. \A k \in DOMAIN row \ Loaded : row[k] = {}
  BY <1>5, <1>7
<1>10. CASE active = {b}
  <2>1. NextSource
    BY <1>10 DEF Select
  <2>2. FillInv' /\ SelectInv'
    BY <2>1 DEF NextSource, FillInv, SelectInv
  <2>3. active' = {}
    BY <1>1, <1>10
  <2>4. \A k \in Loaded : alloc[k] \in Nat /\ Longest(source, k) \in Nat /\ Met(k)
    <3> TAKE k \in Loaded
    <3>1. Met(k)
      BY <1>8, <2>3
    <3>2. k \in DOMAIN config.sources[source].buckets /\ Episodes(source, k) # {}
      BY <1>1, WholeIs DEF Source
    <3>3. Longest(source, k) \in Nat
      BY <1>1, <3>2, LongestIs
    <3> HIDE DEF Met
    <3>4. QED
      BY <1>4, <3>1, <3>3
  <2>5. Source.budget \in Nat
    BY <1>1, <1>5, SourceTypes DEF Source
  <2>6. Spent(source, row)
    BY <1>1, <1>4, <1>5, <1>7, <1>9, <2>4, <2>5, SpentShares, ZenonT(40)
  <2>7. BudgetInv'
    <3>1. source' = source + 1
      BY <2>1 DEF NextSource
    <3>2. QED
      BY <1>1, <1>7, <2>6, <3>1, BudgetsSame DEF row
  <2>8. QED
    BY <2>2, <2>7
<1>11. CASE active # {b}
  <2>1. UNCHANGED <<source, stage>>
    BY <1>11 DEF Select
  <2>2. BudgetInv'
    BY <1>1, <1>7, <2>1, BudgetsSame
  <2>3. FillInv'
    BY <1>1, <2>1 DEF FillInv
  <2>4. /\ Loaded' = Loaded /\ Source' = Source /\ Available(source)' = Available(source)
        /\ \A k : Footing(k)' = Footing(k) /\ Episodes(source, k)' = Episodes(source, k)
        /\ \A k, share : Near(source, k, share)' =
               (share <= EffectiveFrames(source, k, kept'[source][k]) * Scale
                    /\ EffectiveFrames(source, k, kept'[source][k]) * Scale
                         < share + Longest(source, k) * Scale)
    BY <1>1, <2>1, SameSource
  <2>5. \A k \in active' : row[k] = Episodes(source, k)
    BY <1>1, <1>5, <1>6, <1>7
  <2>6. active' # {} /\ active' \subseteq Loaded /\ active' # Loaded
    BY <1>1, <1>5, <1>11
  <2>7. (kept[source])' = row
    BY <2>1 DEF row
  <2>8. Sharing'
    BY <1>1, <1>5, <1>7, <1>9, <2>4, <2>5, <2>6, <2>7 DEF Sharing
  <2>9. \A k \in (Loaded \ active)' : Near(source, k, alloc[k])' /\ (kept[source][k])' # {}
    <3> TAKE k \in (Loaded \ active)'
    <3>1. Met(k)
      BY <1>8, <2>4
    <3>2. QED
      BY <1>1, <2>1, <2>4, <3>1 DEF row, Near
  <2>10. \A k \in Loaded' : alloc'[k] \in Nat \ {0} /\ alloc'[k] <= Footing(k)' * Scale
    BY <1>1, <1>4, <2>4
  <2>11. SumFunctionOnSet(alloc', Loaded') = (Source.budget * Scale)'
    BY <1>1, <1>4, <2>4
  <2>12. active' # Loaded'
    BY <2>4, <2>6
  <2>13. SelectInv'
    BY <2>8, <2>9, <2>10, <2>11, <2>12 DEF SelectInv
  <2>14. QED
    BY <2>2, <2>3, <2>13
<1>12. QED
  BY <1>10, <1>11
-----------------------------------------------------------------------------
(* The mixture and the training loop: LoopInv. *)

(* A step of the loop leaves the shares alone. *)
LEMMA LoopLeaves ==
    ASSUME PlanAssumption, BuildInv, FillInv, SelectInv, BudgetInv, Looped \/ UNCHANGED vars
    PROVE  FillInv' /\ SelectInv' /\ BudgetInv'
<1>1. UNCHANGED <<config, source, kept, alloc, active, dealt>>
  BY LoopKeeps
<1>2. BudgetInv'
  <2>1. source \in Nat
    BY ConfigTypes DEF BuildInv
  <2>2. QED
    BY <1>1, <2>1, BudgetsSame
<1>3. CASE stage' \notin {"fill", "select"}
  BY <1>2, <1>3 DEF FillInv, SelectInv
<1>4. CASE stage' \in {"fill", "select"}
  <2>1. UNCHANGED vars
    BY <1>4 DEF Looped, StartEpoch, Train, EndEpoch, Save, CrashAndResume
  <2>2. stage' = stage /\ remaining' = remaining
    BY <2>1 DEF vars
  <2>3. /\ Loaded' = Loaded /\ Source' = Source /\ Available(source)' = Available(source)
        /\ \A k : /\ Footing(k)' = Footing(k) /\ Episodes(source, k)' = Episodes(source, k)
                  /\ Capacity(k)' = Capacity(k)
        /\ \A k, share : Near(source, k, share)' = Near(source, k, share)
    <3>1. \A k : Capacity(k)' = Capacity(k)
      BY <1>1, SameSource DEF Capacity
    <3>2. \A k, share : Near(source, k, share)' = Near(source, k, share)
      BY <1>1, SameSource DEF Near
    <3>3. QED
      BY <1>1, <3>1, <3>2, SameSource
  <2>4. Sharing' = Sharing
    BY <1>1, <2>3 DEF Sharing
  <2>5. FillInv'
    <3>1. CASE stage = "fill"
      <4>1. (SumFunctionOnSet(alloc, Loaded \ active) + remaining)' = (Source.budget * Scale)'
        BY <1>1, <2>2, <2>3, <3>1 DEF FillInv
      <4>2. \A b \in Loaded' : (kept[source][b])' = Episodes(source, b)'
        BY <1>1, <2>3, <3>1 DEF FillInv
      <4>3. \A b \in (Loaded \ active)' : alloc'[b] = Capacity(b)'
              /\ Capacity(b)' * Cardinality(active') <= remaining'
        BY <1>1, <2>2, <2>3, <3>1 DEF FillInv
      <4>4. QED
        BY <2>2, <2>4, <3>1, <4>1, <4>2, <4>3 DEF FillInv
    <3>2. CASE stage # "fill"
      BY <2>2, <3>2 DEF FillInv
    <3>3. QED
      BY <3>1, <3>2
  <2>6. SelectInv'
    <3>1. CASE stage = "select"
      <4>1. (SumFunctionOnSet(alloc, Loaded))' = (Source.budget * Scale)'
        BY <1>1, <2>3, <3>1 DEF SelectInv
      <4>2. \A b \in Loaded' : alloc'[b] \in Nat \ {0} /\ alloc'[b] <= Footing(b)' * Scale
        BY <1>1, <2>3, <3>1 DEF SelectInv
      <4>3. \A k \in (Loaded \ active)' : Near(source, k, alloc[k])' /\ (kept[source][k])' # {}
        <5> TAKE k \in (Loaded \ active)'
        <5>1. Near(source, k, alloc[k]) /\ kept[source][k] # {}
          BY <1>1, <2>3, <3>1 DEF SelectInv
        <5>2. QED
          BY <1>1, <2>3, <5>1 DEF Near
      <4>4. (active = Loaded => \E level \in Range(alloc) : Level(level))'
        BY <1>1, <2>3, <3>1 DEF SelectInv, Level
      <4>5. QED
        BY <2>4, <3>1, <4>1, <4>2, <4>3, <4>4 DEF SelectInv
    <3>2. CASE stage # "select"
      BY <2>2, <3>2 DEF SelectInv
    <3>3. QED
      BY <3>1, <3>2
  <2>7. QED
    BY <1>2, <2>5, <2>6
<1>5. QED
  BY <1>3, <1>4

(* The mixture leaves the shares alone. *)
LEMMA MixLeaves ==
    ASSUME PlanAssumption, BuildInv, BudgetInv, Mix
    PROVE  FillInv' /\ SelectInv' /\ BudgetInv'
<1>1. UNCHANGED <<config, source, kept>> /\ stage' \notin {"fill", "select"}
  BY DEF Mix, Abort, plan
<1>2. BudgetInv'
  <2>1. source \in Nat
    BY ConfigTypes DEF BuildInv
  <2>2. QED
    BY <1>1, <2>1, BudgetsSame
<1>3. QED
  BY <1>1, <1>2 DEF FillInv, SelectInv

(* The windows and the map depend on the configuration and what is kept.   *)
LEMMA SameMixture ==
    ASSUME config' = config, kept' = kept
    PROVE  Deal' = Deal /\ TotalWeight' = TotalWeight
<1>1. \A i, b, eps : Windows(i, b, eps)' = Windows(i, b, eps)
  BY SameConfig
<1>2. \A i : WindowsOf(i)' = WindowsOf(i)
  BY <1>1 DEF WindowsOf
<1>3. \A i : Size(i)' = Size(i)
  BY <1>2 DEF Size
<1>4. TotalReal' = TotalReal
  BY <1>3, SameConfig DEF TotalReal
<1>5. \A i : Others(i)' = Others(i)
  BY <1>3, SameConfig DEF Others
<1>6. \A i : Weight(i)' = Weight(i)
  BY <1>3, <1>5 DEF Weight
<1>7. TotalWeight' = TotalWeight
  BY <1>6, SameConfig DEF TotalWeight
<1>8. \A i : Virtual(i)' = Virtual(i)
  BY <1>4, <1>6, <1>7 DEF Virtual
<1>9. \A i, x : Dispatch(i, x)' = Dispatch(i, x)
  BY <1>2 DEF Dispatch
<1>10. Deal' = Deal
  BY <1>3, <1>8, <1>9, SameConfig DEF Deal
<1>11. QED
  BY <1>7, <1>10

(* The maps and what is trained of them depend on the deal. *)
LEMMA SameMap == ASSUME dealt' = dealt, config' = config
                 PROVE  /\ \A e : Map(e)' = Map(e)
                        /\ \A e, p : History(e, p)' = History(e, p)
                        /\ \A e, p, t : Reached(e, p, t)' = Reached(e, p, t)
<1>1. \A e : Map(e)' = Map(e)
  BY DEF Map
<1>2. \A e, p : History(e, p)' = History(e, p)
  BY <1>1 DEF History
<1>3. QED
  BY <1>1, <1>2 DEF Reached

(* The map of an epoch has every sample of the deal. *)
LEMMA MapIs ==
    ASSUME NEW V, dealt \in Seq(V), NEW e \in Nat
    PROVE  Map(e) \in Seq(V) /\ Len(Map(e)) = Len(dealt)
<1> DEFINE len == Len(dealt)
<1>1. len \in Nat /\ DOMAIN dealt = 1 .. len /\ \A n \in 1 .. len : dealt[n] \in V
  BY Member
<1>2. \A n \in 1 .. len : ((n - 1 + e) % len) + 1 \in 1 .. len
  <2> TAKE n \in 1 .. len
  <2>1. len \in Nat \ {0} /\ n - 1 + e \in Int
    BY <1>1
  <2> HIDE DEF len
  <2>2. (n - 1 + e) % len \in 0 .. len - 1
    BY <2>1
  <2>3. QED
    BY <2>1, <2>2
<1> HIDE DEF len
<1>3. Map(e) \in [1 .. len -> V]
  BY <1>1, <1>2 DEF Map, len
<1>4. QED
  BY <1>1, <1>3, ListOf DEF len

(* The first 0 elements of a sequence. *)
LEMMA NothingYet == ASSUME NEW V, NEW s \in Seq(V) PROVE SubSeq(s, 1, 0) = <<>>
OBVIOUS

(* At the start of the first epoch nothing was trained. *)
LEMMA Started ==
    \A V : dealt \in Seq(V) /\ config.epochs \in Nat \ {0}
      => History(0, 0) = [x \in 0 .. config.epochs - 1 |-> <<>>]
<1> SUFFICES ASSUME NEW V, dealt \in Seq(V), config.epochs \in Nat \ {0}
             PROVE  History(0, 0) = [x \in 0 .. config.epochs - 1 |-> <<>>]
  OBVIOUS
<1>1. ASSUME NEW x \in 0 .. config.epochs - 1
      PROVE  (IF x < 0 THEN Map(x) ELSE IF x = 0 THEN SubSeq(Map(x), 1, 0) ELSE <<>>) = <<>>
  <2>1. x \in Nat
    OBVIOUS
  <2>2. SubSeq(Map(x), 1, 0) = <<>>
    BY <2>1, MapIs, NothingYet
  <2>3. QED
    BY <2>1, <2>2
<1>2. QED
  BY <1>1 DEF History

(* Mix deals the map, and nothing was trained on it. *)
LEMMA MixLoops == ASSUME PlanAssumption, BuildInv, LoopInv, Mix PROVE LoopInv'
<1>1. stage = "mix" /\ config' = config /\ UNCHANGED <<epoch, pos, saved, trained, kept>>
  BY DEF Mix, Abort, plan, loop
<1>2. epoch = 0 /\ pos = 0 /\ saved = None /\ trained = [e \in 0 .. config.epochs - 1 |-> <<>>]
  BY <1>1 DEF LoopInv, Looping
<1>3. config \in Configs /\ config.epochs \in Nat /\ \A i \in Sources : Usable(i)
  <2>1. config \in Configs
    BY DEF BuildInv
  <2>2. config.epochs \in Nat /\ Sources = 1 .. Len(config.sources) /\ Len(config.sources) \in Nat
    BY <2>1, ConfigTypes
  <2>3. Len(kept) = Len(config.sources)
    BY <1>1, <2>2 DEF BuildInv
  <2>4. QED
    BY <2>1, <2>2, <2>3 DEF BuildInv
<1>4. CASE TotalWeight = 0
  <2>1. stage' = "aborted"
    BY <1>4 DEF Mix, Abort
  <2>2. QED
    BY <1>1, <1>2, <2>1 DEF LoopInv, Looping
<1>5. CASE TotalWeight # 0
  <2>1. dealt' = Deal /\ stage' = IF config.epochs = 0 THEN "done" ELSE "epochs"
    BY <1>5 DEF Mix
  <2>2. Deal' = Deal /\ TotalWeight' = TotalWeight
    BY <1>1, SameMixture
  <2>3. dealt' \in Seq(Triples) /\ Len(dealt') \in Nat
    BY <1>3, <1>5, <2>1, DealtOut
  <2>4. config.epochs # 0 => Reached(epoch, pos, trained)'
    <3>1. SUFFICES ASSUME config.epochs # 0 PROVE Reached(epoch, pos, trained)'
      OBVIOUS
    <3>2. (\A V : dealt \in Seq(V) /\ config.epochs \in Nat \ {0} =>
              History(0, 0) = [x \in 0 .. config.epochs - 1 |-> <<>>])'
      BY Started, PTL
    <3>3. History(0, 0)' = trained'
      BY <1>1, <1>2, <1>3, <2>3, <3>1, <3>2
    <3>4. QED
      BY <1>1, <1>2, <1>3, <2>3, <3>1, <3>3 DEF Reached
  <2>5. QED
    BY <1>1, <1>2, <1>5, <2>1, <2>2, <2>4 DEF LoopInv, Looping
<1>6. QED
  BY <1>4, <1>5

(* What a batch adds to what was trained. *)
LEMMA Longer ==
    ASSUME NEW V, NEW s \in Seq(V), NEW p \in 0 .. Len(s) - 1
    PROVE  Append(SubSeq(s, 1, p), s[p + 1]) = SubSeq(s, 1, p + 1)
OBVIOUS

(* The whole of a sequence. *)
LEMMA Complete == ASSUME NEW V, NEW s \in Seq(V) PROVE SubSeq(s, 1, Len(s)) = s
OBVIOUS

(* A batch extends what was trained of the epoch. *)
LEMMA Advanced ==
    ASSUME NEW V, dealt \in Seq(V), config.epochs \in Nat,
           NEW e \in 0 .. config.epochs - 1, NEW p \in 0 .. Len(dealt) - 1
    PROVE  [History(e, p) EXCEPT ![e] = Append(@, Map(e)[p + 1])] = History(e, p + 1)
<1>1. Map(e) \in Seq(V) /\ Len(Map(e)) = Len(dealt)
  BY MapIs
<1>2. Append(SubSeq(Map(e), 1, p), Map(e)[p + 1]) = SubSeq(Map(e), 1, p + 1)
  BY <1>1, Longer
<1>3. History(e, p)[e] = SubSeq(Map(e), 1, p)
  BY DEF History
<1> DEFINE new == Append(SubSeq(Map(e), 1, p), Map(e)[p + 1])
<1>4. [History(e, p) EXCEPT ![e] = Append(@, Map(e)[p + 1])] = [History(e, p) EXCEPT ![e] = new]
  BY <1>3
<1>5. new = SubSeq(Map(e), 1, p + 1)
  BY <1>2
<1> HIDE DEF new
<1>6. ASSUME NEW x \in 0 .. config.epochs - 1
      PROVE  [History(e, p) EXCEPT ![e] = new][x]
             = (IF x < e THEN Map(x) ELSE IF x = e THEN SubSeq(Map(x), 1, p + 1) ELSE <<>>)
  <2>1. CASE x = e
    <3>1. [History(e, p) EXCEPT ![e] = new][x] = new /\ ~(x < e)
      BY <2>1 DEF History
    <3>2. new = SubSeq(Map(x), 1, p + 1)
      BY <1>5, <2>1, Zenon
    <3>3. QED
      BY <2>1, <3>1, <3>2
  <2>2. CASE x # e
    BY <2>2 DEF History
  <2>3. QED
    BY <2>1, <2>2
<1>7. QED
  BY <1>4, <1>6 DEF History

(* The end of an epoch is the start of the next one. *)
LEMMA NextEpoch ==
    ASSUME NEW V, dealt \in Seq(V), config.epochs \in Nat,
           NEW e \in 0 .. config.epochs - 2
    PROVE  History(e, Len(dealt)) = History(e + 1, 0)
<1>1. Map(e) \in Seq(V) /\ Len(Map(e)) = Len(dealt)
  BY MapIs
<1>2. SubSeq(Map(e), 1, Len(dealt)) = Map(e)
  BY <1>1, Complete
<1>3. \A x \in 0 .. config.epochs - 1 : SubSeq(Map(x), 1, 0) = <<>>
  <2> TAKE x \in 0 .. config.epochs - 1
  <2>1. x \in Nat
    OBVIOUS
  <2>2. QED
    BY <2>1, MapIs, NothingYet
<1>4. ASSUME NEW x \in 0 .. config.epochs - 1
      PROVE  (IF x < e THEN Map(x) ELSE IF x = e THEN SubSeq(Map(x), 1, Len(dealt)) ELSE <<>>)
             = (IF x < e + 1 THEN Map(x) ELSE IF x = e + 1 THEN SubSeq(Map(x), 1, 0) ELSE <<>>)
  <2>1. CASE x < e
    BY <2>1
  <2>2. CASE x = e
    <3>1. ~(x < e) /\ x < e + 1
      BY <2>2
    <3>2. SubSeq(Map(x), 1, Len(dealt)) = Map(x)
      BY <1>2, <2>2, Zenon
    <3>3. QED
      BY <2>2, <3>1, <3>2, Zenon
  <2>3. CASE x = e + 1
    <3>1. ~(x < e) /\ ~(x < e + 1) /\ x # e
      BY <2>3
    <3>2. QED
      BY <1>3, <2>3, <3>1, Zenon
  <2>4. CASE x > e + 1
    BY <2>4
  <2>5. QED
    BY <2>1, <2>2, <2>3, <2>4
<1>5. QED
  BY <1>4 DEF History

(* Until the mixture is there nothing is trained. *)
LEMMA BuildLoops == ASSUME PlanAssumption, BuildInv, LoopInv,
                           Load \/ Fill
                             \/ (stage = "select" /\ \E b \in active :
                                     \E permutation \in SetToSeqs(Episodes(source, b)) :
                                        Select(b, permutation))
                    PROVE  LoopInv'
<1>1. /\ stage \in Building /\ stage' \notin Looping /\ config' = config
      /\ UNCHANGED <<epoch, pos, saved, trained>>
  BY DEF Load, Fill, Select, Abort, NextSource, loop, Building, Looping
<1>2. QED
  BY <1>1 DEF LoopInv, Looping, Building

(* A step of the training loop: a save takes the history along, a crash    *)
(* goes back to it.                                                        *)
LEMMA LoopLoops == ASSUME PlanAssumption, BuildInv, LoopInv, Looped \/ UNCHANGED vars PROVE LoopInv'
<1>1. UNCHANGED <<config, kept, dealt>>
  BY LoopKeeps
<1>2. \A e, p, t : Reached(e, p, t)' = Reached(e, p, t)
  BY <1>1, SameMap
<1>3. Deal' = Deal /\ TotalWeight' = TotalWeight
  BY <1>1, SameMixture
<1>4. config \in Configs /\ config.epochs \in Nat
  BY ConfigTypes DEF BuildInv
<1>5. CASE UNCHANGED vars
  <2>1. UNCHANGED <<stage, epoch, pos, saved, trained, forked>>
    BY <1>5 DEF vars
  <2>2. QED
    BY <1>1, <1>2, <1>3, <2>1 DEF LoopInv
<1>6. CASE Looped
  <2>1. stage \in Looping /\ stage' \in Looping
    BY <1>6, LoopKeeps DEF Looped, StartEpoch, Train, EndEpoch, Save, CrashAndResume, Looping
  <2>2. /\ dealt = Deal /\ TotalWeight # 0 /\ stage \in {"epochs", "training"}
        /\ config.epochs # 0 /\ Reached(epoch, pos, trained)
        /\ saved # None => Reached(saved.epoch, saved.pos, saved.trained)
        /\ stage = "training" => forked = epoch
    BY <1>6, <2>1 DEF LoopInv, Looped, StartEpoch, Train, EndEpoch, Save, CrashAndResume
  <2>3. dealt \in Seq(Triples)
    <3>1. Sources = 1 .. Len(config.sources) /\ Len(config.sources) \in Nat
      BY <1>4, ConfigTypes
    <3>2. \A i \in Sources : Usable(i)
      BY <2>1, <3>1 DEF BuildInv, Building, Looping
    <3>3. QED
      BY <1>4, <2>2, <3>2, DealtOut
  <2>4. epoch \in 0 .. config.epochs - 1 /\ pos \in 0 .. Len(dealt) /\ trained = History(epoch, pos)
    BY <2>2 DEF Reached
  <2>5. CASE StartEpoch
    BY <1>1, <1>2, <1>3, <2>1, <2>2, <2>5 DEF StartEpoch, LoopInv, Looping, plan
  <2>6. CASE Train
    <3>1. /\ stage = "training" /\ pos < Len(dealt) /\ pos' = pos + 1
               /\ UNCHANGED <<stage, epoch, forked, saved>>
          /\ trained' = [History(epoch, pos) EXCEPT ![epoch] = Append(@, Map(epoch)[pos + 1])]
      BY <2>2, <2>4, <2>6 DEF Train
    <3>2. pos \in 0 .. Len(dealt) - 1 /\ pos + 1 \in 0 .. Len(dealt)
      BY <2>3, <2>4, <3>1
    <3>3. trained' = History(epoch, pos + 1)
      BY <1>4, <2>3, <2>4, <3>1, <3>2, Advanced
    <3>4. Reached(epoch, pos + 1, trained')
      BY <2>4, <3>2, <3>3 DEF Reached
    <3>5. Reached(epoch, pos, trained)'
      BY <1>1, <3>1, <3>4, SameMap DEF Reached
    <3>6. QED
      BY <1>1, <1>2, <1>3, <2>2, <3>1, <3>5 DEF LoopInv, Looping
  <2>7. CASE EndEpoch
    <3>1. stage = "training" /\ pos = Len(dealt) /\ UNCHANGED <<trained, saved, forked>>
      BY <2>7 DEF EndEpoch
    <3>2. CASE epoch + 1 = config.epochs
      <4>1. stage' = "done" /\ UNCHANGED <<epoch, pos>>
        BY <2>7, <3>2 DEF EndEpoch
      <4>2. epoch = config.epochs - 1
        BY <1>4, <2>4, <3>2
      <4>3. Reached(epoch, pos, trained)'
        BY <1>1, <1>2, <2>2, <3>1, <4>1 DEF Reached
      <4>4. QED
        BY <1>1, <1>2, <1>3, <2>2, <3>1, <4>1, <4>2, <4>3 DEF LoopInv, Looping
    <3>3. CASE epoch + 1 # config.epochs
      <4>1. stage' = "epochs" /\ epoch' = epoch + 1 /\ pos' = 0
        BY <2>7, <3>3 DEF EndEpoch
      <4>2. epoch \in 0 .. config.epochs - 2 /\ epoch + 1 \in 0 .. config.epochs - 1 /\ 0 \in 0 .. Len(dealt)
        BY <1>4, <2>3, <2>4, <3>3
      <4>3. trained = History(epoch + 1, 0)
        BY <1>4, <2>3, <2>4, <3>1, <4>2, NextEpoch
      <4>4. Reached(epoch, pos, trained)'
        BY <1>1, <1>2, <3>1, <4>1, <4>2, <4>3, SameMap DEF Reached
      <4>5. QED
        BY <1>1, <1>2, <1>3, <2>2, <3>1, <4>1, <4>4 DEF LoopInv, Looping
    <3>4. QED
      BY <3>2, <3>3
  <2>8. CASE Save
    <3>1. /\ saved' = [epoch |-> epoch, pos |-> pos, trained |-> trained]
          /\ UNCHANGED <<stage, epoch, pos, trained, forked>> /\ stage = "training"
      BY <2>8 DEF Save
    <3>2. Reached(saved.epoch, saved.pos, saved.trained)'
      <4>1. saved'.epoch = epoch /\ saved'.pos = pos /\ saved'.trained = trained
        BY <3>1
      <4>2. QED
        BY <1>1, <2>2, <4>1, SameMap DEF Reached
    <3>3. Reached(epoch, pos, trained)'
      BY <1>1, <2>2, <3>1, SameMap DEF Reached
    <3>4. QED
      BY <1>1, <1>3, <2>2, <3>1, <3>2, <3>3 DEF LoopInv, Looping
  <2>9. CASE CrashAndResume
    <3>1. /\ saved # None /\ stage' = "epochs" /\ UNCHANGED saved
          /\ epoch' = saved.epoch /\ pos' = saved.pos /\ trained' = saved.trained
      BY <2>9 DEF CrashAndResume
    <3>2. Reached(epoch, pos, trained)' /\ Reached(saved.epoch, saved.pos, saved.trained)'
      BY <1>1, <2>2, <3>1, SameMap DEF Reached
    <3>3. QED
      BY <1>1, <1>3, <2>2, <3>1, <3>2 DEF LoopInv, Looping
  <2>10. QED
    BY <1>6, <2>5, <2>6, <2>7, <2>8, <2>9 DEF Looped
<1>7. QED
  BY <1>5, <1>6
-----------------------------------------------------------------------------
(* The invariant and what follows from it. *)

(* Nothing is built, shared or trained yet. *)
LEMMA PlanInit == ASSUME PlanAssumption, Init PROVE PlanInv
<1>1. config \in Configs
  BY DEF Init
<1>2. config.sources \in Seq(BucketRoots) /\ config.sources # <<>> /\ Sources = 1 .. Len(config.sources)
  BY <1>1, ConfigTypes
<1>3. BuildInv
  <2>1. 1 \in 1 .. Len(config.sources) + 1 /\ 1 <= Len(config.sources)
    BY <1>2
  <2>2. kept \in Seq(KeptType) /\ Len(kept) = 0
    BY DEF Init
  <2>3. QED
    BY <1>1, <2>1, <2>2 DEF Init, BuildInv, Building, Looping
<1>4. FillInv /\ SelectInv
  BY DEF Init, FillInv, SelectInv
<1>5. BudgetInv
  BY DEF Init, BudgetInv
<1>6. LoopInv
  BY DEF Init, LoopInv, Looping
<1>7. QED
  BY <1>3, <1>4, <1>5, <1>6 DEF PlanInv

(* Every step keeps the invariant. *)
LEMMA PlanNext == ASSUME PlanAssumption, PlanInv, [Next]_vars PROVE PlanInv'
<1>1. BuildInv /\ FillInv /\ SelectInv /\ BudgetInv /\ LoopInv
  BY DEF PlanInv
<1>2. CASE Load
  BY <1>1, <1>2, LoadBuilds, LoadFills, LoadBudgets, BuildLoops DEF PlanInv
<1>3. CASE Fill
  BY <1>1, <1>3, FillBuilds, FillKeeps, BuildLoops DEF PlanInv
<1>4. ASSUME stage = "select", NEW b \in active,
             NEW permutation \in SetToSeqs(Episodes(source, b)), Select(b, permutation)
      PROVE  PlanInv'
  <2>1. LoopInv'
    BY <1>1, <1>4, BuildLoops
  <2>2. BuildInv'
    BY <1>1, <1>4, SelectBuilds
  <2>3. FillInv' /\ SelectInv' /\ BudgetInv'
    BY <1>1, <1>4, SelectKeeps
  <2>4. QED
    BY <2>1, <2>2, <2>3 DEF PlanInv
<1>5. CASE Mix
  BY <1>1, <1>5, MixBuilds, MixLeaves, MixLoops DEF PlanInv
<1>6. CASE Looped \/ UNCHANGED vars
  BY <1>1, <1>6, LoopBuilds, LoopLeaves, LoopLoops DEF PlanInv
<1>7. QED
  BY <1>2, <1>3, <1>4, <1>5, <1>6 DEF Next, Looped

(* The invariant has what FairBudget promises. *)
LEMMA BudgetFair == ASSUME PlanAssumption, PlanInv PROVE FairBudget
<1>1. BuildInv /\ SelectInv /\ BudgetInv
  BY DEF PlanInv
<1>2. ASSUME stage = "select", active = DOMAIN alloc
      PROVE  /\ SumFunction(alloc) = Source.budget * Scale
             /\ \E level \in Range(alloc) : \A b \in DOMAIN alloc :
                    0 < alloc[b] /\ alloc[b] = IF Capacity(b) <= level THEN Capacity(b) ELSE level
  <2>1. DOMAIN alloc = Loaded /\ SumFunctionOnSet(alloc, Loaded) = Source.budget * Scale
    BY <1>1, <1>2 DEF SelectInv, Sharing
  <2>2. \A b \in Loaded : 0 < alloc[b]
    BY <1>1, <1>2 DEF SelectInv
  <2>3. \E level \in Range(alloc) : Level(level)
    BY <1>1, <1>2, <2>1 DEF SelectInv
  <2>4. SumFunction(alloc) = SumFunctionOnSet(alloc, Loaded)
    BY <2>1 DEF SumFunction
  <2>5. QED
    BY <2>1, <2>2, <2>3, <2>4 DEF Level
<1>3. \A i \in 1 .. source - 1 : Budgeted(i)
  BY <1>1 DEF BudgetInv
<1>4. QED
  BY <1>2, <1>3 DEF FairBudget, Budgeted

(* The invariant has what EpochExact promises. *)
LEMMA EpochsExact == ASSUME PlanAssumption, PlanInv PROVE EpochExact
<1>1. BuildInv /\ LoopInv
  BY DEF PlanInv
<1>2. config \in Configs /\ config.epochs \in Nat
  BY <1>1, ConfigTypes DEF BuildInv
<1> SUFFICES ASSUME NEW e \in Finished
             PROVE  /\ trained[e] = Map(e)
                    /\ config.strategy = "proportional" =>
                           \A i \in Sources : \A w \in AllWindows(i) : Count(w, trained[e]) = 1
  BY DEF EpochExact
<1>3. e \in 0 .. config.epochs - 1 /\ e \in Nat /\ config.epochs # 0 /\ (e < epoch \/ stage = "done")
  BY <1>2 DEF Finished
<1>4. stage \in Looping
  BY <1>1, <1>3 DEF LoopInv, Looping
<1>5. dealt = Deal /\ TotalWeight # 0 /\ Reached(epoch, pos, trained)
  BY <1>1, <1>3, <1>4 DEF LoopInv
<1>6. \A i \in Sources : Usable(i)
  <2>1. Sources = 1 .. Len(config.sources) /\ Len(config.sources) \in Nat
    BY <1>2, ConfigTypes
  <2>2. QED
    BY <1>1, <1>4, <2>1 DEF BuildInv, Building, Looping
<1>7. dealt \in Seq(Triples)
  BY <1>2, <1>5, <1>6, DealtOut
<1>8. trained[e] = Map(e)
  <2>1. trained[e] = IF e < epoch THEN Map(e) ELSE IF e = epoch THEN SubSeq(Map(e), 1, pos) ELSE <<>>
    BY <1>3, <1>5 DEF Reached, History
  <2>2. CASE e < epoch
    BY <2>1, <2>2
  <2>3. CASE ~(e < epoch)
    <3>1. epoch = config.epochs - 1 /\ pos = Len(dealt)
      BY <1>1, <1>3, <2>3 DEF LoopInv
    <3>2. e = epoch
      BY <1>2, <1>3, <2>3, <3>1
    <3>3. Map(e) \in Seq(Triples) /\ Len(Map(e)) = Len(dealt)
      BY <1>3, <1>7, MapIs
    <3>4. SubSeq(Map(e), 1, pos) = Map(e)
      BY <3>1, <3>3, Complete
    <3>5. QED
      BY <2>1, <2>3, <3>2, <3>4
  <2>4. QED
    BY <2>2, <2>3
<1>9. ASSUME config.strategy = "proportional", NEW i \in Sources, NEW w \in AllWindows(i)
      PROVE  Count(w, trained[e]) = 1
  BY <1>2, <1>3, <1>5, <1>6, <1>8, <1>9, OneEach
<1>10. QED
  BY <1>8, <1>9
(* The plan, in every state: PlanInv, of which FairBudget and EpochExact   *)
(* are two views.                                                          *)
THEOREM PlanInvariance == PlanAssumption => (Spec => []PlanInv)
<1> SUFFICES ASSUME PlanAssumption PROVE Spec => []PlanInv
  OBVIOUS
<1>1. Init => PlanInv
  BY PlanInit
<1>2. PlanInv /\ [Next]_vars => PlanInv'
  BY PlanNext
<1>3. QED
  BY <1>1, <1>2, PTL DEF Spec
-----------------------------------------------------------------------------
(* The readers, here because their places are sums and glued sequences     *)
(* like those of the plan.                                                 *)
CONSTANTS Datasets, WindowFrames, WindowStrides, MaxTries
VARIABLES reader, disk, index, asked, at, tries, sample

Reading == INSTANCE TrainingWindows WITH
    Disks <- Datasets, Strides <- WindowStrides, Frames <- WindowFrames

(* The instance has the library's operators under its own name, and they   *)
(* are the same.                                                           *)
LEMMA SameLibrary ==
    /\ \A S : Reading!IsFiniteSet(S) = IsFiniteSet(S) /\ Reading!Cardinality(S) = Cardinality(S)
    /\ \A f, S : Reading!SumFunctionOnSet(f, S) = SumFunctionOnSet(f, S)
    /\ \A s : Reading!FlattenSeq(s) = FlattenSeq(s)
<1>1. \A S : Reading!IsFiniteSet(S) = IsFiniteSet(S)
  BY DEF Reading!IsFiniteSet, IsFiniteSet
<1>2. \A S : Reading!Cardinality(S) = Cardinality(S)
  BY Zenon DEF Reading!Cardinality, Cardinality
<1>3. \A f, S : Reading!SumFunctionOnSet(f, S) = SumFunctionOnSet(f, S)
  BY Zenon DEF Reading!SumFunctionOnSet, SumFunctionOnSet, Reading!FoldFunctionOnSet,
               FoldFunctionOnSet, Reading!MapThenFoldSet, MapThenFoldSet
<1>4. \A s : Reading!FlattenSeq(s) = FlattenSeq(s)
  BY Zenon DEF Reading!FlattenSeq, FlattenSeq
<1>5. QED
  BY <1>1, <1>2, <1>3, <1>4

(* What the readers add up and glue together. *)
LEMMA AddedUp ==
    /\ \A shard, field :
           Reading!Shard(shard, field)
             = FlattenSeq([e \in Reading!Episodes |-> IF disk.episodes[e][field] = shard
                                                     THEN Reading!Recorded(e) ELSE <<>>])
    /\ \A e, field :
           Reading!FileLocalOffset(e, field) = SumFunctionOnSet(Reading!Lengths, Reading!Before(e, field))
    /\ \A shard :
           Reading!ShardStart(shard)
             = SumFunctionOnSet([f \in disk.files |-> Reading!ShardRows(f)], 1 .. shard - 1)
    /\ \A e : Reading!GlobalStart(e) = SumFunctionOnSet(Reading!Lengths, 1 .. e - 1)
    /\ \A e : Reading!FirstWindow(e)
                = SumFunctionOnSet(Reading!WindowCounts, {b \in DOMAIN index : b < e})
    /\ Reading!Windows = SumFunctionOnSet(Reading!WindowCounts, DOMAIN Reading!WindowCounts)
BY SameLibrary DEF Reading!Shard, Reading!FileLocalOffset, Reading!ShardStart, Reading!GlobalStart,
                   Reading!FirstWindow, Reading!Windows, Reading!SumFunction

(* The windows of a data set: what is on disk.                             *)
LEMMA DiskTypes ==
    ASSUME Reading!WindowsAssumption, disk \in Datasets
    PROVE  /\ Len(disk.episodes) \in Nat /\ Reading!Episodes = 1 .. Len(disk.episodes)
           /\ \A e \in Reading!Episodes :
                 /\ Reading!Length(e) \in Nat /\ Reading!Lengths[e] = Reading!Length(e)
                 /\ disk.episodes[e].data \in disk.files /\ disk.episodes[e].video \in disk.files
                 /\ disk.episodes[e].from \in Nat
           /\ Cardinality(disk.files) \in Nat /\ disk.files = 1 .. Cardinality(disk.files)
<1> DEFINE E == [length : Nat, data : disk.files, video : disk.files, from : Nat,
                 excluded : BOOLEAN, damaged : BOOLEAN]
<1>1. /\ IsFiniteSet(disk.files) /\ disk.files = 1 .. Cardinality(disk.files)
      /\ disk.episodes \in Seq(E)
  <2>1. /\ Reading!IsFiniteSet(disk.files) /\ disk.files = 1 .. Reading!Cardinality(disk.files)
        /\ disk.episodes \in Seq(E)
    BY DEF Reading!WindowsAssumption
  <2>2. QED
    BY <2>1, SameLibrary
<1>2. /\ Len(disk.episodes) \in Nat /\ DOMAIN disk.episodes = 1 .. Len(disk.episodes)
      /\ \A e \in DOMAIN disk.episodes : disk.episodes[e] \in E
  <2> HIDE DEF E
  <2>1. QED
    BY <1>1
<1>3. \A e \in DOMAIN disk.episodes : /\ disk.episodes[e].length \in Nat
                                      /\ disk.episodes[e].data \in disk.files
                                      /\ disk.episodes[e].video \in disk.files
                                      /\ disk.episodes[e].from \in Nat
  BY <1>2
<1>4. Cardinality(disk.files) \in Nat
  BY <1>1, FS_CardinalityType
<1>5. QED
  BY <1>1, <1>2, <1>3, <1>4 DEF Reading!Episodes, Reading!Length, Reading!Lengths

(* The rows of an episode lie in their shard from its offset on. *)
LEMMA ShardPlace ==
    ASSUME Reading!WindowsAssumption, disk \in Datasets, NEW field \in {"data", "video"},
           NEW e \in Reading!Episodes, Reading!Length(e) # 0, NEW shard, shard = disk.episodes[e][field]
    PROVE  /\ Reading!FileLocalOffset(e, field) \in Nat
           /\ Reading!Shard(shard, field) \in Seq(Nat \X Nat)
           /\ Reading!FileLocalOffset(e, field) + Reading!Length(e) <= Len(Reading!Shard(shard, field))
           /\ \A t \in 1 .. Reading!Length(e) :
                 Reading!Shard(shard, field)[Reading!FileLocalOffset(e, field) + t] = <<e, t - 1>>
<1> DEFINE N == Len(disk.episodes)
           V == Nat \X Nat
           In(b) == disk.episodes[b][field] = shard
           s == [b \in Reading!Episodes |-> IF In(b) THEN Reading!Recorded(b) ELSE <<>>]
           lens == [b \in Reading!Episodes |-> IF In(b) THEN Reading!Length(b) ELSE 0]
<1>1. N \in Nat /\ Reading!Episodes = 1 .. N /\ \A b \in Reading!Episodes : Reading!Length(b) \in Nat
        /\ Reading!Lengths[b] = Reading!Length(b)
  BY DiskTypes
<1>2. Reading!Shard(shard, field) = FlattenSeq(s)
  BY AddedUp
<1>3. \A b \in Reading!Episodes : Reading!Recorded(b) \in Seq(V)
        /\ Len(Reading!Recorded(b)) = Reading!Length(b)
  <2> SUFFICES ASSUME NEW b \in Reading!Episodes
               PROVE  Reading!Recorded(b) \in Seq(V) /\ Len(Reading!Recorded(b)) = Reading!Length(b)
    OBVIOUS
  <2>1. \A t \in 1 .. Reading!Length(b) : <<b, t - 1>> \in V
    BY <1>1
  <2>2. [t \in 1 .. Reading!Length(b) |-> <<b, t - 1>>] \in [1 .. Reading!Length(b) -> V]
    BY <2>1
  <2>3. Reading!Recorded(b) \in [1 .. Reading!Length(b) -> V]
    BY <2>2 DEF Reading!Recorded
  <2>4. Reading!Length(b) \in Nat
    BY <1>1
  <2> HIDE DEF V
  <2>5. QED
    BY <2>3, <2>4, ListOf
<1>4. \A b \in Reading!Episodes : s[b] \in Seq(V) /\ lens[b] = Len(s[b]) /\ lens[b] \in Nat
  BY <1>1, <1>3
<1>5. s \in Seq(Seq(V)) /\ Len(s) = N /\ DOMAIN s = Reading!Episodes
  <2>1. \A b \in 1 .. N : s[b] \in Seq(V)
    BY <1>1, <1>4
  <2> HIDE DEF V, N
  <2>2. s \in [1 .. N -> Seq(V)]
    BY <1>1, <2>1
  <2>3. QED
    BY <1>1, <2>2, ListOf
<1>6. e \in 1 .. N /\ In(e) /\ s[e] = Reading!Recorded(e) /\ lens[e] = Reading!Length(e)
  BY <1>1
<1> HIDE DEF s, V
<1>7. /\ FlattenSeq(s) \in Seq(V)
      /\ \A j \in 1 .. Len(s[e]) :
            /\ SumFunctionOnSet(lens, 1 .. e - 1) \in Nat
            /\ SumFunctionOnSet(lens, 1 .. e - 1) + j \in 1 .. Len(FlattenSeq(s))
            /\ FlattenSeq(s)[SumFunctionOnSet(lens, 1 .. e - 1) + j] = s[e][j]
  <2>1. \A k \in DOMAIN s : lens[k] = Len(s[k])
    BY <1>4, <1>5
  <2>2. e \in DOMAIN s
    BY <1>1, <1>5, <1>6
  <2> HIDE DEF lens
  <2>3. QED
    BY <1>5, <2>1, <2>2, Flatten
<1>8. SumFunctionOnSet(lens, 1 .. e - 1) = Reading!FileLocalOffset(e, field)
  <2>1. IsFiniteSet(1 .. e - 1) /\ \A b \in 1 .. e - 1 : b \in Reading!Episodes /\ lens[b] \in Int
    <3>1. \A b \in 1 .. e - 1 : b \in Reading!Episodes
      BY <1>1, <1>6
    <3>2. \A b \in 1 .. e - 1 : lens[b] \in Int
      BY <1>4, <3>1
    <3>3. IsFiniteSet(1 .. e - 1)
      BY <1>1, <1>6, FS_Interval
    <3>4. QED
      BY <3>1, <3>2, <3>3
  <2>2. Reading!Before(e, field) \in SUBSET (1 .. e - 1)
          /\ \A b \in 1 .. e - 1 : b \in Reading!Before(e, field) <=> In(b)
    BY DEF Reading!Before
  <2>3. \A b \in Reading!Before(e, field) : lens[b] \in Int /\ Reading!Lengths[b] = lens[b]
    BY <1>1, <2>1, <2>2
  <2>4. \A b \in (1 .. e - 1) \ Reading!Before(e, field) : lens[b] = 0
    BY <2>1, <2>2
  <2>5. IsFiniteSet(Reading!Before(e, field)) /\ IsFiniteSet((1 .. e - 1) \ Reading!Before(e, field))
    BY <2>1, <2>2, FS_Subset
  <2> HIDE DEF lens, In
  <2>6. SumFunctionOnSet(lens, 1 .. e - 1)
           = SumFunctionOnSet(lens, Reading!Before(e, field))
             + SumFunctionOnSet(lens, (1 .. e - 1) \ Reading!Before(e, field))
    BY <2>1, <2>2, SumSplit
  <2>7. SumFunctionOnSet(lens, (1 .. e - 1) \ Reading!Before(e, field)) = 0
    BY <2>4, <2>5, SumZero
  <2>8. SumFunctionOnSet(Reading!Lengths, Reading!Before(e, field))
            = SumFunctionOnSet(lens, Reading!Before(e, field))
    BY <2>3, <2>5, SumEqual
  <2>9. SumFunctionOnSet(lens, Reading!Before(e, field)) \in Int
    BY <2>3, <2>5, SumType
  <2>10. QED
    BY <2>6, <2>7, <2>8, <2>9, AddedUp
<1>9. Len(s[e]) = Reading!Length(e) /\ Reading!Length(e) \in Nat \ {0}
        /\ \A t \in 1 .. Reading!Length(e) : s[e][t] = <<e, t - 1>>
  BY <1>1, <1>3, <1>6 DEF Reading!Recorded
<1>10. \A t \in 1 .. Reading!Length(e) : /\ Reading!FileLocalOffset(e, field) \in Nat
                                 /\ Reading!FileLocalOffset(e, field) + t \in 1 .. Len(FlattenSeq(s))
                                 /\ FlattenSeq(s)[Reading!FileLocalOffset(e, field) + t] = <<e, t - 1>>
  BY <1>7, <1>8, <1>9
<1>11. Reading!Length(e) \in 1 .. Reading!Length(e)
  BY <1>9
<1> HIDE DEF lens, In
<1>12. Len(FlattenSeq(s)) \in Nat
  BY <1>7
<1>13. Reading!FileLocalOffset(e, field) \in Nat
         /\ Reading!FileLocalOffset(e, field) + Reading!Length(e) <= Len(FlattenSeq(s))
  BY <1>9, <1>10, <1>11, <1>12
<1>14. QED
  BY <1>2, <1>7, <1>10, <1>13 DEF V

(* The length of a shard is that of its episodes. *)
OfShard(f) == {b \in Reading!Episodes : disk.episodes[b].data = f}

LEMMA ShardRowsAre ==
    ASSUME Reading!WindowsAssumption, disk \in Datasets, NEW f
    PROVE  Reading!ShardRows(f) = SumFunctionOnSet(Reading!Lengths, OfShard(f))
             /\ Reading!ShardRows(f) \in Nat
<1> DEFINE N == Len(disk.episodes)
           V == Nat \X Nat
           In(b) == disk.episodes[b].data = f
           s == [b \in Reading!Episodes |-> IF disk.episodes[b]["data"] = f
                                            THEN Reading!Recorded(b) ELSE <<>>]
           lens == [b \in Reading!Episodes |-> IF In(b) THEN Reading!Length(b) ELSE 0]
<1>1. N \in Nat /\ Reading!Episodes = 1 .. N /\ \A b \in Reading!Episodes : Reading!Length(b) \in Nat
        /\ Reading!Lengths[b] = Reading!Length(b)
  BY DiskTypes
<1>2. Reading!Shard(f, "data") = FlattenSeq(s)
  BY AddedUp
<1>3. \A b \in Reading!Episodes : Reading!Recorded(b) \in Seq(V)
        /\ Len(Reading!Recorded(b)) = Reading!Length(b)
  <2> SUFFICES ASSUME NEW b \in Reading!Episodes
               PROVE  Reading!Recorded(b) \in Seq(V) /\ Len(Reading!Recorded(b)) = Reading!Length(b)
    OBVIOUS
  <2>1. \A t \in 1 .. Reading!Length(b) : <<b, t - 1>> \in V
    BY <1>1
  <2>2. [t \in 1 .. Reading!Length(b) |-> <<b, t - 1>>] \in [1 .. Reading!Length(b) -> V]
    BY <2>1
  <2>3. Reading!Recorded(b) \in [1 .. Reading!Length(b) -> V]
    BY <2>2 DEF Reading!Recorded
  <2>4. Reading!Length(b) \in Nat
    BY <1>1
  <2> HIDE DEF V
  <2>5. QED
    BY <2>3, <2>4, ListOf
<1>4. \A b \in Reading!Episodes : s[b] \in Seq(V) /\ lens[b] = Len(s[b]) /\ lens[b] \in Nat
  BY <1>1, <1>3
<1>5. s \in Seq(Seq(V)) /\ Len(s) = N /\ DOMAIN s = Reading!Episodes
  <2>1. \A b \in 1 .. N : s[b] \in Seq(V)
    BY <1>1, <1>4
  <2> HIDE DEF V, N
  <2>2. s \in [1 .. N -> Seq(V)]
    BY <1>1, <2>1
  <2>3. QED
    BY <1>1, <2>2, ListOf
<1> HIDE DEF s, V
<1>6. Len(FlattenSeq(s)) = SumFunctionOnSet(lens, Reading!Episodes)
  <2>1. \A k \in DOMAIN s : lens[k] = Len(s[k])
    BY <1>4, <1>5
  <2> HIDE DEF lens
  <2>2. Len(FlattenSeq(s)) = SumFunctionOnSet(lens, 1 .. Len(s))
    BY <1>5, <2>1, Flatten
  <2>3. 1 .. Len(s) = Reading!Episodes
    BY <1>1, <1>5
  <2>4. QED
    BY <2>2, <2>3
<1>7. IsFiniteSet(Reading!Episodes) /\ OfShard(f) \in SUBSET Reading!Episodes
  BY <1>1, FS_Interval DEF OfShard
<1>8. IsFiniteSet(OfShard(f)) /\ IsFiniteSet(Reading!Episodes \ OfShard(f))
  BY <1>7, FS_Subset
<1>9. /\ \A b \in Reading!Episodes : lens[b] \in Int
      /\ \A b \in OfShard(f) : lens[b] \in Nat /\ Reading!Lengths[b] = lens[b]
      /\ \A b \in Reading!Episodes \ OfShard(f) : lens[b] = 0
  BY <1>1, <1>4, <1>7 DEF OfShard
<1> HIDE DEF lens, In
<1>10. SumFunctionOnSet(lens, Reading!Episodes)
         = SumFunctionOnSet(lens, OfShard(f)) + SumFunctionOnSet(lens, Reading!Episodes \ OfShard(f))
  BY <1>7, <1>9, SumSplit
<1>11. SumFunctionOnSet(lens, Reading!Episodes \ OfShard(f)) = 0
  BY <1>8, <1>9, SumZero
<1>12. SumFunctionOnSet(Reading!Lengths, OfShard(f)) = SumFunctionOnSet(lens, OfShard(f))
  <2>1. \A b \in OfShard(f) : lens[b] \in Int /\ Reading!Lengths[b] = lens[b]
    BY <1>9
  <2>2. QED
    BY <1>8, <2>1, SumEqual
<1>13. SumFunctionOnSet(lens, OfShard(f)) \in Nat
  BY <1>8, <1>9, SumNat
<1>14. QED
  BY <1>2, <1>6, <1>10, <1>11, <1>12, <1>13 DEF Reading!ShardRows

(* The shards before one hold the episodes of the shards before it. *)
Earlier(f) == {b \in Reading!Episodes : disk.episodes[b].data < f}

LEMMA ShardStarts ==
    ASSUME Reading!WindowsAssumption, disk \in Datasets, NEW f \in disk.files
    PROVE  Reading!ShardStart(f) = SumFunctionOnSet(Reading!Lengths, Earlier(f))
<1> DEFINE n == Cardinality(disk.files)
           rows == [g \in disk.files |-> Reading!ShardRows(g)]
           S == {k \in Nat : k < n =>
                     SumFunctionOnSet(rows, 1 .. k) = SumFunctionOnSet(Reading!Lengths, Earlier(k + 1))}
<1>1. /\ n \in Nat /\ disk.files = 1 .. n /\ Len(disk.episodes) \in Nat
           /\ Reading!Episodes = 1 .. Len(disk.episodes)
      /\ \A b \in Reading!Episodes : Reading!Lengths[b] \in Nat /\ disk.episodes[b].data \in 1 .. n
  BY DiskTypes
<1>2. \A g \in 1 .. n : rows[g] = SumFunctionOnSet(Reading!Lengths, OfShard(g)) /\ rows[g] \in Nat
  BY <1>1, ShardRowsAre
<1>3. IsFiniteSet(Reading!Episodes)
  BY <1>1, FS_Interval
<1> HIDE DEF n, rows
<1>4. 0 \in S
  <2>1. 1 .. 0 = {} /\ Earlier(0 + 1) = {}
    BY <1>1 DEF Earlier
  <2>2. QED
    BY <2>1, SumEmpty
<1>5. ASSUME NEW k \in Nat, k \in S PROVE k + 1 \in S
  <2> SUFFICES ASSUME k + 1 < n
               PROVE  SumFunctionOnSet(rows, 1 .. k + 1)
                          = SumFunctionOnSet(Reading!Lengths, Earlier((k + 1) + 1))
    OBVIOUS
  <2>1. SumFunctionOnSet(rows, 1 .. k) = SumFunctionOnSet(Reading!Lengths, Earlier(k + 1))
    BY <1>1, <1>5
  <2>2. SumFunctionOnSet(rows, 1 .. k + 1) = SumFunctionOnSet(rows, 1 .. k) + rows[k + 1]
    <3>1. \A g \in 1 .. k + 1 : rows[g] \in Int
      BY <1>1, <1>2
    <3>2. QED
      BY <3>1, SumUpto
  <2>3. rows[k + 1] = SumFunctionOnSet(Reading!Lengths, OfShard(k + 1))
    BY <1>1, <1>2
  <2>4. /\ Earlier((k + 1) + 1) \in SUBSET Reading!Episodes /\ Earlier(k + 1) \in SUBSET Earlier((k + 1) + 1)
        /\ Earlier((k + 1) + 1) \ Earlier(k + 1) = OfShard(k + 1)
    <3>1. \A b \in Reading!Episodes : disk.episodes[b].data \in Nat
      BY <1>1
    <3>2. QED
      BY <3>1 DEF Earlier, OfShard
  <2>5. IsFiniteSet(Earlier((k + 1) + 1)) /\ \A b \in Earlier((k + 1) + 1) : Reading!Lengths[b] \in Int
    BY <1>1, <1>3, <2>4, FS_Subset
  <2>6. SumFunctionOnSet(Reading!Lengths, Earlier((k + 1) + 1))
          = SumFunctionOnSet(Reading!Lengths, Earlier(k + 1))
            + SumFunctionOnSet(Reading!Lengths, OfShard(k + 1))
    BY <2>4, <2>5, SumSplit
  <2>7. QED
    BY <2>1, <2>2, <2>3, <2>6
<1> HIDE DEF S
<1>6. f - 1 \in S /\ f \in Nat /\ f - 1 < n /\ (f - 1) + 1 = f
  <2>1. Nat \subseteq S
    BY <1>4, <1>5, Inductive
  <2>2. QED
    BY <1>1, <2>1
<1>7. SumFunctionOnSet(rows, 1 .. f - 1) = SumFunctionOnSet(Reading!Lengths, Earlier(f))
  BY <1>6 DEF S
<1>8. QED
  BY <1>7, AddedUp DEF rows

(* VLABench: with episodes packed in order, the shard that is found by the *)
(* real numbers of rows is the one an episode is in, and the row too.      *)
LEMMA Repaired ==
    ASSUME Reading!WindowsAssumption, disk \in Datasets, Reading!InOrder(disk), NEW e \in Reading!Episodes,
           Reading!Length(e) # 0
    PROVE  /\ Reading!RepairedShard(e) = disk.episodes[e].data
           /\ Reading!GlobalStart(e) - Reading!ShardStart(Reading!RepairedShard(e))
                  = Reading!FileLocalOffset(e, "data")
<1> DEFINE f == disk.episodes[e].data
           Sum(S) == SumFunctionOnSet(Reading!Lengths, S)
<1>1. /\ f \in disk.files /\ Cardinality(disk.files) \in Nat /\ disk.files = 1 .. Cardinality(disk.files)
      /\ Len(disk.episodes) \in Nat /\ Reading!Episodes = 1 .. Len(disk.episodes)
      /\ \A b \in Reading!Episodes : Reading!Lengths[b] \in Nat /\ disk.episodes[b].data \in disk.files
      /\ Reading!Lengths[e] \in Nat \ {0}
  BY DiskTypes
<1>2. \A b \in Reading!Episodes : disk.episodes[b].data \in Nat
  BY <1>1
<1>3. IsFiniteSet(Reading!Episodes) /\ e \in Nat
  <2>1. e \in Nat
    BY <1>1
  <2>2. IsFiniteSet(Reading!Episodes)
    <3>1. Len(disk.episodes) \in Nat /\ Reading!Episodes = 1 .. Len(disk.episodes)
      BY <1>1
    <3>2. QED
      BY <3>1, FS_Interval
  <2>3. QED
    BY <1>1, <2>1, <2>2
<1>4. \A a, b \in Reading!Episodes : a < b => disk.episodes[a].data <= disk.episodes[b].data
  BY DEF Reading!InOrder, Reading!Episodes
<1>5. /\ 1 .. e - 1 \in SUBSET Reading!Episodes /\ e \notin 1 .. e - 1
      /\ (1 .. e - 1) \cup {e} \in SUBSET Reading!Episodes
  BY <1>1
<1>6. Earlier(f) \in SUBSET (1 .. e - 1)
  <2>1. ASSUME NEW b \in Earlier(f) PROVE b \in 1 .. e - 1
    <3>1. b \in Reading!Episodes /\ disk.episodes[b].data < f
      BY DEF Earlier
    <3>2. b \in Nat /\ b >= 1 /\ ~(e < b) /\ b # e
      BY <1>1, <1>2, <1>4, <3>1
    <3>3. QED
      BY <1>3, <3>2
  <2>2. QED
    BY <2>1
<1>7. (1 .. e - 1) \ Earlier(f) = Reading!Before(e, "data")
  <2>1. ASSUME NEW b \in 1 .. e - 1 PROVE b \notin Earlier(f) <=> disk.episodes[b].data = f
    <3>1. b \in Reading!Episodes /\ b < e
      BY <1>3, <1>5
    <3>2. disk.episodes[b].data <= f /\ disk.episodes[b].data \in Nat /\ f \in Nat
      BY <1>2, <1>4, <3>1
    <3>3. QED
      BY <3>1, <3>2 DEF Earlier
  <2>2. QED
    BY <2>1 DEF Reading!Before
<1>8. /\ Sum(1 .. e - 1) = Sum(Earlier(f)) + Sum(Reading!Before(e, "data"))
      /\ Sum(Reading!Before(e, "data")) \in Nat /\ Sum(1 .. e - 1) \in Nat /\ Sum(Earlier(f)) \in Nat
  <2>1. /\ IsFiniteSet(1 .. e - 1) /\ \A b \in 1 .. e - 1 : Reading!Lengths[b] \in Nat
        /\ Reading!Before(e, "data") \in SUBSET (1 .. e - 1)
    <3>1. IsFiniteSet(1 .. e - 1)
      BY <1>3, <1>5, FS_Subset
    <3>2. \A b \in 1 .. e - 1 : Reading!Lengths[b] \in Nat
      BY <1>1, <1>5
    <3>3. QED
      BY <1>7, <3>1, <3>2
  <2>2. \A b \in 1 .. e - 1 : Reading!Lengths[b] \in Int
    BY <2>1
  <2>3. Sum(1 .. e - 1) = Sum(Earlier(f)) + Sum((1 .. e - 1) \ Earlier(f))
    BY <1>6, <2>1, <2>2, SumSplit
  <2>4. Sum(Reading!Before(e, "data")) \in Nat /\ Sum(Earlier(f)) \in Nat /\ Sum(1 .. e - 1) \in Nat
    BY <1>6, <2>1, SumPart
  <2>5. QED
    BY <1>7, <2>3, <2>4
<1>9. Reading!GlobalStart(e) = Sum(1 .. e - 1) /\ Reading!ShardStart(f) = Sum(Earlier(f))
      /\ Reading!FileLocalOffset(e, "data") = Sum(Reading!Before(e, "data"))
  BY <1>1, ShardStarts, AddedUp
<1>10. ASSUME NEW g \in disk.files, Reading!ShardStart(g) <= Reading!GlobalStart(e) PROVE g <= f
  <2> SUFFICES ASSUME g > f PROVE FALSE
    BY <1>1
  <2>1. Sum((1 .. e - 1) \cup {e}) = Reading!Lengths[e] + Sum(1 .. e - 1)
    <3>1. IsFiniteSet(1 .. e - 1) /\ \A b \in (1 .. e - 1) \cup {e} : Reading!Lengths[b] \in Int
      BY <1>1, <1>3, <1>5, FS_Subset
    <3>2. QED
      BY <1>5, <3>1, SumAdd
  <2>2. (1 .. e - 1) \cup {e} \in SUBSET Earlier(g)
    <3>1. ASSUME NEW b \in (1 .. e - 1) \cup {e} PROVE b \in Earlier(g)
      <4>1. b \in Reading!Episodes /\ (b < e \/ b = e)
        BY <1>3, <1>5
      <4>2. disk.episodes[b].data <= f /\ disk.episodes[b].data \in Nat /\ f \in Nat /\ g \in Nat
        BY <1>1, <1>2, <1>4, <4>1, SMTT(30)
      <4>3. QED
        BY <4>1, <4>2 DEF Earlier
    <3>2. QED
      BY <3>1
  <2>3. Sum((1 .. e - 1) \cup {e}) <= Sum(Earlier(g)) /\ Sum(Earlier(g)) \in Nat
    <3>1. IsFiniteSet(Earlier(g)) /\ \A b \in Earlier(g) : Reading!Lengths[b] \in Nat
      BY <1>1, <1>3, FS_Subset DEF Earlier
    <3>2. QED
      BY <2>2, <3>1, SumPart, SumNat
  <2>4. Reading!ShardStart(g) = Sum(Earlier(g))
    BY ShardStarts
  <2>5. Sum(Earlier(g)) <= Sum(1 .. e - 1)
    BY <1>9, <1>10, <2>4
  <2>6. Reading!Lengths[e] \in Nat /\ Reading!Lengths[e] # 0
    BY <1>1
  <2>7. Sum(1 .. e - 1) \in Nat
    BY <1>8
  <2> HIDE DEF Sum
  <2>8. QED
    BY <2>1, <2>3, <2>5, <2>6, <2>7
<1>11. Reading!ShardStart(f) <= Reading!GlobalStart(e)
  BY <1>8, <1>9
<1>12. Reading!RepairedShard(e) = f
  <2> DEFINE P(h) == /\ Reading!ShardStart(h) <= Reading!GlobalStart(e)
                     /\ \A g \in disk.files : Reading!ShardStart(g) <= Reading!GlobalStart(e) => g <= h
  <2>1. f \in disk.files /\ P(f)
    BY <1>1, <1>10, <1>11
  <2>2. ASSUME NEW h \in disk.files, P(h) PROVE h = f
    <3>1. h <= f /\ f <= h
      BY <1>10, <1>11, <1>1, <2>2
    <3>2. QED
      BY <1>1, <3>1
  <2>3. Reading!RepairedShard(e) = CHOOSE h \in disk.files : P(h)
    BY DEF Reading!RepairedShard
  <2> HIDE DEF P
  <2>4. QED
    BY <2>1, <2>2, <2>3
<1>13. QED
  BY <1>8, <1>9, <1>12
-----------------------------------------------------------------------------
(* The windows of the index.                                               *)
ReaderTypes ==
    reader \in [kind : Reading!Kinds, split : {"train", "val"}, stride : Nat \ {0}, vstride : Nat \ {0}]

(* What is read ahead of a window's last row: pairs need a next row.       *)
Pairs == {"relabeled", "ebench", "robocasa", "robotwin", "robodojo"}

(* Up to x there are x \div s multiples of s, beside 0.                     *)
LEMMA Multiples ==
    ASSUME NEW s \in Nat \ {0}, NEW x \in Nat, NEW k \in Nat, k <= x \div s
    PROVE  k * s \in Nat /\ k * s <= x
<1>1. x \div s \in Nat /\ x = s * (x \div s) + (x % s) /\ x % s \in Nat
  OBVIOUS
<1> DEFINE d == x \div s
<1>2. k * s \in Nat /\ d * s \in Nat /\ k * s <= d * s
  <2>1. d - k \in Nat /\ d \in Nat
    BY <1>1
  <2> HIDE DEF d
  <2>2. (d - k) * s \in Nat /\ k * s \in Nat /\ d * s \in Nat
    BY <2>1
  <2>3. d * s = k * s + (d - k) * s
    BY <2>1
  <2>4. QED
    BY <2>2, <2>3
<1>3. s * d = d * s
  BY <1>1
<1> HIDE DEF d
<1>4. QED
  BY <1>1, <1>2, <1>3 DEF d

(* The k-th window of an episode of n rows begins inside it, with a next   *)
(* row where one is needed.                                                *)
LEMMA StartsInside ==
    ASSUME Reading!WindowsAssumption, ReaderTypes, NEW n \in Nat
    PROVE  /\ Reading!Starts(n) \in Nat
           /\ \A k \in Nat : k < Reading!Starts(n) =>
                 /\ k * reader.stride \in Nat /\ k * reader.stride < n
                 /\ reader.kind \in Pairs => k * reader.stride + 2 <= n
           /\ reader.split = "train" /\ reader.stride = 1 =>
                 \A o \in Nat : o <= n - Reading!MinLength => o < Reading!Starts(n)
<1> DEFINE s == reader.stride
<1>1. /\ s \in Nat \ {0} /\ WindowFrames \in Nat /\ WindowFrames >= 2
      /\ reader.kind \in Reading!Kinds /\ reader.split \in {"train", "val"}
  BY DEF ReaderTypes, Reading!WindowsAssumption
<1> DEFINE slack == IF reader.kind \in {"lerobot", "vlabench"} THEN 1 ELSE 2
<1>2. Reading!MinLength \in Nat /\ Reading!MinLength >= slack
        /\ (reader.split = "train" => Reading!MinLength = slack)
  BY <1>1 DEF Reading!MinLength, Reading!Kinds, Reading!Family
<1>4. slack \in {1, 2} /\ (reader.kind \in Pairs => slack = 2)
  BY DEF Pairs
<1>3. PICK x \in Nat : /\ Reading!Starts(n) = (IF n < slack THEN 0 ELSE x \div s + 1) \/ Reading!Starts(n) = 0
                       /\ n >= slack => x <= n - slack
                       /\ reader.split = "train" /\ n >= slack =>
                             x = n - slack /\ Reading!Starts(n) = x \div s + 1
  <2>1. CASE reader.kind \in Reading!Family \cup {"ebench"}
    <3>1. Reading!Starts(n) = Reading!FamilyStarts(n)
      BY <2>1 DEF Reading!Starts, Reading!Family
    <3>2. CASE n >= Reading!MinLength
      <4> DEFINE d == n - Reading!MinLength
      <4>1. Reading!Starts(n) = d \div s + 1 /\ d \in Nat
        BY <1>1, <1>2, <3>1, <3>2 DEF Reading!FamilyStarts
      <4>2. n >= slack /\ d <= n - slack
        BY <1>2, <3>2
      <4>3. reader.split = "train" => d = n - slack
        BY <1>2
      <4> HIDE DEF slack, d
      <4>4. /\ Reading!Starts(n) = (IF n < slack THEN 0 ELSE d \div s + 1)
            /\ n >= slack => d <= n - slack
            /\ reader.split = "train" /\ n >= slack => d = n - slack /\ Reading!Starts(n) = d \div s + 1
        BY <1>2, <1>4, <4>1, <4>2, <4>3
      <4>5. QED
        BY <4>1, <4>4
    <3>3. CASE ~(n >= Reading!MinLength)
      <4>1. Reading!Starts(n) = 0
        BY <3>1, <3>3 DEF Reading!FamilyStarts
      <4>2. reader.split = "train" => ~(n >= slack)
        BY <1>2, <3>3
      <4>3. n >= slack => 0 <= n - slack
        OBVIOUS
      <4> HIDE DEF slack
      <4>4. 0 \in Nat
        OBVIOUS
      <4>5. QED
        BY <4>1, <4>2, <4>3, <4>4
    <3>4. QED
      BY <3>2, <3>3
  <2>2. CASE reader.kind \in {"robotwin", "robocasa"}
    <3> DEFINE last == Reading!Most(0, n - IF reader.split = "val" THEN WindowFrames ELSE 2)
    <3>1. Reading!Starts(n) = Reading!RangedStarts(n)
      BY <2>2 DEF Reading!Starts, Reading!Family
    <3>2. last \in Nat /\ slack = 2 /\ (n >= 2 => last <= n - 2)
          /\ (reader.split = "train" /\ n >= 2 => last = n - 2)
      BY <1>1, <2>2 DEF Reading!Most
    <3>3. Reading!Starts(n) = IF n < 2 THEN 0 ELSE last \div s + 1
      BY <3>1 DEF Reading!RangedStarts
    <3> HIDE DEF last, slack
    <3>4. QED
      BY <3>2, <3>3
  <2>3. CASE reader.kind = "robodojo"
    <3>1. Reading!Starts(n) = (IF n < 2 THEN 0 ELSE (n - 2) \div s + 1) /\ slack = 2
      BY <2>3 DEF Reading!Starts, Reading!DojoStarts, Reading!Family
    <3>2. n >= 2 => n - 2 \in Nat
      OBVIOUS
    <3> HIDE DEF slack
    <3>3. CASE n >= 2
      BY <3>1, <3>2, <3>3
    <3>4. CASE n < 2
      <4>1. 0 \in Nat
        OBVIOUS
      <4>2. QED
        BY <3>1, <3>4, <4>1
    <3>5. QED
      BY <3>3, <3>4
  <2>4. QED
    BY <1>1, <2>1, <2>2, <2>3 DEF Reading!Kinds, Reading!Family
<1> HIDE DEF slack
<1>5. x \div s \in Nat
  BY <1>1
<1>6. Reading!Starts(n) \in Nat
  BY <1>3, <1>5
<1>7. ASSUME NEW k \in Nat, k < Reading!Starts(n)
      PROVE  k * s \in Nat /\ k * s < n /\ (reader.kind \in Pairs => k * s + 2 <= n)
  <2>1. n >= slack /\ x <= n - slack /\ k <= x \div s
    BY <1>3, <1>4, <1>5, <1>7
  <2>2. k * s \in Nat /\ k * s <= x
    BY <1>1, <2>1, Multiples
  <2> DEFINE m == k * s
  <2> HIDE DEF m
  <2>3. m \in Nat /\ m <= x
    BY <2>2 DEF m
  <2>4. m < n /\ (slack = 2 => m + 2 <= n)
    BY <1>4, <2>1, <2>3
  <2>5. QED
    BY <1>4, <2>2, <2>4 DEF m
<1>8. ASSUME reader.split = "train", reader.stride = 1, NEW o \in Nat, o <= n - Reading!MinLength
      PROVE  o < Reading!Starts(n)
  <2>1. Reading!MinLength = slack /\ n >= slack
    BY <1>2, <1>4, <1>8
  <2>2. x = n - slack /\ Reading!Starts(n) = x \div 1 + 1
    BY <1>3, <1>8, <2>1
  <2>3. x \div 1 = x
    BY <2>2
  <2>4. QED
    BY <1>4, <1>8, <2>1, <2>2, <2>3
<1>9. QED
  BY <1>6, <1>7, <1>8

(* The index once it is built: one row for every admitted episode.         *)
LEMMA IndexIs ==
    ASSUME Reading!WindowsAssumption, ReaderTypes, disk \in Datasets, index = Reading!EpisodeIndex
    PROVE  /\ DOMAIN index = Reading!Admitted /\ Reading!Admitted \in SUBSET Reading!Episodes
                /\ IsFiniteSet(Reading!Admitted)
           /\ \A e \in Reading!Admitted :
                 /\ e \in Nat /\ Reading!Length(e) \in Nat
                 /\ index[e].length = Reading!Length(e)
                      /\ Reading!WindowCounts[e] = Reading!Starts(Reading!Length(e))
                 /\ index[e].places.data = Reading!DataOffsets(e)
                      /\ index[e].places.video = Reading!VideoOffsets(e)
                 /\ Reading!WindowCounts[e] \in Nat /\ Reading!FirstWindow(e) \in Nat
           /\ Reading!Windows = SumFunctionOnSet(Reading!WindowCounts, Reading!Admitted)
                /\ Reading!Windows \in Nat
<1>1. DOMAIN index = Reading!Admitted /\ Reading!Admitted \in SUBSET Reading!Episodes
  BY DEF Reading!EpisodeIndex, Reading!Admitted
<1>2. /\ Reading!Episodes = 1 .. Len(disk.episodes) /\ Len(disk.episodes) \in Nat
      /\ \A e \in Reading!Episodes : Reading!Length(e) \in Nat
  BY DiskTypes
<1>3. IsFiniteSet(Reading!Admitted)
  <2>1. IsFiniteSet(Reading!Episodes)
    BY <1>2, FS_Interval
  <2>2. QED
    BY <1>1, <2>1, FS_Subset
<1>4. \A e \in Reading!Admitted : /\ e \in Nat /\ Reading!Length(e) \in Nat
                          /\ index[e].length = Reading!Length(e)
                          /\ index[e].places.data = Reading!DataOffsets(e)
                               /\ index[e].places.video = Reading!VideoOffsets(e)
  BY <1>1, <1>2 DEF Reading!EpisodeIndex, Reading!Row
<1>5. \A e \in Reading!Admitted : Reading!WindowCounts[e] = Reading!Starts(Reading!Length(e))
  BY <1>1, <1>4 DEF Reading!WindowCounts
<1>6. \A e \in Reading!Admitted : Reading!WindowCounts[e] \in Nat
  BY <1>4, <1>5, StartsInside
<1>7. DOMAIN Reading!WindowCounts = Reading!Admitted
  BY <1>1 DEF Reading!WindowCounts
<1>8. \A e \in Reading!Admitted : Reading!FirstWindow(e) \in Nat
  <2> TAKE e \in Reading!Admitted
  <2>1. {b \in DOMAIN index : b < e} \in SUBSET Reading!Admitted
    BY <1>1
  <2>2. QED
    BY <1>3, <1>6, <2>1, SumPart, AddedUp
<1>9. Reading!Windows = SumFunctionOnSet(Reading!WindowCounts, Reading!Admitted)
  BY <1>7, AddedUp
<1>10. Reading!Windows \in Nat
  BY <1>3, <1>6, <1>9, SumNat
<1>11. QED
  BY <1>1, <1>3, <1>4, <1>5, <1>6, <1>8, <1>9, <1>10

(* The windows of an episode end where those of a later one begin, at the  *)
(* latest.                                                                 *)
LEMMA WindowsApart ==
    ASSUME Reading!WindowsAssumption, ReaderTypes, disk \in Datasets, index = Reading!EpisodeIndex,
           NEW e \in Reading!Admitted
    PROVE  /\ \A g \in Reading!Admitted : e < g
                => Reading!FirstWindow(e) + Reading!WindowCounts[e] <= Reading!FirstWindow(g)
           /\ Reading!FirstWindow(e) + Reading!WindowCounts[e] <= Reading!Windows
<1> DEFINE B(g) == {b \in DOMAIN index : b < g}
<1>1. /\ DOMAIN index = Reading!Admitted /\ IsFiniteSet(Reading!Admitted)
           /\ Reading!Windows = SumFunctionOnSet(Reading!WindowCounts, Reading!Admitted)
      /\ \A g \in Reading!Admitted : g \in Nat /\ Reading!WindowCounts[g] \in Nat
           /\ Reading!FirstWindow(g) \in Nat
  BY IndexIs
<1>2. B(e) \cup {e} \in SUBSET Reading!Admitted /\ e \notin B(e) /\ IsFiniteSet(B(e))
  <2>1. B(e) \in SUBSET Reading!Admitted /\ e \notin B(e)
    BY <1>1
  <2>2. QED
    BY <1>1, <2>1, FS_Subset
<1>3. SumFunctionOnSet(Reading!WindowCounts, B(e) \cup {e})
          = Reading!WindowCounts[e] + SumFunctionOnSet(Reading!WindowCounts, B(e))
  <2>1. \A y \in B(e) \cup {e} : Reading!WindowCounts[y] \in Int
    BY <1>1, <1>2
  <2> HIDE DEF B
  <2>2. QED
    BY <1>2, <2>1, SumAdd
<1>4. \A g : Reading!FirstWindow(g) = SumFunctionOnSet(Reading!WindowCounts, B(g))
  BY AddedUp
<1>5. Reading!WindowCounts[e] \in Nat /\ Reading!FirstWindow(e) \in Nat
  BY <1>1
<1>6. Reading!FirstWindow(e) + Reading!WindowCounts[e] = SumFunctionOnSet(Reading!WindowCounts, B(e) \cup {e})
  <2> HIDE DEF B
  <2>1. QED
    BY <1>3, <1>4, <1>5
<1>7. ASSUME NEW g \in Reading!Admitted, e < g
      PROVE  SumFunctionOnSet(Reading!WindowCounts, B(e) \cup {e}) <= Reading!FirstWindow(g)
  <2>1. B(e) \cup {e} \in SUBSET B(g) /\ B(g) \in SUBSET Reading!Admitted
    BY <1>1, <1>7
  <2>2. IsFiniteSet(B(g)) /\ \A y \in B(g) : Reading!WindowCounts[y] \in Nat
    BY <1>1, <2>1, FS_Subset
  <2> HIDE DEF B
  <2>3. QED
    BY <1>4, <2>1, <2>2, SumPart
<1>8. SumFunctionOnSet(Reading!WindowCounts, B(e) \cup {e}) <= Reading!Windows
  <2>1. \A y \in Reading!Admitted : Reading!WindowCounts[y] \in Nat
    BY <1>1
  <2> HIDE DEF B
  <2>2. QED
    BY <1>1, <1>2, <2>1, SumPart
<1>9. QED
  BY <1>6, <1>7, <1>8

(* Every window is one of an admitted episode.                             *)
LEMMA WindowFound ==
    ASSUME Reading!WindowsAssumption, ReaderTypes, disk \in Datasets, index = Reading!EpisodeIndex,
           NEW w \in 0 .. Reading!Windows - 1
    PROVE  /\ Reading!EpisodeOf(w) \in Reading!Admitted
           /\ Reading!FirstWindow(Reading!EpisodeOf(w)) <= w
           /\ w < Reading!FirstWindow(Reading!EpisodeOf(w)) + Reading!WindowCounts[Reading!EpisodeOf(w)]
<1> DEFINE N == Len(disk.episodes)
           f == [k \in 1 .. N |-> IF k \in Reading!Admitted THEN Reading!WindowCounts[k] ELSE 0]
           P(e) == Reading!FirstWindow(e) <= w /\ w < Reading!FirstWindow(e) + Reading!WindowCounts[e]
<1>1. /\ DOMAIN index = Reading!Admitted /\ Reading!Admitted \in SUBSET Reading!Episodes
      /\ IsFiniteSet(Reading!Admitted)
           /\ Reading!Windows = SumFunctionOnSet(Reading!WindowCounts, Reading!Admitted)
           /\ Reading!Windows \in Nat
      /\ \A g \in Reading!Admitted : g \in Nat /\ Reading!WindowCounts[g] \in Nat
           /\ Reading!FirstWindow(g) \in Nat
  BY IndexIs
<1>2. N \in Nat /\ Reading!Episodes = 1 .. N
  BY DiskTypes
<1>3. /\ \A k \in 1 .. N : f[k] \in Nat
      /\ \A k \in Reading!Admitted : k \in 1 .. N /\ f[k] = Reading!WindowCounts[k]
      /\ \A k \in (1 .. N) \ Reading!Admitted : f[k] = 0
  BY <1>1, <1>2
<1> HIDE DEF f, N
<1>4. ASSUME NEW S \in SUBSET (1 .. N)
      PROVE  SumFunctionOnSet(f, S) = SumFunctionOnSet(Reading!WindowCounts, S \cap Reading!Admitted)
  <2>1. IsFiniteSet(S) /\ S \cap Reading!Admitted \in SUBSET S
    <3>1. IsFiniteSet(1 .. N)
      BY <1>2, FS_Interval
    <3>2. QED
      BY <3>1, FS_Subset
  <2>2. IsFiniteSet(S \cap Reading!Admitted) /\ IsFiniteSet(S \ (S \cap Reading!Admitted))
    BY <2>1, FS_Subset
  <2>3. /\ \A k \in S : f[k] \in Int
        /\ \A k \in S \cap Reading!Admitted : f[k] \in Int /\ Reading!WindowCounts[k] = f[k]
        /\ \A k \in S \ (S \cap Reading!Admitted) : f[k] = 0
    BY <1>3
  <2>4. SumFunctionOnSet(f, S)
            = SumFunctionOnSet(f, S \cap Reading!Admitted)
              + SumFunctionOnSet(f, S \ (S \cap Reading!Admitted))
    BY <2>1, <2>3, SumSplit
  <2>5. SumFunctionOnSet(f, S \ (S \cap Reading!Admitted)) = 0
    BY <2>2, <2>3, SumZero
  <2>6. SumFunctionOnSet(Reading!WindowCounts, S \cap Reading!Admitted)
            = SumFunctionOnSet(f, S \cap Reading!Admitted)
    BY <2>2, <2>3, SumEqual
  <2>7. SumFunctionOnSet(f, S \cap Reading!Admitted) \in Int
    BY <2>2, <2>3, SumType
  <2>8. QED
    BY <2>4, <2>5, <2>6, <2>7
<1>5. SumFunctionOnSet(f, 1 .. N) = Reading!Windows
  <2>1. (1 .. N) \cap Reading!Admitted = Reading!Admitted
    BY <1>1, <1>2
  <2>2. QED
    BY <1>1, <1>4, <2>1
<1>6. w \in Nat /\ w < SumFunctionOnSet(f, 1 .. N)
  BY <1>1, <1>5
<1>7. PICK k \in 1 .. N : /\ SumFunctionOnSet(f, 1 .. k - 1) \in Nat
                         /\ SumFunctionOnSet(f, 1 .. k) = SumFunctionOnSet(f, 1 .. k - 1) + f[k]
                         /\ SumFunctionOnSet(f, 1 .. k - 1) <= w
                         /\ w < SumFunctionOnSet(f, 1 .. k)
  BY <1>2, <1>3, <1>6, Located
<1>8. k \in Reading!Admitted
  <2> SUFFICES ASSUME k \notin Reading!Admitted PROVE FALSE
    OBVIOUS
  <2>1. f[k] = 0
    BY <1>3
  <2>2. QED
    BY <1>6, <1>7, <2>1
<1>9. SumFunctionOnSet(f, 1 .. k - 1) = Reading!FirstWindow(k)
  <2>1. 1 .. k - 1 \in SUBSET (1 .. N)
    BY <1>2
  <2>2. (1 .. k - 1) \cap Reading!Admitted = {b \in DOMAIN index : b < k}
    <3>1. \A b \in Reading!Admitted : b \in Nat /\ b >= 1 /\ (b < k <=> b <= k - 1)
      BY <1>2, <1>3
    <3>2. k - 1 \in Int
      BY <1>2
    <3>3. \A b \in Reading!Admitted : b \in 1 .. k - 1 <=> b < k
      BY <3>1, <3>2
    <3>4. QED
      BY <1>1, <3>3
  <2>3. QED
    BY <1>4, <2>1, <2>2, AddedUp
<1>10. k \in DOMAIN index /\ P(k)
  BY <1>1, <1>3, <1>7, <1>8, <1>9
<1>11. Reading!EpisodeOf(w) = CHOOSE e \in DOMAIN index : P(e)
  BY DEF Reading!EpisodeOf
<1> HIDE DEF P
<1>12. Reading!EpisodeOf(w) \in DOMAIN index /\ P(Reading!EpisodeOf(w))
  BY <1>10, <1>11
<1>13. QED
  BY <1>1, <1>12 DEF P

(* Where a window begins, and that it is inside its episode.               *)
LEMMA WindowInside ==
    ASSUME Reading!WindowsAssumption, ReaderTypes, disk \in Datasets, index = Reading!EpisodeIndex,
           NEW w \in 0 .. Reading!Windows - 1, NEW e, e = Reading!EpisodeOf(w)
    PROVE  /\ e \in Reading!Admitted /\ e \in Reading!Episodes /\ e \in Nat /\ Reading!Length(e) \in Nat \ {0}
           /\ Reading!Offset(w) \in Nat /\ Reading!Offset(w) < Reading!Length(e)
           /\ reader.kind \in Pairs => Reading!Offset(w) + 2 <= Reading!Length(e)
           /\ Reading!RawLen(w) = Reading!Least(WindowFrames, Reading!Length(e) - Reading!Offset(w))
           /\ Reading!RawLen(w) \in Nat \ {0} /\ Reading!Offset(w) + Reading!RawLen(w) <= Reading!Length(e)
<1>1. e \in Reading!Admitted /\ Reading!FirstWindow(e) <= w
        /\ w < Reading!FirstWindow(e) + Reading!WindowCounts[e]
  BY WindowFound
<1>2. /\ e \in Reading!Episodes /\ e \in Nat /\ Reading!Length(e) \in Nat
           /\ index[e].length = Reading!Length(e)
      /\ Reading!WindowCounts[e] = Reading!Starts(Reading!Length(e)) /\ Reading!WindowCounts[e] \in Nat
           /\ Reading!FirstWindow(e) \in Nat
      /\ Reading!Windows \in Nat
  BY <1>1, IndexIs
<1> DEFINE k == w - Reading!FirstWindow(e)
<1>3. k \in Nat /\ k < Reading!Starts(Reading!Length(e))
  BY <1>1, <1>2
<1> HIDE DEF k
<1>4. /\ k * reader.stride \in Nat /\ k * reader.stride < Reading!Length(e)
      /\ reader.kind \in Pairs => k * reader.stride + 2 <= Reading!Length(e)
  BY <1>2, <1>3, StartsInside
<1>5. Reading!Offset(w) = k * reader.stride
  BY DEF Reading!Offset, k
<1>6. Reading!RawLen(w) = Reading!Least(WindowFrames, Reading!Length(e) - Reading!Offset(w))
  BY <1>2 DEF Reading!RawLen
<1> DEFINE o == Reading!Offset(w)
           n == Reading!Length(e)
<1>7. o \in Nat /\ o < n /\ n \in Nat /\ (reader.kind \in Pairs => o + 2 <= n)
  BY <1>2, <1>4, <1>5
<1>8. WindowFrames \in Nat /\ WindowFrames >= 2
  BY DEF Reading!WindowsAssumption
<1> HIDE DEF o, n
<1>9. Reading!Least(WindowFrames, n - o) \in Nat \ {0} /\ o + Reading!Least(WindowFrames, n - o) <= n
  BY <1>7, <1>8 DEF Reading!Least
<1>10. QED
  BY <1>1, <1>2, <1>6, <1>7, <1>9 DEF o, n

(* The rows of a window are its episode's, from where it begins on.        *)
LEMMA RowsAre ==
    ASSUME Reading!WindowsAssumption, ReaderTypes, disk \in Datasets, index = Reading!EpisodeIndex,
           reader.kind = "vlabench" => Reading!InOrder(disk),
           NEW w \in 0 .. Reading!Windows - 1, NEW e, e = Reading!EpisodeOf(w)
    PROVE  /\ Len(Reading!Rows(w)) = Reading!RawLen(w)
           /\ \A t \in 1 .. Reading!RawLen(w) : Reading!Rows(w)[t] = <<e, Reading!Offset(w) + t - 1>>
<1> DEFINE o == Reading!Offset(w)
           n == Reading!RawLen(w)
           L == Reading!Length(e)
           place == Reading!DataOffsets(e)
           shard == IF reader.kind \in Reading!Packed
                    THEN Reading!Shard(place.data, "data") ELSE Reading!Recorded(e)
<1>1. /\ e \in Reading!Admitted /\ e \in Reading!Episodes /\ e \in Nat /\ L \in Nat \ {0}
      /\ o \in Nat /\ o < L /\ n \in Nat \ {0} /\ o + n <= L
  BY WindowInside
<1>2. index[e].places.data = place
  BY <1>1, IndexIs
<1>3. Reading!Rows(w) = Reading!Slice(shard, place.row + o, n)
  BY <1>2 DEF Reading!Rows
<1>4. PICK V : /\ shard \in Seq(V) /\ place.row \in Nat /\ place.row + L <= Len(shard)
               /\ \A t \in 1 .. L : shard[place.row + t] = <<e, t - 1>>
  <2> DEFINE Right(V) == /\ shard \in Seq(V) /\ place.row \in Nat /\ place.row + L <= Len(shard)
                         /\ \A t \in 1 .. L : shard[place.row + t] = <<e, t - 1>>
  <2>1. CASE reader.kind \in Reading!Packed
    <3>1. place.data = disk.episodes[e]["data"] /\ place.row = Reading!FileLocalOffset(e, "data")
      <4>1. CASE reader.kind = "vlabench"
        <5>1. place = [data |-> Reading!RepairedShard(e),
                       row |-> Reading!GlobalStart(e) - Reading!ShardStart(Reading!RepairedShard(e))]
          BY <4>1 DEF Reading!DataOffsets
        <5>2. QED
          BY <1>1, <4>1, <5>1, Repaired
      <4>2. CASE reader.kind # "vlabench"
        <5>1. place = [data |-> Reading!Named(e), row |-> Reading!FileLocalOffset(e, "data")]
          BY <2>1, <4>2 DEF Reading!DataOffsets
        <5>2. QED
          BY <4>2, <5>1 DEF Reading!Named
      <4>3. QED
        BY <4>1, <4>2
    <3>2. shard = Reading!Shard(disk.episodes[e]["data"], "data")
      BY <2>1, <3>1
    <3>3. /\ Reading!FileLocalOffset(e, "data") \in Nat
          /\ Reading!Shard(disk.episodes[e]["data"], "data") \in Seq(Nat \X Nat)
          /\ Reading!FileLocalOffset(e, "data") + L <= Len(Reading!Shard(disk.episodes[e]["data"], "data"))
          /\ \A t \in 1 .. L :
                Reading!Shard(disk.episodes[e]["data"], "data")[Reading!FileLocalOffset(e, "data") + t]
                    = <<e, t - 1>>
      BY <1>1, ShardPlace, ZenonT(40)
    <3> HIDE DEF shard, place, L
    <3>4. Right(Nat \X Nat)
      BY <3>1, <3>2, <3>3
    <3>5. QED
      BY <3>4
  <2>2. CASE reader.kind \notin Reading!Packed
    <3>1. place = [data |-> e, row |-> 0]
      BY <2>2 DEF Reading!DataOffsets, Reading!Packed
    <3>2. shard = [t \in 1 .. L |-> <<e, t - 1>>]
      BY <2>2 DEF Reading!Recorded
    <3> DEFINE V == Nat \X Nat
    <3>3. \A t \in 1 .. L : <<e, t - 1>> \in V
      BY <1>1
    <3> HIDE DEF V, shard
    <3>4. shard \in Seq(V) /\ Len(shard) = L /\ \A t \in 1 .. L : shard[t] = <<e, t - 1>>
      <4>1. shard \in [1 .. L -> V]
        BY <3>2, <3>3
      <4>2. L \in Nat /\ \A t \in 1 .. L : shard[t] = <<e, t - 1>>
        BY <1>1, <3>2
      <4>3. QED
        BY <4>1, <4>2, ListOf
    <3>5. place.row = 0
      BY <3>1
    <3>6. Right(V)
      BY <1>1, <3>4, <3>5
    <3>7. QED
      BY <3>6
  <2>3. QED
    BY <2>1, <2>2
<1> HIDE DEF shard, place, o, n, L
<1> DEFINE a == place.row + o
<1>5. a \in Nat /\ Reading!Least(a + n, Len(shard)) = a + n /\ a + n <= Len(shard) /\ Len(shard) \in Nat
  <2>1. place.row \in Nat /\ Len(shard) \in Nat /\ place.row + L <= Len(shard)
    BY <1>4
  <2>2. o \in Nat /\ n \in Nat /\ L \in Nat /\ o + n <= L
    BY <1>1
  <2>3. a \in Nat /\ a + n <= Len(shard)
    BY <2>1, <2>2
  <2> HIDE DEF a
  <2>4. QED
    BY <2>1, <2>2, <2>3 DEF Reading!Least
<1>6. Reading!Rows(w) = SubSeq(shard, a + 1, a + n)
  BY <1>3, <1>5 DEF Reading!Slice
<1>7. \A t \in 1 .. n : shard[a + t] = <<e, o + t - 1>>
  <2> TAKE t \in 1 .. n
  <2>1. o + t \in 1 .. L /\ a + t = place.row + (o + t) /\ (o + t) - 1 = o + t - 1
    BY <1>1, <1>4
  <2>2. QED
    BY <1>4, <2>1
<1> HIDE DEF a
<1>8. /\ Len(SubSeq(shard, a + 1, a + n)) = n
      /\ \A t \in 1 .. n : SubSeq(shard, a + 1, a + n)[t] = shard[a + t]
  <2>1. n \in Nat \ {0} /\ a \in Nat /\ a + n \in Nat /\ shard \in Seq(V)
    BY <1>1, <1>4, <1>5
  <2>2. QED
    BY <1>5, <2>1
<1>9. QED
  BY <1>6, <1>7, <1>8 DEF n, o

LEMMA UptoCard ==
    ASSUME NEW m \in Nat
    PROVE  IsFiniteSet(1 .. m) /\ Cardinality(1 .. m) = m
<1>1. IsFiniteSet(1 .. m) /\ Cardinality(1 .. m) = IF 1 > m THEN 0 ELSE m - 1 + 1
  BY FS_Interval
<1>2. QED
  BY <1>1

(* The frames of a window that exist are its first ones.                   *)
LEMMA RealFramesAre ==
    ASSUME Reading!WindowsAssumption, ReaderTypes, NEW w, Reading!RawLen(w) \in Nat \ {0}
    PROVE  /\ \A i \in DOMAIN Reading!SampledTimes : i \in Nat \ {0} /\ Reading!Time(i) \in Nat
                /\ Reading!SampledTimes[i] = Reading!Time(i)
           /\ \A i \in DOMAIN Reading!SampledTimes : Reading!Time(i) < WindowFrames
           /\ Reading!RealFrames(w) \in DOMAIN Reading!SampledTimes
           /\ \A i \in DOMAIN Reading!SampledTimes :
                 i <= Reading!RealFrames(w) <=> Reading!Time(i) < Reading!RawLen(w)
<1> DEFINE s == reader.vstride
           n == Reading!RawLen(w)
           top == (WindowFrames - 1) \div s + 1
           Real == {i \in DOMAIN Reading!SampledTimes : Reading!SampledTimes[i] < n}
<1>1. s \in Nat \ {0} /\ WindowFrames - 1 \in Nat /\ n \in Nat \ {0}
  BY DEF ReaderTypes, Reading!WindowsAssumption
<1>2. top \in Nat \ {0} /\ top - 1 = (WindowFrames - 1) \div s
  BY <1>1
<1>3. DOMAIN Reading!SampledTimes = 1 .. top /\ \A i \in 1 .. top : Reading!SampledTimes[i] = (i - 1) * s
  BY DEF Reading!SampledTimes
<1>4. ASSUME NEW i \in 1 .. top PROVE (i - 1) * s \in Nat /\ (i - 1) * s <= WindowFrames - 1
  <2>1. i - 1 \in Nat /\ i - 1 <= (WindowFrames - 1) \div s
    BY <1>2
  <2>2. QED
    BY <1>1, <2>1, Multiples
<1>5. ASSUME NEW i \in 1 .. top, NEW j \in 1 .. top, i <= j PROVE (i - 1) * s <= (j - 1) * s
  <2>1. j - i \in Nat /\ i - 1 \in Nat /\ j - 1 \in Nat
    BY <1>5
  <2>2. (j - i) * s \in Nat /\ (i - 1) * s \in Nat /\ (j - 1) * s = (i - 1) * s + (j - i) * s
    BY <1>1, <2>1
  <2>3. QED
    BY <2>2
<1> HIDE DEF top, s, n
<1>6. PICK m \in 1 .. top : Real = 1 .. m
  <2> DEFINE Short == {i \in 1 .. top : ~((i - 1) * s < n)}
  <2>1. CASE Short = {}
    <3>1. Real = 1 .. top
      BY <1>3, <2>1
    <3>2. QED
      BY <1>2, <3>1
  <2>2. CASE Short # {}
    <3>1. PICK k \in Short : \A j \in Short : k <= j
      <4>1. Short \in SUBSET Nat
        BY <1>2
      <4>2. QED
        BY <2>2, <4>1, FirstOf
    <3>2. k # 1
      <4>1. (1 - 1) * s = 0
        BY <1>1
      <4>2. QED
        BY <1>1, <3>1, <4>1
    <3>3. k \in 1 .. top /\ k - 1 \in 1 .. top
      BY <1>2, <3>1, <3>2
    <3>4. ASSUME NEW i \in 1 .. top PROVE (i - 1) * s < n <=> i <= k - 1
      <4>1. CASE i <= k - 1
        <5>1. ~(k <= i)
          BY <3>3, <4>1
        <5>2. QED
          BY <3>1, <4>1, <5>1
      <4>2. CASE ~(i <= k - 1)
        <5>1. k <= i
          BY <3>3, <4>2
        <5>2. (k - 1) * s <= (i - 1) * s /\ ~((k - 1) * s < n)
          BY <1>5, <3>1, <3>3, <5>1
        <5>3. (k - 1) * s \in Nat /\ (i - 1) * s \in Nat
          BY <1>4, <3>3
        <5>4. ~((i - 1) * s < n)
          BY <1>1, <5>2, <5>3
        <5>5. QED
          BY <4>2, <5>4
      <4>3. QED
        BY <4>1, <4>2
    <3>5. Real = {i \in 1 .. top : i <= k - 1}
      BY <1>3, <3>4
    <3>6. {i \in 1 .. top : i <= k - 1} = 1 .. k - 1
      BY <1>2, <3>3
    <3>7. QED
      BY <3>3, <3>5, <3>6
  <2>3. QED
    BY <2>1, <2>2
<1>7. Reading!RealFrames(w) = m
  <2>1. m \in Nat
    BY <1>2
  <2>2. Reading!RealFrames(w) = Cardinality(Real)
    <3>1. Reading!RealFrames(w) = Reading!Cardinality(Real)
      BY DEF Reading!RealFrames, n
    <3>2. QED
      BY <3>1, SameLibrary
  <2>3. QED
    BY <1>6, <2>1, <2>2, UptoCard
<1>8. \A i \in 1 .. top : i <= m <=> (i - 1) * s < n
  <2> TAKE i \in 1 .. top
  <2>1. i \in Real <=> (i - 1) * s < n
    BY <1>3
  <2>2. i \in 1 .. m <=> i <= m
    BY <1>2
  <2>3. QED
    BY <1>6, <2>1, <2>2
<1>9. \A i \in 1 .. top : i \in Nat \ {0} /\ (i - 1) * s < WindowFrames
  <2> TAKE i \in 1 .. top
  <2>1. (i - 1) * s \in Nat /\ (i - 1) * s <= WindowFrames - 1
    BY <1>4
  <2>2. i \in Nat \ {0} /\ WindowFrames \in Int
    BY <1>2 DEF Reading!WindowsAssumption
  <2> DEFINE x == (i - 1) * s
  <2> HIDE DEF x
  <2>3. x < WindowFrames
    BY <2>1, <2>2 DEF x
  <2>4. QED
    BY <2>2, <2>3 DEF x
<1>10. \A i : Reading!Time(i) = (i - 1) * s
  BY DEF Reading!Time, s
<1>11. QED
  BY <1>3, <1>4, <1>7, <1>8, <1>9, <1>10 DEF n

(* A stamped episode is what its video shows from its stamp on: episodes   *)
(* of one video do not overlap.                                            *)
LEMMA FilmPlace ==
    ASSUME Reading!WindowsAssumption, disk \in Datasets, disk.stamped, NEW e \in Reading!Episodes,
           NEW t \in Nat, t < Reading!Length(e)
    PROVE  Reading!Filmed(disk.episodes[e].video, disk.episodes[e].from + t) = <<e, t>>
<1> DEFINE place == disk.episodes[e].from + t
           Shown(b) == /\ disk.episodes[b].video = disk.episodes[e].video
                       /\ place - disk.episodes[b].from \in 0 .. Reading!Length(b) - 1
           film == CHOOSE b \in Reading!Episodes : Shown(b)
<1>1. /\ disk.episodes[e].from \in Nat /\ Reading!Length(e) \in Nat /\ place \in Nat
      /\ place - disk.episodes[e].from = t
  BY DiskTypes, SMTT(30)
<1>2. Shown(e)
  <2>1. t \in 0 .. Reading!Length(e) - 1
    BY <1>1
  <2>2. QED
    BY <1>1, <2>1
<1>3. ASSUME NEW b \in Reading!Episodes, Shown(b) PROVE b = e
  <2> SUFFICES ASSUME b # e PROVE FALSE
    OBVIOUS
  <2>1. disk.episodes[b].from \in Nat /\ Reading!Length(b) \in Nat
    BY DiskTypes
  <2>2. \/ disk.episodes[b].from + Reading!Length(b) <= disk.episodes[e].from
        \/ disk.episodes[e].from + Reading!Length(e) <= disk.episodes[b].from
    BY <1>3 DEF Reading!WindowsAssumption, Reading!Length, Reading!Episodes
  <2> DEFINE f == disk.episodes[b].from
             n == Reading!Length(b)
             g == disk.episodes[e].from
             m == Reading!Length(e)
  <2>3. f \in Nat /\ n \in Nat /\ g \in Nat /\ m \in Nat /\ (f + n <= g \/ g + m <= f)
        /\ g + t - f \in 0 .. n - 1 /\ t < m
    BY <1>1, <1>3, <2>1, <2>2
  <2> HIDE DEF f, n, g, m
  <2>4. QED
    BY <2>3
<1> HIDE DEF Shown
<1>4. film = e
  BY <1>2, <1>3
<1>5. Reading!Filmed(disk.episodes[e].video, place) = <<film, place - disk.episodes[film].from>>
  BY Zenon DEF Reading!Filmed, Shown
<1>6. QED
  BY <1>1, <1>4, <1>5

(* A window's frame at a time that the window has.                         *)
FrameAt(e, o, t) ==
    IF reader.kind \in Reading!Packed
    THEN Reading!Filmed(Reading!VideoOffsets(e).video, Reading!VideoOffsets(e).frame + o + t)
    ELSE Reading!Recorded(e)[Reading!VideoOffsets(e).frame + o + t + 1]

LEMMA FramePlace ==
    ASSUME Reading!WindowsAssumption, ReaderTypes, disk \in Datasets,
           reader.kind = "robocasa" => ~disk.stamped,
           NEW e \in Reading!Episodes, e \in Nat, NEW o \in Nat, NEW t \in Nat, o + t < Reading!Length(e)
    PROVE  FrameAt(e, o, t) = <<e, o + t>>
<1> DEFINE L == Reading!Length(e)
           place == Reading!VideoOffsets(e)
           v == disk.episodes[e].video
<1>1. L \in Nat \ {0} /\ o + t \in Nat /\ o + t + 1 \in 1 .. L /\ o + t + 1 - 1 = o + t
  <2>1. L \in Nat
    BY DiskTypes
  <2> HIDE DEF L
  <2>2. QED
    BY <2>1 DEF L
<1>2. CASE reader.kind \in Reading!Packed /\ disk.stamped
  <2>1. reader.kind \in Reading!Family
    BY <1>2 DEF Reading!Packed, Reading!Family
  <2>2. place.video = v /\ place.frame = disk.episodes[e].from /\ disk.episodes[e].from \in Nat
    BY <1>2, <2>1, DiskTypes DEF Reading!VideoOffsets
  <2>3. place.frame + o + t = disk.episodes[e].from + (o + t)
    BY <2>2
  <2>4. QED
    BY <1>1, <1>2, <2>2, <2>3, FilmPlace DEF FrameAt
<1>3. CASE reader.kind \in Reading!Packed /\ ~disk.stamped
  <2>1. place.video = v /\ place.frame = Reading!FileLocalOffset(e, "video")
    BY <1>3 DEF Reading!VideoOffsets, Reading!Packed, Reading!Family
  <2>2. /\ Reading!FileLocalOffset(e, "video") \in Nat
        /\ \A k \in 1 .. L : Reading!Shard(v, "video")[Reading!FileLocalOffset(e, "video") + k] = <<e, k - 1>>
    <3>1. v = disk.episodes[e]["video"]
      OBVIOUS
    <3> HIDE DEF v
    <3>2. QED
      BY <1>1, <3>1, ShardPlace
  <2>3. place.frame + o + t + 1 = Reading!FileLocalOffset(e, "video") + (o + t + 1)
    BY <2>1, <2>2
  <2>4. Reading!Shard(v, "video")[place.frame + o + t + 1] = <<e, o + t>>
    <3> HIDE DEF v, place, L
    <3>1. QED
      BY <1>1, <2>2, <2>3
  <2>5. FrameAt(e, o, t) = Reading!Shard(v, "video")[place.frame + o + t + 1]
    BY <1>3, <2>1 DEF FrameAt, Reading!Filmed
  <2>6. QED
    BY <2>4, <2>5
<1>4. CASE reader.kind \notin Reading!Packed
  <2>1. place.frame = 0
    BY <1>4 DEF Reading!VideoOffsets, Reading!Packed, Reading!Family
  <2>2. Reading!Recorded(e) = [k \in 1 .. L |-> <<e, k - 1>>]
    BY DEF Reading!Recorded
  <2>3. place.frame + o + t + 1 = o + t + 1
    BY <2>1
  <2>4. FrameAt(e, o, t) = Reading!Recorded(e)[o + t + 1]
    BY <1>4, <2>3 DEF FrameAt
  <2> HIDE DEF L, place
  <2>5. QED
    BY <1>1, <2>2, <2>4
<1>5. QED
  BY <1>2, <1>3, <1>4

(* Every frame of a window is one of its episode: at its time, or, beyond  *)
(* the end, one that is repeated.                                          *)
LEMMA FramesAre ==
    ASSUME Reading!WindowsAssumption, ReaderTypes, disk \in Datasets, index = Reading!EpisodeIndex,
           reader.kind = "robocasa" => ~disk.stamped,
           NEW w \in 0 .. Reading!Windows - 1, NEW e, e = Reading!EpisodeOf(w)
    PROVE  /\ DOMAIN Reading!VideoFrames(w) = DOMAIN Reading!SampledTimes
           /\ \A i \in DOMAIN Reading!SampledTimes : i <= Reading!RealFrames(w) =>
                 Reading!VideoFrames(w)[i] = <<e, Reading!Offset(w) + Reading!Time(i)>>
           /\ \E last \in Reading!Offset(w) + Reading!Time(Reading!RealFrames(w)) .. Reading!Length(e) - 1 :
                 \A i \in DOMAIN Reading!SampledTimes : i > Reading!RealFrames(w) =>
                     Reading!VideoFrames(w)[i] = <<e, last>>
<1> DEFINE o == Reading!Offset(w)
           n == Reading!RawLen(w)
           L == Reading!Length(e)
           r == Reading!RealFrames(w)
           fill == Reading!FillTime(w)
<1>1. /\ e \in Reading!Admitted /\ e \in Reading!Episodes /\ e \in Nat /\ L \in Nat \ {0}
      /\ o \in Nat /\ o < L /\ n \in Nat \ {0} /\ o + n <= L
  BY WindowInside
<1>2. index[e].places.video = Reading!VideoOffsets(e)
  BY <1>1, IndexIs
<1>3. Reading!VideoFrames(w)
        = [i \in DOMAIN Reading!SampledTimes |->
              FrameAt(e, o, IF Reading!SampledTimes[i] < n THEN Reading!SampledTimes[i] ELSE fill)]
  BY <1>2 DEF Reading!VideoFrames, FrameAt
<1>4. r \in DOMAIN Reading!SampledTimes /\ r \in Nat /\ Reading!Time(r) \in Nat /\ Reading!Time(r) < n
        /\ Reading!SampledTimes[r] = Reading!Time(r)
  <2>1. r \in DOMAIN Reading!SampledTimes /\ r \in Nat /\ r <= r
    BY <1>1, RealFramesAre
  <2>2. QED
    BY <1>1, <2>1, RealFramesAre
<1>5. fill \in {n - 1, Reading!Time(r)}
  BY <1>4 DEF Reading!FillTime
<1>6. fill \in Nat /\ fill < n /\ Reading!Time(r) <= fill
  <2> HIDE DEF fill, n, r
  <2>1. QED
    BY <1>1, <1>4, <1>5
<1>7. \A t \in Nat : t < n => FrameAt(e, o, t) = <<e, o + t>>
  <2> TAKE t \in Nat
  <2> HAVE t < n
  <2>1. o + t < L
    <3> HIDE DEF o, n, L
    <3>1. QED
      BY <1>1
  <2>2. QED
    BY <1>1, <2>1, FramePlace
<1>8. ASSUME NEW i \in DOMAIN Reading!SampledTimes
      PROVE  /\ i <= r => Reading!VideoFrames(w)[i] = <<e, o + Reading!Time(i)>>
             /\ i > r => Reading!VideoFrames(w)[i] = <<e, o + fill>>
  <2>1. /\ Reading!Time(i) \in Nat /\ Reading!SampledTimes[i] = Reading!Time(i) /\ i \in Nat
        /\ i <= r <=> Reading!Time(i) < n
    BY <1>1, RealFramesAre
  <2>2. i > r <=> ~(i <= r)
    BY <1>4, <2>1
  <2>3. Reading!VideoFrames(w)[i] = FrameAt(e, o, IF Reading!Time(i) < n THEN Reading!Time(i) ELSE fill)
    BY <1>3, <2>1
  <2>4. QED
    BY <1>6, <1>7, <2>1, <2>2, <2>3
<1>9. o + fill \in o + Reading!Time(r) .. L - 1
  <2> HIDE DEF o, fill, n, r, L
  <2>1. QED
    BY <1>1, <1>4, <1>6
<1>10. QED
  BY <1>3, <1>8, <1>9
-----------------------------------------------------------------------------
(* What Aligned says of a sample that is there. *)
Right(x) ==
    LET e == x.proprio[1]  o == x.proprio[2] IN
    /\ e \in Reading!Admitted
    /\ x.prompt = e
    /\ x.lead \in {None, <<e, o - 1>>}
    /\ x.targets # <<>>
    /\ \A t \in DOMAIN x.targets : x.targets[t] = <<e, o + t - 1 + Reading!Shift>>
    /\ o + Len(x.targets) - 1 + Reading!Shift < Reading!Length(e)
    /\ \A i \in DOMAIN x.video :
           /\ i <= x.valid <=> o + Reading!Time(i) < Reading!Length(e)
           /\ i <= x.valid => x.video[i] = <<e, o + Reading!Time(i)>>
    /\ \E last \in o + Reading!Time(x.valid) .. Reading!Length(e) - 1 :
           \A i \in DOMAIN x.video : i > x.valid => x.video[i] = <<e, last>>

(* No target is beyond the rows of the window, or, where a row's action is *)
(* the next pose, beyond the episode.                                      *)
LEMMA SupervisedAre ==
    ASSUME Reading!WindowsAssumption, ReaderTypes, NEW L \in Nat \ {0}, NEW o \in Nat, o < L,
           reader.kind \in Pairs => o + 2 <= L, NEW n, n = Reading!Least(WindowFrames, L - o)
    PROVE  /\ Reading!Supervised(n) \in Nat \ {0} /\ Reading!Supervised(n) <= n
           /\ o + Reading!Supervised(n) - 1 + Reading!Shift < L
           /\ reader.kind \in {"robotwin", "robodojo"} => Reading!Supervised(n) + 1 <= n
<1>1. WindowFrames \in Nat /\ WindowFrames >= 2 /\ reader.kind \in Reading!Kinds
  BY DEF Reading!WindowsAssumption, ReaderTypes
<1>2. n \in Nat \ {0} /\ n <= WindowFrames /\ o + n <= L /\ (n # WindowFrames => n = L - o)
      /\ (reader.kind \in Pairs => n >= 2)
  BY <1>1 DEF Reading!Least
<1>3. CASE reader.kind = "relabeled"
  <2>1. Reading!Supervised(n) = Reading!Least(IF n >= WindowFrames THEN n ELSE n - 1, WindowFrames - 1)
          /\ Reading!Shift = 1 /\ n >= 2
    BY <1>2, <1>3 DEF Reading!Supervised, Reading!Shift, Reading!NextPose, Pairs
  <2>2. QED
    BY <1>1, <1>2, <1>3, <2>1 DEF Reading!Least
<1>4. CASE reader.kind \in {"robotwin", "robodojo", "robocasa"}
  <2>1. Reading!Supervised(n) = Reading!Least(n - 1, WindowFrames - 1) /\ Reading!Shift \in {0, 1} /\ n >= 2
    BY <1>2, <1>4 DEF Reading!Supervised, Reading!Shift, Reading!NextPose, Pairs
  <2>2. QED
    BY <1>1, <1>2, <1>4, <2>1 DEF Reading!Least
<1>5. CASE reader.kind \in {"lerobot", "vlabench", "ebench"}
  <2>1. Reading!Supervised(n) = Reading!Least(n, WindowFrames - 1) /\ Reading!Shift = 0
    BY <1>5 DEF Reading!Supervised, Reading!Shift, Reading!NextPose
  <2>2. QED
    BY <1>1, <1>2, <1>5, <2>1 DEF Reading!Least
<1>6. QED
  BY <1>1, <1>3, <1>4, <1>5 DEF Reading!Kinds

(* Every sample of every window is one that belongs together.              *)
LEMMA SampleRight ==
    ASSUME Reading!WindowsAssumption, ReaderTypes, disk \in Datasets, index = Reading!EpisodeIndex,
           reader.kind = "vlabench" => Reading!InOrder(disk), reader.kind = "robocasa" => ~disk.stamped,
           NEW w \in 0 .. Reading!Windows - 1, NEW wrist
    PROVE  Right(Reading!Sample(w, wrist))
<1> DEFINE e == Reading!EpisodeOf(w)
           o == Reading!Offset(w)
           n == Reading!RawLen(w)
           L == Reading!Length(e)
           x == Reading!Sample(w, wrist)
           m == Reading!Supervised(n)
<1>1. /\ e \in Reading!Admitted /\ e \in Reading!Episodes /\ e \in Nat /\ L \in Nat \ {0}
      /\ o \in Nat /\ o < L /\ n \in Nat \ {0} /\ o + n <= L /\ n = Reading!Least(WindowFrames, L - o)
      /\ reader.kind \in Pairs => o + 2 <= L
  BY WindowInside
<1>2. Len(Reading!Rows(w)) = n /\ \A t \in 1 .. n : Reading!Rows(w)[t] = <<e, o + t - 1>>
  BY RowsAre
<1>3. /\ m \in Nat \ {0} /\ m <= n /\ o + m - 1 + Reading!Shift < L
      /\ reader.kind \in {"robotwin", "robodojo"} => m + 1 <= n
  BY <1>1, SupervisedAre
<1>4. Reading!Rows(w)[1] = <<e, o>>
  <2> HIDE DEF e, o, n, L, m
  <2>1. 1 \in 1 .. n /\ o + 1 - 1 = o
    BY <1>1
  <2>2. QED
    BY <1>2, <2>1
<1>5. x.proprio[1] = e /\ x.proprio[2] = o
  BY <1>4 DEF Reading!Sample
<1>6. x.prompt = e
  BY <1>4 DEF Reading!Sample
<1>7. x.lead \in {None, <<e, o - 1>>}
  BY <1>4 DEF Reading!Sample, Reading!Lead
<1>8. x.targets = [t \in 1 .. m |-> IF reader.kind \in {"robotwin", "robodojo"}
                                   THEN Reading!Rows(w)[t + 1] ELSE Reading!ActionColumn(Reading!Rows(w)[t])]
  BY <1>2 DEF Reading!Sample, Reading!Targets
<1>9. ASSUME NEW t \in 1 .. m PROVE x.targets[t] = <<e, o + t - 1 + Reading!Shift>>
  <2>1. x.targets[t] = IF reader.kind \in {"robotwin", "robodojo"}
                       THEN Reading!Rows(w)[t + 1] ELSE Reading!ActionColumn(Reading!Rows(w)[t])
    BY <1>8
  <2>2. t \in 1 .. n /\ (reader.kind \in {"robotwin", "robodojo"} => t + 1 \in 1 .. n)
    <3> HIDE DEF m, n
    <3>1. QED
      BY <1>1, <1>3
  <2>3. Reading!Rows(w)[t] = <<e, o + t - 1>> /\ o + (t + 1) - 1 = o + t - 1 + 1 /\ o + t - 1 + 0 = o + t - 1
    <3> HIDE DEF e, o, n, L, m
    <3>1. QED
      BY <1>1, <1>2, <2>2
  <2>4. CASE reader.kind \in {"robotwin", "robodojo"}
    <3>1. Reading!Shift = 1
      BY <2>4 DEF Reading!Shift, Reading!NextPose
    <3>2. Reading!Rows(w)[t + 1] = <<e, o + (t + 1) - 1>>
      <4> HIDE DEF e, o, n, L, m
      <4>1. QED
        BY <1>2, <2>2, <2>4
    <3>3. QED
      BY <2>1, <2>3, <2>4, <3>1, <3>2
  <2>5. CASE reader.kind = "relabeled"
    <3>1. Reading!Shift = 1
      BY <2>5 DEF Reading!Shift, Reading!NextPose
    <3> DEFINE row == Reading!Rows(w)[t]
    <3>2. row[1] = e /\ row[2] = o + t - 1
      BY <2>3
    <3>3. row[2] + 1 < Reading!Length(row[1]) /\ row[2] + 1 = o + t - 1 + 1
      <4>1. o + t - 1 + 1 < L
        <5> HIDE DEF e, o, n, L, m
        <5>1. QED
          BY <1>1, <1>3, <3>1
      <4>2. QED
        BY <3>2, <4>1
    <3>4. Reading!ActionColumn(row) = <<row[1], row[2] + 1>>
      BY <2>5, <3>3 DEF Reading!ActionColumn
    <3>5. QED
      BY <2>1, <2>5, <3>1, <3>2, <3>3, <3>4
  <2>6. CASE reader.kind \notin Reading!NextPose
    <3>1. Reading!Shift = 0 /\ Reading!ActionColumn(Reading!Rows(w)[t]) = Reading!Rows(w)[t]
            /\ reader.kind \notin {"robotwin", "robodojo"}
      BY <2>6 DEF Reading!Shift, Reading!NextPose, Reading!ActionColumn
    <3>2. QED
      BY <2>1, <2>3, <3>1
  <2>7. QED
    BY <2>4, <2>5, <2>6 DEF Reading!NextPose
<1>10. DOMAIN x.targets = 1 .. m /\ Len(x.targets) = m /\ x.targets # <<>>
  <2> HIDE DEF m
  <2>1. DOMAIN x.targets = 1 .. m /\ 1 \in 1 .. m
    BY <1>3, <1>8
  <2>2. Len(x.targets) = m
    BY <1>3, <1>8
  <2>3. QED
    BY <1>3, <2>1, <2>2
<1>11. /\ DOMAIN x.video = DOMAIN Reading!SampledTimes
       /\ \A i \in DOMAIN Reading!SampledTimes :
              i <= x.valid => x.video[i] = <<e, o + Reading!Time(i)>>
       /\ \E last \in o + Reading!Time(x.valid) .. L - 1 :
              \A i \in DOMAIN Reading!SampledTimes : i > x.valid => x.video[i] = <<e, last>>
  <2>1. x.video = Reading!VideoFrames(w) /\ x.valid = Reading!RealFrames(w)
    BY DEF Reading!Sample
  <2> HIDE DEF x
  <2>2. QED
    BY <2>1, FramesAre
<1>12. ASSUME NEW i \in DOMAIN Reading!SampledTimes PROVE i <= x.valid <=> o + Reading!Time(i) < L
  <2>1. x.valid = Reading!RealFrames(w)
    BY DEF Reading!Sample
  <2>2. Reading!Time(i) \in Nat /\ Reading!Time(i) < WindowFrames /\ (i <= x.valid <=> Reading!Time(i) < n)
    BY <1>1, <2>1, RealFramesAre
  <2>3. WindowFrames \in Nat
    BY DEF Reading!WindowsAssumption
  <2> HIDE DEF o, n, L, e, x
  <2>4. Reading!Time(i) < n <=> o + Reading!Time(i) < L
    BY <1>1, <2>2, <2>3 DEF Reading!Least
  <2>5. QED
    BY <2>2, <2>4
<1>13. o + Len(x.targets) - 1 + Reading!Shift < Reading!Length(e)
  BY <1>3, <1>10
<1>14. /\ \A t \in DOMAIN x.targets : x.targets[t] = <<e, o + t - 1 + Reading!Shift>>
       /\ \A i \in DOMAIN x.video :
              /\ i <= x.valid <=> o + Reading!Time(i) < Reading!Length(e)
              /\ i <= x.valid => x.video[i] = <<e, o + Reading!Time(i)>>
       /\ \E last \in o + Reading!Time(x.valid) .. Reading!Length(e) - 1 :
              \A i \in DOMAIN x.video : i > x.valid => x.video[i] = <<e, last>>
  <2> HIDE DEF x, e, o, m
  <2>1. QED
    BY <1>9, <1>10, <1>11, <1>12
<1> HIDE DEF x, e, o, L, m, n
<1>15. Right(x)
  BY <1>1, <1>5, <1>6, <1>7, <1>10, <1>13, <1>14 DEF Right
<1>16. QED
  BY <1>15 DEF x
-----------------------------------------------------------------------------
(* The invariant: what a reader is tried at is one of its windows, and     *)
(* what it delivered belongs together.                                     *)
ReadingInv ==
    /\ disk \in Datasets /\ ReaderTypes
    /\ reader.kind = "vlabench" => Reading!InOrder(disk)
    /\ reader.kind = "robocasa" => ~disk.stamped
    /\ index \in {<<>>, Reading!EpisodeIndex}
    /\ asked # None => at \in 0 .. Reading!Windows - 1
    /\ Reading!Aligned

LEMMA ReadingInit == ASSUME Reading!WindowsAssumption, Reading!Init PROVE ReadingInv
<1>1. disk \in Datasets /\ index = <<>> /\ asked = None /\ sample = None
      /\ (reader.kind = "vlabench" => Reading!InOrder(disk))
      /\ (reader.kind = "robocasa" => ~disk.stamped)
  BY DEF Reading!Init
<1>2. ReaderTypes
  <2>1. reader \in [kind : Reading!Kinds, split : {"train", "val"}, stride : {s[1] : s \in WindowStrides},
                    vstride : {s[2] : s \in WindowStrides}]
    BY DEF Reading!Init
  <2>2. {s[1] : s \in WindowStrides} \subseteq Nat \ {0} /\ {s[2] : s \in WindowStrides} \subseteq Nat \ {0}
    BY DEF Reading!WindowsAssumption
  <2>3. QED
    BY <2>1, <2>2 DEF ReaderTypes
<1>3. QED
  BY <1>1, <1>2 DEF ReadingInv, Reading!Aligned

(* Without an index there is no window to ask for. *)
LEMMA WindowsOnceBuilt ==
    ASSUME Reading!WindowsAssumption, ReadingInv, NEW w \in 0 .. Reading!Windows - 1
    PROVE  index = Reading!EpisodeIndex /\ Reading!Windows \in Nat \ {0}
<1>1. index = Reading!EpisodeIndex
  <2> SUFFICES ASSUME index = <<>> PROVE FALSE
    BY DEF ReadingInv
  <2>1. DOMAIN Reading!WindowCounts = {}
    BY DEF Reading!WindowCounts
  <2>2. Reading!Windows = 0
    BY <2>1, SumEmpty, AddedUp
  <2>3. QED
    BY <2>2
<1>2. Reading!Windows \in Nat
  BY <1>1, IndexIs DEF ReadingInv
<1>3. QED
  BY <1>1, <1>2

LEMMA AlignedIs == Reading!Aligned <=> (sample # None => Right(sample))
  BY DEF Reading!Aligned, Right

(* As long as reader and disk are the same, so is what they admit. *)
LEMMA SameReader ==
    ASSUME UNCHANGED <<reader, disk>>, NEW x, Right(x)
    PROVE  sample' = x => Reading!Aligned'
<1>1. /\ Reading!Admitted' = Reading!Admitted /\ Reading!Shift' = Reading!Shift
      /\ \A e : Reading!Length(e)' = Reading!Length(e)
      /\ \A i : Reading!Time(i)' = Reading!Time(i)
  BY
     DEF Reading!Admitted, Reading!Episodes, Reading!InSplit, Reading!Excluded, Reading!Shift,
         Reading!Length, Reading!Time
<1>2. QED
  BY <1>1 DEF Reading!Aligned, Right

(* ... and the index that would be built.                                  *)
LEMMA SameIndex == ASSUME UNCHANGED <<reader, disk>> PROVE Reading!EpisodeIndex' = Reading!EpisodeIndex
<1>1. disk' = disk /\ reader' = reader
  OBVIOUS
<1>2. Reading!Episodes' = Reading!Episodes /\ \A e : Reading!Length(e)' = Reading!Length(e)
  BY <1>1 DEF Reading!Episodes, Reading!Length
<1>3. Reading!Lengths' = Reading!Lengths /\ \A e : Reading!Recorded(e)' = Reading!Recorded(e)
  BY <1>2 DEF Reading!Lengths, Reading!Recorded
<1>4. \A e : Reading!Before(e, "data")' = Reading!Before(e, "data")
        /\ Reading!Before(e, "video")' = Reading!Before(e, "video")
  BY <1>1 DEF Reading!Before
<1>5. \A e : /\ Reading!FileLocalOffset(e, "data")' = Reading!FileLocalOffset(e, "data")
             /\ Reading!FileLocalOffset(e, "video")' = Reading!FileLocalOffset(e, "video")
             /\ Reading!GlobalStart(e)' = Reading!GlobalStart(e)
  BY <1>3, <1>4, Zenon DEF Reading!FileLocalOffset, Reading!GlobalStart
<1>6. \A f : Reading!Shard(f, "data")' = Reading!Shard(f, "data")
  <2> TAKE f
  <2> DEFINE s == [e \in Reading!Episodes |-> IF disk.episodes[e]["data"] = f
                                              THEN Reading!Recorded(e) ELSE <<>>]
  <2>1. s' = s
    BY <1>1, <1>2, <1>3
  <2>2. Reading!Shard(f, "data") = Reading!FlattenSeq(s) /\ Reading!Shard(f, "data")' = Reading!FlattenSeq(s')
    BY DEF Reading!Shard
  <2> HIDE DEF s
  <2>3. QED
    BY <2>1, <2>2, Zenon
<1>7. \A f : Reading!ShardRows(f)' = Reading!ShardRows(f)
  BY <1>6, Zenon DEF Reading!ShardRows
<1>8. \A f : Reading!ShardStart(f)' = Reading!ShardStart(f)
  <2> TAKE f
  <2> DEFINE r == [g \in disk.files |-> Reading!ShardRows(g)]
  <2>1. r' = r
    BY <1>1, <1>7
  <2>2. Reading!ShardStart(f) = Reading!SumFunctionOnSet(r, 1 .. f - 1)
          /\ Reading!ShardStart(f)' = Reading!SumFunctionOnSet(r', 1 .. f - 1)
    BY DEF Reading!ShardStart
  <2> HIDE DEF r
  <2>3. QED
    BY <2>1, <2>2, Zenon
<1>9. \A e : Reading!RepairedShard(e)' = Reading!RepairedShard(e)
  <2> TAKE e
  <2> DEFINE P(f) == /\ Reading!ShardStart(f) <= Reading!GlobalStart(e)
                     /\ \A g \in disk.files : Reading!ShardStart(g) <= Reading!GlobalStart(e) => g <= f
             Q(f) == P(f)'
  <2>1. \A f : Q(f) <=> P(f)
    BY <1>1, <1>5, <1>8
  <2>2. Reading!RepairedShard(e) = (CHOOSE f \in disk.files : P(f))
          /\ Reading!RepairedShard(e)' = CHOOSE f \in disk.files : Q(f)
    BY <1>1 DEF Reading!RepairedShard
  <2> HIDE DEF P, Q
  <2>3. (CHOOSE f \in disk.files : P(f)) = CHOOSE f \in disk.files : Q(f)
    BY <2>1
  <2>4. QED
    BY <2>2, <2>3
<1>10. \A e : Reading!DataOffsets(e)' = Reading!DataOffsets(e)
  BY <1>1, <1>5, <1>8, <1>9 DEF Reading!DataOffsets, Reading!Named
<1>11. \A e : Reading!VideoOffsets(e)' = Reading!VideoOffsets(e)
  BY <1>1, <1>5 DEF Reading!VideoOffsets
<1>12. Reading!Admitted' = Reading!Admitted
  BY <1>1, <1>2 DEF Reading!Admitted, Reading!InSplit, Reading!Excluded
<1>13. QED
  BY <1>2, <1>10, <1>11, <1>12 DEF Reading!EpisodeIndex, Reading!Row

LEMMA ReadingNext ==
    ASSUME Reading!WindowsAssumption, ReadingInv, [Reading!Next]_Reading!vars
    PROVE  ReadingInv'
<1> USE DEF ReadingInv
<1>1. disk' = disk /\ reader' = reader
  BY DEF Reading!Next, Reading!Construct, Reading!Ask, Reading!Deliver, Reading!Fail, Reading!vars
<1>2. /\ (disk \in Datasets)' /\ ReaderTypes' /\ (reader.kind = "vlabench" => Reading!InOrder(disk))'
      /\ (reader.kind = "robocasa" => ~disk.stamped)'
  BY <1>1 DEF ReaderTypes, Reading!InOrder
<1>3. Reading!EpisodeIndex' = Reading!EpisodeIndex
  BY <1>1, SameIndex
<1>4. ASSUME index' = index PROVE Reading!Windows' = Reading!Windows
  BY <1>1, <1>4
     DEF Reading!Windows, Reading!WindowCounts, Reading!Starts, Reading!FamilyStarts, Reading!RangedStarts,
         Reading!DojoStarts, Reading!MinLength
<1>5. ASSUME sample' = sample PROVE Reading!Aligned'
  BY <1>1, <1>5, AlignedIs, SameReader DEF Reading!Aligned
<1>6. CASE Reading!Construct
  <2>1. index' = Reading!EpisodeIndex /\ sample' = sample
    BY <1>6 DEF Reading!Construct
  <2>2. asked' # None => at' \in 0 .. Reading!Windows' - 1
    <3> SUFFICES ASSUME asked # None PROVE at \in 0 .. Reading!Windows' - 1
      BY <1>6 DEF Reading!Construct
    <3>1. index' = index
      BY <2>1, WindowsOnceBuilt
    <3>2. QED
      BY <1>4, <3>1
  <2>3. QED
    BY <1>2, <1>3, <1>5, <2>1, <2>2
<1>7. CASE \E w \in 0 .. Reading!Windows - 1 : Reading!Ask(w)
  <2>1. PICK w \in 0 .. Reading!Windows - 1 : Reading!Ask(w)
    BY <1>7
  <2>2. index' = index /\ at' = w /\ sample' = None
    BY <2>1 DEF Reading!Ask
  <2>3. Reading!Aligned'
    BY <2>2 DEF Reading!Aligned
  <2>4. QED
    BY <1>2, <1>3, <1>4, <2>1, <2>2, <2>3
<1>8. CASE \E wrist \in {"seen", "black"} : Reading!Deliver(wrist)
  <2>1. PICK wrist \in {"seen", "black"} : Reading!Deliver(wrist)
    BY <1>8
  <2>2. at \in 0 .. Reading!Windows - 1 /\ index' = index /\ asked' = None
          /\ sample' = Reading!Sample(at, wrist)
    BY <2>1 DEF Reading!Deliver
  <2>3. index = Reading!EpisodeIndex
    BY <2>2, WindowsOnceBuilt
  <2>4. Right(Reading!Sample(at, wrist))
    BY <2>2, <2>3, SampleRight
  <2>5. Reading!Aligned'
    BY <1>1, <2>2, <2>4, SameReader
  <2>6. QED
    BY <1>2, <1>3, <2>2, <2>5
<1>9. CASE Reading!Fail
  <2>1. index' = index /\ sample' = sample
    BY <1>9 DEF Reading!Fail
  <2>2. at \in 0 .. Reading!Windows - 1
    BY <1>9 DEF Reading!Fail
  <2>3. index = Reading!EpisodeIndex /\ Reading!Windows \in Nat \ {0}
    BY <2>2, WindowsOnceBuilt
  <2>4. Reading!NextEpisodeStart(at) \in 0 .. Reading!Windows - 1
    <3> DEFINE later == {e \in DOMAIN index : e > Reading!EpisodeOf(at)}
    <3>1. DOMAIN index = Reading!Admitted /\ \A e \in Reading!Admitted : e \in Nat
            /\ Reading!FirstWindow(e) \in Nat
      BY <2>3, IndexIs
    <3>2. CASE later = {}
      BY <2>3, <3>2 DEF Reading!NextEpisodeStart
    <3>3. CASE later # {}
      <4>1. later \in SUBSET Nat /\ later \in SUBSET Reading!Admitted
        BY <3>1
      <4>2. Reading!Min(later) \in later
        <5> HIDE DEF later
        <5>1. QED
          BY <3>3, <4>1, FirstOf DEF Reading!Min
      <4>3. Reading!FirstWindow(Reading!Min(later)) \in Nat
        BY <3>1, <4>1, <4>2
      <4>4. Reading!FirstWindow(Reading!Min(later)) % Reading!Windows \in 0 .. Reading!Windows - 1
        BY <2>3, <4>3
      <4>5. QED
        BY <3>3, <4>4 DEF Reading!NextEpisodeStart
    <3>4. QED
      BY <3>2, <3>3
  <2>5. (at + 1) % Reading!Windows \in 0 .. Reading!Windows - 1
    BY <2>2, <2>3
  <2>6. asked' # None => at' \in 0 .. Reading!Windows - 1
    BY <1>9, <2>4, <2>5 DEF Reading!Fail
  <2>7. QED
    BY <1>2, <1>3, <1>4, <1>5, <2>1, <2>6
<1>10. CASE UNCHANGED Reading!vars
  <2>1. index' = index /\ sample' = sample /\ asked' = asked /\ at' = at
    BY <1>10 DEF Reading!vars
  <2>2. QED
    BY <1>2, <1>3, <1>4, <1>5, <2>1
<1>11. QED
  BY <1>6, <1>7, <1>8, <1>9, <1>10 DEF Reading!Next

(* Every start of an admitted episode is the window at its place among the *)
(* episode's, and no other.                                                *)
LEMMA EveryWindow == ASSUME Reading!WindowsAssumption, ReadingInv PROVE Reading!Exhaustive
<1> USE DEF ReadingInv
<1> SUFFICES ASSUME index # <<>>, reader.split = "train", reader.stride = 1,
                    NEW e \in Reading!Admitted, NEW o \in 0 .. Reading!Length(e) - Reading!MinLength
             PROVE  Cardinality({w \in 0 .. Reading!Windows - 1 :
                                         Reading!EpisodeOf(w) = e /\ Reading!Offset(w) = o}) = 1
  <2> DEFINE W(e, o) == {w \in 0 .. Reading!Windows - 1 : Reading!EpisodeOf(w) = e /\ Reading!Offset(w) = o}
  <2>1. \A e, o : Reading!Cardinality(W(e, o)) = Cardinality(W(e, o))
    BY SameLibrary
  <2>2. Reading!Exhaustive =
           (index # <<>> /\ reader.split = "train" /\ reader.stride = 1 =>
              \A e \in Reading!Admitted : \A o \in 0 .. Reading!Length(e) - Reading!MinLength :
                 Reading!Cardinality(W(e, o)) = 1)
    BY DEF Reading!Exhaustive
  <2> HIDE DEF W
  <2>3. SUFFICES ASSUME index # <<>>, reader.split = "train", reader.stride = 1,
                        NEW e \in Reading!Admitted, NEW o \in 0 .. Reading!Length(e) - Reading!MinLength
                 PROVE  Cardinality(W(e, o)) = 1
    BY <2>1, <2>2
  <2>4. QED
    BY <2>3 DEF W
<1>1. index = Reading!EpisodeIndex
  OBVIOUS
<1>2. /\ e \in Nat /\ Reading!Length(e) \in Nat /\ Reading!WindowCounts[e] = Reading!Starts(Reading!Length(e))
      /\ Reading!WindowCounts[e] \in Nat /\ Reading!FirstWindow(e) \in Nat /\ Reading!Windows \in Nat
  BY <1>1, IndexIs
<1>3. Reading!MinLength \in Nat
  BY DEF Reading!MinLength, Reading!WindowsAssumption
<1>4. o \in Nat /\ o < Reading!Starts(Reading!Length(e))
  <2>1. o \in Nat /\ o <= Reading!Length(e) - Reading!MinLength
    BY <1>2, <1>3
  <2>2. QED
    BY <1>2, <2>1, StartsInside
<1> DEFINE v == Reading!FirstWindow(e) + o
<1>5. v \in 0 .. Reading!Windows - 1
  <2>1. Reading!FirstWindow(e) + Reading!WindowCounts[e] <= Reading!Windows
    BY <1>1, WindowsApart
  <2>2. QED
    BY <1>2, <1>4, <2>1
<1>6. ASSUME NEW g \in Reading!Admitted, Reading!FirstWindow(g) <= v,
             v < Reading!FirstWindow(g) + Reading!WindowCounts[g]
      PROVE  g = e
  <2>1. g \in Nat /\ Reading!WindowCounts[g] \in Nat /\ Reading!FirstWindow(g) \in Nat
    BY <1>1, IndexIs
  <2>2. e < g => Reading!FirstWindow(e) + Reading!WindowCounts[e] <= Reading!FirstWindow(g)
    BY <1>1, WindowsApart
  <2>3. g < e => Reading!FirstWindow(g) + Reading!WindowCounts[g] <= Reading!FirstWindow(e)
    BY <1>1, WindowsApart
  <2>4. e \in Nat /\ Reading!FirstWindow(e) \in Nat /\ Reading!WindowCounts[e] \in Nat /\ v \in Nat
        /\ Reading!FirstWindow(e) <= v /\ v < Reading!FirstWindow(e) + Reading!WindowCounts[e]
    BY <1>2, <1>4
  <2> HIDE DEF v
  <2>5. QED
    BY <1>6, <2>1, <2>2, <2>3, <2>4
<1>7. Reading!EpisodeOf(v) = e
  BY <1>1, <1>5, <1>6, WindowFound
<1>8. Reading!Offset(v) = o
  BY <1>2, <1>4, <1>7 DEF Reading!Offset
<1>9. ASSUME NEW w \in 0 .. Reading!Windows - 1, Reading!EpisodeOf(w) = e, Reading!Offset(w) = o PROVE w = v
  <2>1. Reading!Offset(w) = (w - Reading!FirstWindow(e)) * 1
    BY <1>9 DEF Reading!Offset
  <2>2. QED
    BY <1>2, <1>4, <1>9, <2>1
<1> HIDE DEF v
<1>10. {w \in 0 .. Reading!Windows - 1 : Reading!EpisodeOf(w) = e /\ Reading!Offset(w) = o} = {v}
  BY <1>5, <1>7, <1>8, <1>9
<1>11. QED
  BY <1>10, FS_Singleton
-----------------------------------------------------------------------------
(* The readers' invariant holds of every data set.                         *)
THEOREM ReadingInvariance == Reading!WindowsAssumption => (Reading!Spec => []ReadingInv)
<1> SUFFICES ASSUME Reading!WindowsAssumption PROVE Reading!Spec => []ReadingInv
  OBVIOUS
<1>1. Reading!Init => ReadingInv
  BY ReadingInit
<1>2. ReadingInv /\ [Reading!Next]_Reading!vars => ReadingInv'
  BY ReadingNext
<1>3. QED
  BY <1>1, <1>2, PTL DEF Reading!Spec
=============================================================================
