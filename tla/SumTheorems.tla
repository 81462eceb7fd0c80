---------------------------- MODULE SumTheorems ----------------------------
(***************************************************************************)
(* Sums over finite sets, as SumFunctionOnSet of the community modules     *)
(* defines them: by a recursive function that takes one element after the  *)
(* other out of the set.                                                   *)
(*                                                                         *)
(* An induction over finite sets is an argument about a smallest           *)
(* counterexample: a set of subsets of a finite set that is not empty has  *)
(* a member with no smaller one (SmallestSet).                             *)
(***************************************************************************)
EXTENDS Integers, Functions, Folds, FiniteSetTheorems, TLAPS

LEMMA SmallestSet ==
    ASSUME NEW S, IsFiniteSet(S), NEW B, B \subseteq SUBSET S, B # {}
    PROVE  \E T \in B : \A U \in B : U \subseteq T => U = T
  <1> DEFINE R == StrictSubsetOrdering(S)
  <1>1. IsWellFoundedOn(R, SUBSET S)
    BY FS_StrictSubsetOrderingWellFounded, FS_FiniteSubsetsOfFinite
  <1> HIDE DEF R
  <1>2. PICK T \in B : \A U \in B : ~ (<<U, T>> \in R)
    BY <1>1, WFMin
  <1>3. \A U \in B : U \subseteq T => U = T
    BY <1>2 DEF R, StrictSubsetOrdering
  <1> QED
    BY <1>3

(***************************************************************************)
(* The recursive function behind a sum.                                    *)
(***************************************************************************)
Some(s) == CHOOSE x \in s : TRUE

IsIter(f, S, g) ==
    g = [s \in SUBSET S |-> IF s = {} THEN 0 ELSE f[Some(s)] + g[s \ {Some(s)}]]

Iter(f, S) == CHOOSE g : IsIter(f, S, g)

LEMMA SomeIn == ASSUME NEW s, s # {} PROVE Some(s) \in s
  BY DEF Some

\* The two definitions of a sum are the same.
LEMMA SumIsIter == \A f, S : SumFunctionOnSet(f, S) = Iter(f, S)[S]
  BY DEF SumFunctionOnSet, FoldFunctionOnSet, MapThenFoldSet, Iter, IsIter, Some

LEMMA IterUnique ==
    ASSUME NEW f, NEW S, IsFiniteSet(S), NEW T, NEW g, NEW h, IsIter(f, S, g), IsIter(f, T, h)
    PROVE  \A s \in SUBSET S : s \subseteq T => g[s] = h[s]
  <1> DEFINE B == {s \in SUBSET S : s \subseteq T /\ g[s] # h[s]}
  <1>1. SUFFICES ASSUME B # {} PROVE FALSE
    OBVIOUS
  <1>2. PICK s \in B : \A u \in B : u \subseteq s => u = s
    <2>1. B \subseteq SUBSET S
      OBVIOUS
    <2> HIDE DEF B
    <2> QED
      BY <1>1, <2>1, SmallestSet
  <1>3. /\ g[s] = IF s = {} THEN 0 ELSE f[Some(s)] + g[s \ {Some(s)}]
        /\ h[s] = IF s = {} THEN 0 ELSE f[Some(s)] + h[s \ {Some(s)}]
    BY <1>2 DEF IsIter
  <1>4. ASSUME s # {}
        PROVE  g[s \ {Some(s)}] = h[s \ {Some(s)}]
    <2>1. Some(s) \in s
      BY <1>4, SomeIn
    <2>2. s \ {Some(s)} \in SUBSET S /\ s \ {Some(s)} \subseteq T /\ s \ {Some(s)} # s
      BY <1>2, <2>1
    <2>3. s \ {Some(s)} \notin B
      BY <1>2, <2>2
    <2> QED
      BY <2>2, <2>3
  <1>5. g[s] # h[s]
    BY <1>2
  <1> QED
    BY <1>3, <1>4, <1>5

LEMMA IterExists ==
    ASSUME NEW f, NEW S, IsFiniteSet(S)
    PROVE  IsIter(f, S, Iter(f, S))
  <1> DEFINE B == {T \in SUBSET S : ~IsIter(f, T, Iter(f, T))}
  <1>1. SUFFICES ASSUME B # {} PROVE FALSE
    <2>1. S \notin B => IsIter(f, S, Iter(f, S))
      OBVIOUS
    <2> QED
      BY <2>1
  <1>2. PICK T \in B : \A U \in B : U \subseteq T => U = T
    <2>1. B \subseteq SUBSET S
      OBVIOUS
    <2> HIDE DEF B
    <2> QED
      BY <1>1, <2>1, SmallestSet
  <1>3. \A U \in SUBSET T : U # T => IsIter(f, U, Iter(f, U))
    BY <1>2
  <1>4. \A U \in SUBSET T : IsFiniteSet(U)
    BY <1>2, FS_Subset
  <1> HIDE DEF B
  <1> DEFINE G(u) == Iter(f, u)[u]
             g == [s \in SUBSET T |-> IF s = {} THEN 0 ELSE f[Some(s)] + G(s \ {Some(s)})]
  <1>5. ASSUME NEW s \in SUBSET T, s # {}
        PROVE  g[s \ {Some(s)}] = G(s \ {Some(s)})
    <2> DEFINE u == s \ {Some(s)}
               v == u \ {Some(u)}
    <2>1. u \in SUBSET T /\ u # T
      BY <1>5, SomeIn
    <2>2. IsIter(f, u, Iter(f, u))
      BY <1>3, <2>1
    <2>3. Iter(f, u)[u] = IF u = {} THEN 0 ELSE f[Some(u)] + Iter(f, u)[v]
      <3> HIDE DEF u
      <3>1. \A k : IsIter(f, u, k) => k[u] = IF u = {} THEN 0 ELSE f[Some(u)] + k[v]
        BY DEF IsIter
      <3> QED
        BY <2>2, <3>1
    <2>4. ASSUME u # {}
          PROVE  Iter(f, u)[v] = Iter(f, v)[v]
      <3>1. v \in SUBSET T /\ v # T /\ v \subseteq u
        BY <2>1, <2>4, SomeIn
      <3>2. IsIter(f, v, Iter(f, v)) /\ IsFiniteSet(v)
        BY <1>3, <1>4, <3>1
      <3> HIDE DEF u, v
      <3> QED
        BY <2>2, <3>1, <3>2, IterUnique
    <2>5. g[u] = IF u = {} THEN 0 ELSE f[Some(u)] + Iter(f, v)[v]
      BY <2>1
    <2> QED
      BY <2>3, <2>4, <2>5
  <1>6. IsIter(f, T, g)
    <2>1. g = [s \in SUBSET T |-> IF s = {} THEN 0 ELSE f[Some(s)] + g[s \ {Some(s)}]]
      BY <1>5
    <2> QED
      BY <2>1 DEF IsIter
  <1> HIDE DEF g
  <1>7. IsIter(f, T, Iter(f, T))
    BY <1>6 DEF Iter
  <1> QED
    BY <1>2, <1>7 DEF B

LEMMA SumStep ==
    ASSUME NEW f, NEW S, IsFiniteSet(S)
    PROVE  SumFunctionOnSet(f, S) =
              IF S = {} THEN 0 ELSE f[Some(S)] + SumFunctionOnSet(f, S \ {Some(S)})
  <1> DEFINE T == S \ {Some(S)}
  <1>1. IsFiniteSet(T)
    BY FS_Subset
  <1>2. IsIter(f, S, Iter(f, S)) /\ IsIter(f, T, Iter(f, T))
    BY <1>1, IterExists
  <1>3. \A k : IsIter(f, S, k) => k[S] = IF S = {} THEN 0 ELSE f[Some(S)] + k[T]
    BY DEF IsIter
  <1>4. Iter(f, T)[T] = Iter(f, S)[T]
    BY <1>1, <1>2, IterUnique
  <1> HIDE DEF T
  <1>5. Iter(f, S)[S] = IF S = {} THEN 0 ELSE f[Some(S)] + Iter(f, T)[T]
    BY <1>2, <1>3, <1>4
  <1> QED
    BY <1>5, SumIsIter DEF T

LEMMA SumInt ==
    ASSUME NEW S, IsFiniteSet(S), NEW f, \A x \in S : f[x] \in Int
    PROVE  SumFunctionOnSet(f, S) \in Int
  <1> DEFINE B == {T \in SUBSET S : SumFunctionOnSet(f, T) \notin Int}
  <1>1. SUFFICES ASSUME B # {} PROVE FALSE
    <2>1. S \notin B => SumFunctionOnSet(f, S) \in Int
      OBVIOUS
    <2> QED
      BY <2>1
  <1>2. PICK T \in B : \A U \in B : U \subseteq T => U = T
    <2>1. B \subseteq SUBSET S
      OBVIOUS
    <2> HIDE DEF B
    <2> QED
      BY <1>1, <2>1, SmallestSet
  <1>3. IsFiniteSet(T) /\ T \subseteq S
    BY <1>2, FS_Subset
  <1>4. SumFunctionOnSet(f, T) = IF T = {} THEN 0 ELSE f[Some(T)] + SumFunctionOnSet(f, T \ {Some(T)})
    BY <1>3, SumStep
  <1>5. T # {}
    BY <1>2, <1>4
  <1>6. Some(T) \in T
    BY <1>5, SomeIn
  <1>7. T \ {Some(T)} \notin B
    BY <1>2, <1>6
  <1>8. SumFunctionOnSet(f, T \ {Some(T)}) \in Int
    BY <1>3, <1>7
  <1>9. f[Some(T)] \in Int
    BY <1>3, <1>6
  <1> QED
    BY <1>2, <1>4, <1>5, <1>8, <1>9

\* Whichever element is taken out first, the sum is the same.
LEMMA SumTake ==
    ASSUME NEW S, IsFiniteSet(S), NEW f, \A x \in S : f[x] \in Int
    PROVE  \A x \in S : SumFunctionOnSet(f, S) = f[x] + SumFunctionOnSet(f, S \ {x})
  <1> DEFINE B == {T \in SUBSET S : \E x \in T :
                       SumFunctionOnSet(f, T) # f[x] + SumFunctionOnSet(f, T \ {x})}
  <1>1. SUFFICES ASSUME B # {} PROVE FALSE
    <2>1. S \notin B => \A x \in S : SumFunctionOnSet(f, S) = f[x] + SumFunctionOnSet(f, S \ {x})
      OBVIOUS
    <2> QED
      BY <2>1
  <1>2. PICK T \in B : \A U \in B : U \subseteq T => U = T
    <2>1. B \subseteq SUBSET S
      OBVIOUS
    <2> HIDE DEF B
    <2> QED
      BY <1>1, <2>1, SmallestSet
  <1>3. T \in SUBSET S /\ IsFiniteSet(T)
    BY <1>2, FS_Subset
  <1>4. PICK x \in T : SumFunctionOnSet(f, T) # f[x] + SumFunctionOnSet(f, T \ {x})
    BY <1>2
  <1> DEFINE c == Some(T)
             U == T \ {c}
             V == T \ {x}
             W == U \ {x}
  <1>5. c \in T
    BY <1>4, SomeIn
  <1>6. SumFunctionOnSet(f, T) = f[c] + SumFunctionOnSet(f, U)
    BY <1>3, <1>4, SumStep
  <1>7. x # c
    BY <1>4, <1>6
  <1>8. U \notin B /\ V \notin B
    BY <1>2, <1>4, <1>5
  <1> HIDE DEF c
  <1>9. SumFunctionOnSet(f, U) = f[x] + SumFunctionOnSet(f, W)
    BY <1>3, <1>4, <1>7, <1>8
  <1>10. SumFunctionOnSet(f, V) = f[c] + SumFunctionOnSet(f, V \ {c})
    BY <1>3, <1>5, <1>7, <1>8
  <1>11. V \ {c} = W
    OBVIOUS
  <1>12. f[x] \in Int /\ f[c] \in Int
    BY <1>3, <1>4, <1>5
  <1>13. SumFunctionOnSet(f, W) \in Int
    <2>1. IsFiniteSet(W) /\ \A y \in W : f[y] \in Int
      BY <1>3, FS_Subset
    <2> QED
      BY <2>1, SumInt
  <1>14. SumFunctionOnSet(f, T) # f[x] + SumFunctionOnSet(f, V)
    BY <1>4
  <1>15. SumFunctionOnSet(f, V) = f[c] + SumFunctionOnSet(f, W)
    BY <1>10, <1>11
  <1> HIDE DEF B, U, V, W
  <1> QED
    BY <1>6, <1>9, <1>12, <1>13, <1>14, <1>15

-----------------------------------------------------------------------------
(***************************************************************************)
(* What the proofs about the models use.                                   *)
(***************************************************************************)
LEMMA SumEmpty == \A f : SumFunctionOnSet(f, {}) = 0
  BY SumStep, FS_EmptySet

LEMMA SumOne ==
    ASSUME NEW x, NEW f, f[x] \in Int
    PROVE  SumFunctionOnSet(f, {x}) = f[x]
  <1>1. IsFiniteSet({x}) /\ {x} \ {x} = {}
    BY FS_Singleton
  <1>2. SumFunctionOnSet(f, {x}) = f[x] + SumFunctionOnSet(f, {x} \ {x})
    BY <1>1, SumTake
  <1> QED
    BY <1>1, <1>2, SumEmpty

\* A sum is the sum over a part and the sum over the rest.
LEMMA SumSplit ==
    ASSUME NEW S, IsFiniteSet(S), NEW f, \A x \in S : f[x] \in Int
    PROVE  \A T \in SUBSET S :
              SumFunctionOnSet(f, S) = SumFunctionOnSet(f, T) + SumFunctionOnSet(f, S \ T)
  <1> DEFINE B == {T \in SUBSET S :
                SumFunctionOnSet(f, S) # SumFunctionOnSet(f, T) + SumFunctionOnSet(f, S \ T)}
  <1>1. SUFFICES ASSUME B # {} PROVE FALSE
    OBVIOUS
  <1>2. PICK T \in B : \A U \in B : U \subseteq T => U = T
    <2>1. B \subseteq SUBSET S
      OBVIOUS
    <2> HIDE DEF B
    <2> QED
      BY <1>1, <2>1, SmallestSet
  <1>3. T \in SUBSET S /\ IsFiniteSet(T)
    BY <1>2, FS_Subset
  <1>4. SumFunctionOnSet(f, S) \in Int
    BY SumInt
  <1>5. T # {}
    <2>1. SUFFICES ASSUME T = {}
                   PROVE  FALSE
      OBVIOUS
    <2>2. S \ T = S
      BY <2>1
    <2>3. SumFunctionOnSet(f, T) = 0
      BY <2>1, SumEmpty
    <2>4. SumFunctionOnSet(f, S) # SumFunctionOnSet(f, T) + SumFunctionOnSet(f, S \ T)
      BY <1>2
    <2> HIDE DEF B
    <2> QED
      BY <1>4, <2>2, <2>3, <2>4
  <1>6. PICK x \in T : TRUE
    BY <1>5
  <1> DEFINE U == T \ {x}
  <1>7. SumFunctionOnSet(f, S) = SumFunctionOnSet(f, U) + SumFunctionOnSet(f, S \ U)
    BY <1>2, <1>3, <1>6
  <1>8. SumFunctionOnSet(f, T) = f[x] + SumFunctionOnSet(f, U)
    BY <1>3, <1>6, SumTake
  <1>9. SumFunctionOnSet(f, S \ U) = f[x] + SumFunctionOnSet(f, S \ T)
    <2>1. IsFiniteSet(S \ U) /\ x \in S \ U /\ (S \ U) \ {x} = S \ T
      BY <1>3, <1>6, FS_Subset
    <2>2. \A y \in S \ U : f[y] \in Int
      OBVIOUS
    <2> HIDE DEF U
    <2>3. SumFunctionOnSet(f, S \ U) = f[x] + SumFunctionOnSet(f, (S \ U) \ {x})
      BY <2>1, <2>2, SumTake
    <2> QED
      BY <2>1, <2>3
  <1>10. SumFunctionOnSet(f, U) \in Int /\ SumFunctionOnSet(f, S \ T) \in Int
    <2>1. IsFiniteSet(U) /\ IsFiniteSet(S \ T)
      BY <1>3, FS_Subset
    <2>2. (\A y \in U : f[y] \in Int) /\ (\A y \in S \ T : f[y] \in Int)
      BY <1>3
    <2> QED
      BY <2>1, <2>2, SumInt
  <1>11. f[x] \in Int
    BY <1>3, <1>6
  <1>12. SumFunctionOnSet(f, S) # SumFunctionOnSet(f, T) + SumFunctionOnSet(f, S \ T)
    BY <1>2
  <1> HIDE DEF B, U
  <1> QED
    BY <1>4, <1>7, <1>8, <1>9, <1>10, <1>11, <1>12

\* The sum over two sets that have nothing in common.
LEMMA SumDisjoint ==
    ASSUME NEW S, IsFiniteSet(S), NEW T, IsFiniteSet(T), S \cap T = {},
           NEW f, \A x \in S \union T : f[x] \in Int
    PROVE  SumFunctionOnSet(f, S \union T) = SumFunctionOnSet(f, S) + SumFunctionOnSet(f, T)
  <1>1. IsFiniteSet(S \union T)
    BY FS_Union
  <1>2. S \in SUBSET (S \union T) /\ (S \union T) \ S = T
    OBVIOUS
  <1>3. SumFunctionOnSet(f, S \union T)
            = SumFunctionOnSet(f, S) + SumFunctionOnSet(f, (S \union T) \ S)
    BY <1>1, <1>2, SumSplit
  <1> QED
    BY <1>2, <1>3

LEMMA SumAdd ==
    ASSUME NEW S, IsFiniteSet(S), NEW x, x \notin S,
           NEW f, \A y \in S \union {x} : f[y] \in Int
    PROVE  SumFunctionOnSet(f, S \union {x}) = SumFunctionOnSet(f, S) + f[x]
  <1>1. IsFiniteSet({x}) /\ S \cap {x} = {} /\ f[x] \in Int
    BY FS_Singleton
  <1>2. SumFunctionOnSet(f, {x}) = f[x]
    BY <1>1, SumOne
  <1>3. SumFunctionOnSet(f, S \union {x}) = SumFunctionOnSet(f, S) + SumFunctionOnSet(f, {x})
    BY <1>1, SumDisjoint
  <1> QED
    BY <1>2, <1>3

\* Functions that agree on a set have the same sum over it: otherwise a smallest
\* part on which the sums differ would have a part with one element less.
LEMMA SumSame ==
    ASSUME NEW S, IsFiniteSet(S), NEW f, NEW g, \A x \in S : f[x] = g[x]
    PROVE  SumFunctionOnSet(f, S) = SumFunctionOnSet(g, S)
  <1> DEFINE B == {T \in SUBSET S : SumFunctionOnSet(f, T) # SumFunctionOnSet(g, T)}
  <1>1. SUFFICES ASSUME B # {} PROVE FALSE
    <2>1. S \notin B => SumFunctionOnSet(f, S) = SumFunctionOnSet(g, S)
      OBVIOUS
    <2> QED
      BY <2>1
  <1>2. PICK T \in B : \A U \in B : U \subseteq T => U = T
    <2>1. B \subseteq SUBSET S
      OBVIOUS
    <2> HIDE DEF B
    <2> QED
      BY <1>1, <2>1, SmallestSet
  <1>3. IsFiniteSet(T) /\ T \subseteq S
    BY <1>2, FS_Subset
  <1>4. /\ SumFunctionOnSet(f, T) = IF T = {} THEN 0 ELSE f[Some(T)] + SumFunctionOnSet(f, T \ {Some(T)})
        /\ SumFunctionOnSet(g, T) = IF T = {} THEN 0 ELSE g[Some(T)] + SumFunctionOnSet(g, T \ {Some(T)})
    BY <1>3, SumStep
  <1>5. T # {}
    BY <1>2, <1>4
  <1>6. Some(T) \in T
    BY <1>5, SomeIn
  <1>7. T \ {Some(T)} \notin B
    BY <1>2, <1>6
  <1>8. SumFunctionOnSet(f, T \ {Some(T)}) = SumFunctionOnSet(g, T \ {Some(T)})
    BY <1>3, <1>7
  <1>9. f[Some(T)] = g[Some(T)]
    BY <1>3, <1>6
  <1> QED
    BY <1>2, <1>4, <1>5, <1>8, <1>9

LEMMA SumNat ==
    ASSUME NEW S, IsFiniteSet(S), NEW f, \A x \in S : f[x] \in Nat
    PROVE  SumFunctionOnSet(f, S) \in Nat
  <1> DEFINE B == {T \in SUBSET S : SumFunctionOnSet(f, T) \notin Nat}
  <1>1. SUFFICES ASSUME B # {} PROVE FALSE
    <2>1. S \notin B => SumFunctionOnSet(f, S) \in Nat
      OBVIOUS
    <2> QED
      BY <2>1
  <1>2. PICK T \in B : \A U \in B : U \subseteq T => U = T
    <2>1. B \subseteq SUBSET S
      OBVIOUS
    <2> HIDE DEF B
    <2> QED
      BY <1>1, <2>1, SmallestSet
  <1>3. IsFiniteSet(T) /\ T \subseteq S
    BY <1>2, FS_Subset
  <1>4. SumFunctionOnSet(f, T) = IF T = {} THEN 0 ELSE f[Some(T)] + SumFunctionOnSet(f, T \ {Some(T)})
    BY <1>3, SumStep
  <1>5. T # {}
    BY <1>2, <1>4
  <1>6. Some(T) \in T
    BY <1>5, SomeIn
  <1>7. T \ {Some(T)} \notin B
    BY <1>2, <1>6
  <1>8. SumFunctionOnSet(f, T \ {Some(T)}) \in Nat
    BY <1>3, <1>7
  <1>9. f[Some(T)] \in Nat
    BY <1>3, <1>6
  <1> QED
    BY <1>2, <1>4, <1>5, <1>8, <1>9

=============================================================================
