------------------------------ MODULE Induction ------------------------------
(***************************************************************************)
(* Induction and recursion for proofs, stated of sets instead of           *)
(* predicates so that a lemma can be cited as it stands; sums of functions *)
(* with a finite domain.                                                   *)
(***************************************************************************)
EXTENDS Integers, FiniteSetsExt, Functions, FiniteSetTheorems, TLAPS

(***************************************************************************)
(* Induction.                                                              *)
(***************************************************************************)

\* A set of subsets of a finite set that has whatever has all its strict
\* subsets in it has all.
LEMMA SubsetInduction ==
    ASSUME NEW S, IsFiniteSet(S), NEW F,
           \A T \in SUBSET S : (\A U \in SUBSET T : U # T => U \in F) => T \in F
    PROVE  SUBSET S \subseteq F
<1> SUFFICES ASSUME (SUBSET S) \ F # {} PROVE FALSE
  OBVIOUS
<1> DEFINE B == (SUBSET S) \ F
<1>1. B \subseteq FiniteSubsetsOf(S) /\ B # {}
  BY FS_Subset DEF FiniteSubsetsOf
<1>2. IsWellFoundedOn(StrictSubsetOrdering(S), FiniteSubsetsOf(S))
  BY FS_StrictSubsetOrderingWellFounded
<1>3. \E x \in B : \A y \in B : ~(<<y, x>> \in StrictSubsetOrdering(S))
  <2> HIDE DEF B
  <2> QED BY <1>1, <1>2, WFMin, SMT
<1>4. PICK T \in B : \A U \in B : ~(<<U, T>> \in StrictSubsetOrdering(S))
  BY <1>3
<1>5. ASSUME NEW U \in SUBSET T, U # T PROVE U \in F
  <2>1. U \in SUBSET S /\ T \in SUBSET S
    BY <1>4
  <2>2. <<U, T>> \in StrictSubsetOrdering(S)
    BY <1>5, <2>1 DEF StrictSubsetOrdering
  <2> QED BY <1>4, <2>1, <2>2
<1> QED BY <1>4, <1>5

\* The same, from one element less.
LEMMA FiniteInduction ==
    ASSUME NEW S, IsFiniteSet(S), NEW F, {} \in F,
           \A T \in SUBSET S : \A x \in T : T \ {x} \in F => T \in F
    PROVE  SUBSET S \subseteq F
<1>1. ASSUME NEW T \in SUBSET S, \A U \in SUBSET T : U # T => U \in F PROVE T \in F
  <2>1. CASE T = {}
    BY <2>1
  <2>2. CASE T # {}
    <3>1. PICK x \in T : TRUE
      BY <2>2
    <3>2. T \ {x} \in SUBSET T /\ T \ {x} # T
      BY <3>1
    <3> QED BY <1>1, <3>1, <3>2
  <2> QED BY <2>1, <2>2
<1> QED BY <1>1, SubsetInduction

\* Every set of natural numbers has a least one.
LEMMA Least ==
    ASSUME NEW S \in SUBSET Nat, S # {}
    PROVE  \E n \in S : \A m \in S : n <= m
<1> DEFINE T == {1..n : n \in S}
<1>1. T \subseteq FiniteSubsetsOf(Nat) /\ T # {}
  <2>1. ASSUME NEW n \in S PROVE 1..n \in SUBSET Nat /\ IsFiniteSet(1..n)
    BY FS_Interval
  <2> QED BY <2>1 DEF FiniteSubsetsOf
<1>2. IsWellFoundedOn(StrictSubsetOrdering(Nat), FiniteSubsetsOf(Nat))
  BY FS_StrictSubsetOrderingWellFounded
<1>3. \E x \in T : \A y \in T : ~(<<y, x>> \in StrictSubsetOrdering(Nat))
  <2> HIDE DEF T
  <2> QED BY <1>1, <1>2, WFMin, SMT
<1>4. PICK n \in S : \A m \in S : ~(<<1..m, 1..n>> \in StrictSubsetOrdering(Nat))
  BY <1>3
<1>5. ASSUME NEW m \in S, m < n PROVE FALSE
  <2>1. 1..m \subseteq 1..n /\ n \in 1..n /\ n \notin 1..m /\ 1..m \in SUBSET Nat /\ 1..n \in SUBSET Nat
    BY <1>5
  <2> QED BY <1>4, <2>1 DEF StrictSubsetOrdering
<1> QED BY <1>4, <1>5

\* Induction on natural numbers.
LEMMA NumberInduction ==
    ASSUME NEW S, 0 \in S, \A n \in Nat : n \in S => n + 1 \in S
    PROVE  Nat \subseteq S
<1> SUFFICES ASSUME Nat \ S # {} PROVE FALSE
  OBVIOUS
<1>1. PICK n \in Nat \ S : \A m \in Nat \ S : n <= m
  BY Least
<1>2. n # 0 /\ n - 1 \in Nat /\ n - 1 \notin S
  BY <1>1
<1> QED BY <1>1, <1>2

(***************************************************************************)
(* Recursion over the subsets of a finite set: a subset s is taken apart   *)
(* at C[s], and H[s][v] is what comes of it when v came of the rest.       *)
(***************************************************************************)
Unfolds(g, T, C, base, H) ==
    \A s \in SUBSET T : g[s] = IF s = {} THEN base ELSE H[s][g[s \ {C[s]}]]

\* There is at most one such function.
LEMMA RecursionUnique ==
    ASSUME NEW S, IsFiniteSet(S), NEW C, \A s \in SUBSET S : s # {} => C[s] \in s,
           NEW base, NEW H, NEW g, Unfolds(g, S, C, base, H), NEW h, Unfolds(h, S, C, base, H)
    PROVE  \A s \in SUBSET S : g[s] = h[s]
<1> DEFINE F == {s \in SUBSET S : g[s] = h[s]}
<1>1. ASSUME NEW T \in SUBSET S, \A U \in SUBSET T : U # T => U \in F PROVE T \in F
  <2>1. CASE T = {}
    BY <2>1 DEF Unfolds
  <2>2. CASE T # {}
    <3>1. T \ {C[T]} \in SUBSET T /\ T \ {C[T]} # T
      BY <2>2
    <3>2. g[T \ {C[T]}] = h[T \ {C[T]}]
      BY <1>1, <3>1
    <3> QED BY <2>2, <3>2 DEF Unfolds
  <2> QED BY <2>1, <2>2
<1> HIDE DEF F
<1>2. SUBSET S \subseteq F
  BY <1>1, SubsetInduction
<1> QED BY <1>2 DEF F

\* There is one.
LEMMA Recursion ==
    ASSUME NEW S, IsFiniteSet(S), NEW C, \A s \in SUBSET S : s # {} => C[s] \in s,
           NEW V, NEW base \in V, NEW H \in [SUBSET S -> [V -> V]]
    PROVE  \E g \in [SUBSET S -> V] : Unfolds(g, S, C, base, H)
<1> DEFINE On(T) == \E g \in [SUBSET T -> V] : Unfolds(g, T, C, base, H)
           G(T) == CHOOSE g \in [SUBSET T -> V] : Unfolds(g, T, C, base, H)
           Value(s) == IF s = {} THEN base ELSE H[s][G(s \ {C[s]})[s \ {C[s]}]]
           F == {T \in SUBSET S : On(T)}
<1>1. ASSUME NEW T \in SUBSET S, On(T)
      PROVE  G(T) \in [SUBSET T -> V] /\ Unfolds(G(T), T, C, base, H)
  BY <1>1
<1> HIDE DEF G
<1>2. ASSUME NEW T \in SUBSET S, On(T), NEW U \in SUBSET T, On(U)
      PROVE  G(T)[U] = G(U)[U]
  <2>1. Unfolds(G(T), U, C, base, H) /\ Unfolds(G(U), U, C, base, H)
    BY <1>1, <1>2 DEF Unfolds
  <2>2. IsFiniteSet(U) /\ U \in SUBSET S /\ U \in SUBSET U
    BY FS_Subset
  <2> QED BY <2>1, <2>2, RecursionUnique
<1>3. ASSUME NEW T \in SUBSET S, \A U \in SUBSET T : U # T => U \in F PROVE T \in F
  <2> DEFINE h == [s \in SUBSET T |-> IF s = T THEN Value(T) ELSE G(s)[s]]
  <2>1. ASSUME NEW s \in SUBSET T, s # T
        PROVE  s \in SUBSET S /\ On(s) /\ G(s)[s] \in V /\ G(s)[s] = Value(s)
    <3>1. s \in SUBSET S /\ On(s)
      BY <1>3, <2>1
    <3>2. G(s) \in [SUBSET s -> V] /\ Unfolds(G(s), s, C, base, H) /\ s \in SUBSET s
      BY <1>1, <3>1
    <3>3. s # {} => G(s)[s \ {C[s]}] = G(s \ {C[s]})[s \ {C[s]}]
      <4> SUFFICES ASSUME s # {} PROVE G(s)[s \ {C[s]}] = G(s \ {C[s]})[s \ {C[s]}]
        OBVIOUS
      <4> DEFINE r == s \ {C[s]}
      <4>1. r \in SUBSET s /\ r \in SUBSET T /\ r # T
        BY <2>1
      <4>2. On(r)
        BY <1>3, <4>1
      <4> HIDE DEF r
      <4>3. G(s)[r] = G(r)[r]
        BY <1>2, <3>1, <4>1, <4>2
      <4> QED BY <4>3 DEF r
    <3> QED BY <3>1, <3>2, <3>3 DEF Unfolds
  <2>2. T # {} => T \ {C[T]} \in SUBSET T /\ T \ {C[T]} # T
    OBVIOUS
  <2>3. Value(T) \in V
    <3>1. CASE T = {}
      BY <3>1
    <3>2. CASE T # {}
      <4> DEFINE r == T \ {C[T]}
      <4>1. r \in SUBSET T /\ r # T
        BY <2>2, <3>2
      <4> HIDE DEF r
      <4>2. G(r)[r] \in V
        BY <2>1, <4>1
      <4>3. H[T][G(r)[r]] \in V
        BY <4>2
      <4> QED BY <3>2, <4>3 DEF r
    <3> QED BY <3>1, <3>2
  <2>4. ASSUME NEW s \in SUBSET T PROVE h[s] = Value(s) /\ h[s] \in V
    BY <2>1, <2>3
  <2>5. ASSUME NEW s \in SUBSET T, s # {} PROVE h[s \ {C[s]}] = G(s \ {C[s]})[s \ {C[s]}]
    <3>1. s \ {C[s]} \in SUBSET T /\ s \ {C[s]} # T
      BY <2>5
    <3> QED BY <3>1
  <2>6. h \in [SUBSET T -> V]
    BY <2>4
  <2>7. Unfolds(h, T, C, base, H)
    <3> HIDE DEF h
    <3> QED BY <2>4, <2>5 DEF Unfolds
  <2> QED BY <2>6, <2>7
<1> HIDE DEF F
<1>4. SUBSET S \subseteq F
  BY <1>3, SubsetInduction
<1> QED BY <1>4 DEF F

(***************************************************************************)
(* Sums (SumFunctionOnSet of the module Functions).                        *)
(***************************************************************************)
Some(s) == CHOOSE x \in s : TRUE

\* A sum takes a set apart at some element.
LEMMA SumUnfolds ==
    ASSUME NEW S, IsFiniteSet(S), NEW f, \A x \in S : f[x] \in Int
    PROVE  /\ SumFunctionOnSet(f, {}) = 0
           /\ \A T \in SUBSET S :
                /\ SumFunctionOnSet(f, T) \in Int
                /\ T # {} => SumFunctionOnSet(f, T) = f[Some(T)] + SumFunctionOnSet(f, T \ {Some(T)})
<1> DEFINE C == [s \in SUBSET S |-> Some(s)]
           H == [s \in SUBSET S |-> [v \in Int |-> IF s = {} THEN 0 ELSE f[Some(s)] + v]]
<1>1. ASSUME NEW s \in SUBSET S, s # {} PROVE Some(s) \in s
  BY <1>1 DEF Some
<1>2. \A s \in SUBSET S : C[s] = Some(s) /\ (s # {} => C[s] \in s)
  BY <1>1
<1>3. H \in [SUBSET S -> [Int -> Int]]
      /\ \A s \in SUBSET S, v \in Int : s # {} => H[s][v] = f[Some(s)] + v
  BY <1>1
<1> HIDE DEF C, H
<1>4. PICK k \in [SUBSET S -> Int] : Unfolds(k, S, C, 0, H)
  <2>1. \A s \in SUBSET S : s # {} => C[s] \in s
    BY <1>2
  <2>2. H \in [SUBSET S -> [Int -> Int]] /\ 0 \in Int
    BY <1>3
  <2>3. \E g \in [SUBSET S -> Int] : Unfolds(g, S, C, 0, H)
    BY <2>1, <2>2, Recursion, Zenon
  <2> QED BY <2>3
<1>5. \A s \in SUBSET S : k[s] = IF s = {} THEN 0 ELSE f[Some(s)] + k[s \ {Some(s)}]
  <2> SUFFICES ASSUME NEW s \in SUBSET S
               PROVE  k[s] = IF s = {} THEN 0 ELSE f[Some(s)] + k[s \ {Some(s)}]
    OBVIOUS
  <2>1. s \ {Some(s)} \in SUBSET S /\ k[s \ {Some(s)}] \in Int
    BY <1>4
  <2>2. k[s] = IF s = {} THEN 0 ELSE H[s][k[s \ {C[s]}]]
    BY <1>4 DEF Unfolds
  <2>3. CASE s = {}
    BY <2>2, <2>3
  <2>4. CASE s # {}
    <3>1. C[s] = Some(s) BY <1>2
    <3>2. k[s] = H[s][k[s \ {Some(s)}]] BY <2>2, <2>4, <3>1
    <3>3. H[s][k[s \ {Some(s)}]] = f[Some(s)] + k[s \ {Some(s)}] BY <1>3, <2>1, <2>4
    <3> QED BY <2>4, <3>2, <3>3
  <2> QED BY <2>3, <2>4
<1>6. ASSUME NEW T \in SUBSET S PROVE SumFunctionOnSet(f, T) = k[T]
  <2> DEFINE P(g) == g = [s \in SUBSET T |-> IF s = {} THEN 0 ELSE f[Some(s)] + g[s \ {Some(s)}]]
             h == CHOOSE g : P(g)
             r == [s \in SUBSET T |-> k[s]]
  <2>1. SumFunctionOnSet(f, T) = h[T]
    BY DEF SumFunctionOnSet, FoldFunctionOnSet, MapThenFoldSet, Some
  <2>2. P(r)
    BY <1>5
  <2>3. P(h)
    <3> HIDE DEF P, r
    <3> QED BY <2>2
  <2> HIDE DEF h, r
  <2> DEFINE F == {s \in SUBSET T : h[s] = k[s]}
  <2>4. ASSUME NEW s \in SUBSET T, \A u \in SUBSET s : u # s => u \in F PROVE s \in F
    <3>1. /\ h[s] = IF s = {} THEN 0 ELSE f[Some(s)] + h[s \ {Some(s)}]
          /\ k[s] = IF s = {} THEN 0 ELSE f[Some(s)] + k[s \ {Some(s)}]
      BY <1>5, <2>3
    <3>2. s # {} => s \ {Some(s)} \in SUBSET s /\ s \ {Some(s)} # s
      BY <1>1
    <3> QED BY <2>4, <3>1, <3>2
  <2> HIDE DEF F
  <2>5. IsFiniteSet(T)
    BY FS_Subset
  <2>6. SUBSET T \subseteq F
    BY <2>4, <2>5, SubsetInduction
  <2> QED BY <2>1, <2>6 DEF F
<1>7. SumFunctionOnSet(f, {}) = 0
  BY <1>5, <1>6
<1>8. ASSUME NEW T \in SUBSET S
      PROVE  /\ SumFunctionOnSet(f, T) \in Int
             /\ T # {} => SumFunctionOnSet(f, T) = f[Some(T)] + SumFunctionOnSet(f, T \ {Some(T)})
  <2>1. T \ {Some(T)} \in SUBSET S
    OBVIOUS
  <2>2. SumFunctionOnSet(f, T) = k[T] /\ SumFunctionOnSet(f, T \ {Some(T)}) = k[T \ {Some(T)}]
    BY <1>6, <2>1
  <2> QED BY <1>4, <1>5, <2>2
<1> QED BY <1>7, <1>8

\* A sum takes a set apart at any element.
LEMMA SumRemove ==
    ASSUME NEW S, IsFiniteSet(S), NEW f, \A x \in S : f[x] \in Int, NEW x \in S
    PROVE  /\ SumFunctionOnSet(f, S \ {x}) \in Int
           /\ SumFunctionOnSet(f, S) = f[x] + SumFunctionOnSet(f, S \ {x})
<1> DEFINE Apart(T) == \A y \in T : SumFunctionOnSet(f, T) = f[y] + SumFunctionOnSet(f, T \ {y})
           F == {T \in SUBSET S : Apart(T)}
<1>1. \A T \in SUBSET S :
          /\ SumFunctionOnSet(f, T) \in Int
          /\ T # {} => SumFunctionOnSet(f, T) = f[Some(T)] + SumFunctionOnSet(f, T \ {Some(T)})
  BY SumUnfolds
<1>2. ASSUME NEW T \in SUBSET S, \A U \in SUBSET T : U # T => U \in F, NEW y \in T
      PROVE  SumFunctionOnSet(f, T) = f[y] + SumFunctionOnSet(f, T \ {y})
  <2> DEFINE c == Some(T)
             R == (T \ {c}) \ {y}
  <2>1. c \in T
    BY DEF Some
  <2> HIDE DEF c
  <2>2. SumFunctionOnSet(f, T) = f[c] + SumFunctionOnSet(f, T \ {c})
    BY <1>1 DEF c
  <2>3. CASE y = c
    BY <2>2, <2>3
  <2>4. CASE y # c
    <3>1. T \ {c} \in F /\ T \ {y} \in F
      BY <1>2, <2>1
    <3>2. y \in T \ {c} /\ c \in T \ {y} /\ (T \ {y}) \ {c} = R
      BY <2>1, <2>4
    <3> HIDE DEF R
    <3>3. SumFunctionOnSet(f, T \ {c}) = f[y] + SumFunctionOnSet(f, R)
      BY <3>1, <3>2 DEF R
    <3>4. SumFunctionOnSet(f, T \ {y}) = f[c] + SumFunctionOnSet(f, R)
      BY <3>1, <3>2
    <3>5. f[c] \in Int /\ f[y] \in Int /\ SumFunctionOnSet(f, R) \in Int
      BY <1>1, <2>1 DEF R
    <3> QED BY <2>2, <3>3, <3>4, <3>5
  <2> QED BY <2>3, <2>4
<1>3. ASSUME NEW T \in SUBSET S, \A U \in SUBSET T : U # T => U \in F PROVE T \in F
  BY <1>2, <1>3
<1> HIDE DEF F
<1>4. SUBSET S \subseteq F
  BY <1>3, SubsetInduction
<1>5. Apart(S) /\ S \ {x} \in SUBSET S
  BY <1>4 DEF F
<1> QED BY <1>1, <1>5

\* Terms that are not smaller have a sum that is not smaller.
LEMMA SumAtMost ==
    ASSUME NEW S, IsFiniteSet(S), NEW f, NEW g,
           \A x \in S : f[x] \in Int /\ g[x] \in Int /\ f[x] <= g[x]
    PROVE  SumFunctionOnSet(f, S) <= SumFunctionOnSet(g, S)
<1> DEFINE F == {T \in SUBSET S : SumFunctionOnSet(f, T) <= SumFunctionOnSet(g, T)}
<1>1. {} \in F
  BY SumUnfolds
<1>2. ASSUME NEW T \in SUBSET S, NEW x \in T, T \ {x} \in F PROVE T \in F
  <2>1. IsFiniteSet(T)
    BY FS_Subset
  <2>2. /\ SumFunctionOnSet(f, T \ {x}) \in Int /\ SumFunctionOnSet(f, T) = f[x] + SumFunctionOnSet(f, T \ {x})
    BY <2>1, SumRemove
  <2>3. /\ SumFunctionOnSet(g, T \ {x}) \in Int /\ SumFunctionOnSet(g, T) = g[x] + SumFunctionOnSet(g, T \ {x})
    BY <2>1, SumRemove
  <2>4. f[x] \in Int /\ g[x] \in Int /\ f[x] <= g[x]
    OBVIOUS
  <2> QED BY <1>2, <2>2, <2>3, <2>4
<1> HIDE DEF F
<1>3. SUBSET S \subseteq F
  BY <1>1, <1>2, FiniteInduction
<1> QED BY <1>3 DEF F

\* Equal terms have an equal sum.
LEMMA SumSame ==
    ASSUME NEW S, IsFiniteSet(S), NEW f, NEW g, \A x \in S : f[x] \in Int /\ g[x] = f[x]
    PROVE  SumFunctionOnSet(f, S) = SumFunctionOnSet(g, S) /\ SumFunctionOnSet(f, S) \in Int
<1>1. SumFunctionOnSet(f, S) <= SumFunctionOnSet(g, S)
  BY SumAtMost
<1>2. SumFunctionOnSet(g, S) <= SumFunctionOnSet(f, S)
  BY SumAtMost
<1>3. SumFunctionOnSet(f, S) \in Int /\ SumFunctionOnSet(g, S) \in Int
  BY SumUnfolds
<1> QED BY <1>1, <1>2, <1>3

\* A term that changes changes the sum by as much.
LEMMA SumChange ==
    ASSUME NEW S, IsFiniteSet(S), NEW f, NEW g, NEW x \in S,
           \A y \in S : f[y] \in Int /\ g[y] \in Int, \A y \in S \ {x} : g[y] = f[y]
    PROVE  SumFunctionOnSet(g, S) = SumFunctionOnSet(f, S) + (g[x] - f[x])
<1>1. /\ SumFunctionOnSet(f, S \ {x}) \in Int /\ SumFunctionOnSet(f, S) = f[x] + SumFunctionOnSet(f, S \ {x})
  BY SumRemove
<1>2. SumFunctionOnSet(g, S) = g[x] + SumFunctionOnSet(g, S \ {x})
  BY SumRemove
<1>3. IsFiniteSet(S \ {x})
  BY FS_RemoveElement
<1>4. SumFunctionOnSet(f, S \ {x}) = SumFunctionOnSet(g, S \ {x})
  BY <1>3, SumSame
<1> QED BY <1>1, <1>2, <1>4

\* A sum of numbers that are not negative is not negative, and is zero only
\* when every one of them is.
LEMMA SumNatural ==
    ASSUME NEW S, IsFiniteSet(S), NEW f, \A x \in S : f[x] \in Nat
    PROVE  /\ SumFunctionOnSet(f, S) \in Nat
           /\ \A x \in S : f[x] <= SumFunctionOnSet(f, S)
           /\ SumFunctionOnSet(f, S) > 0 => \E x \in S : f[x] > 0
<1> DEFINE zero == [x \in S |-> 0]
           F == {T \in SUBSET S : SumFunctionOnSet(zero, T) = 0}
<1>1. {} \in F
  BY SumUnfolds
<1>2. ASSUME NEW T \in SUBSET S, NEW x \in T, T \ {x} \in F PROVE T \in F
  <2>1. IsFiniteSet(T) /\ \A y \in T : zero[y] = 0
    BY FS_Subset
  <2>2. SumFunctionOnSet(zero, T) = zero[x] + SumFunctionOnSet(zero, T \ {x})
    BY <2>1, SumRemove
  <2> QED BY <1>2, <2>1, <2>2
<1> HIDE DEF F
<1>3. SUBSET S \subseteq F
  BY <1>1, <1>2, FiniteInduction
<1>4. SumFunctionOnSet(zero, S) = 0 /\ \A x \in S : zero[x] = 0
  BY <1>3 DEF F
<1> HIDE DEF zero
<1>5. ASSUME NEW T \in SUBSET S PROVE SumFunctionOnSet(f, T) \in Nat
  <2>1. IsFiniteSet(T)
    BY FS_Subset
  <2>2. SumFunctionOnSet(zero, T) = 0
    BY <1>3 DEF F, zero
  <2>3. SumFunctionOnSet(zero, T) <= SumFunctionOnSet(f, T)
    BY <1>4, <2>1, SumAtMost
  <2>4. SumFunctionOnSet(f, T) \in Int
    <3>1. \A x \in S : f[x] \in Int
      OBVIOUS
    <3> QED BY <3>1, SumUnfolds
  <2> QED BY <2>2, <2>3, <2>4
<1>6. ASSUME NEW x \in S PROVE f[x] <= SumFunctionOnSet(f, S)
  <2>1. SumFunctionOnSet(f, S) = f[x] + SumFunctionOnSet(f, S \ {x})
    BY SumRemove
  <2>2. SumFunctionOnSet(f, S \ {x}) \in Nat
    BY <1>5
  <2> QED BY <2>1, <2>2
<1>7. ASSUME \A x \in S : ~(f[x] > 0) PROVE SumFunctionOnSet(f, S) = 0
  <2>1. \A x \in S : f[x] \in Int /\ zero[x] = f[x]
    BY <1>4, <1>7
  <2> QED BY <1>4, <2>1, SumSame
<1> QED BY <1>5, <1>6, <1>7

\* Terms that are zero do not count.
LEMMA SumSupport ==
    ASSUME NEW S, IsFiniteSet(S), NEW T \in SUBSET S, NEW f,
           \A x \in S : f[x] \in Int, \A x \in S \ T : f[x] = 0
    PROVE  SumFunctionOnSet(f, S) = SumFunctionOnSet(f, T)
<1> DEFINE F == {U \in SUBSET (S \ T) : SumFunctionOnSet(f, T \cup U) = SumFunctionOnSet(f, T)}
<1>1. {} \in F
  <2>1. T \cup {} = T
    OBVIOUS
  <2> QED BY <2>1
<1>2. ASSUME NEW U \in SUBSET (S \ T), NEW x \in U, U \ {x} \in F PROVE U \in F
  <2>1. IsFiniteSet(T \cup U) /\ x \in T \cup U /\ (T \cup U) \ {x} = T \cup (U \ {x})
    <3>1. T \cup U \in SUBSET S
      OBVIOUS
    <3> QED BY <3>1, FS_Subset
  <2>2. \A y \in T \cup U : f[y] \in Int
    OBVIOUS
  <2>3. /\ SumFunctionOnSet(f, (T \cup U) \ {x}) \in Int
        /\ SumFunctionOnSet(f, T \cup U) = f[x] + SumFunctionOnSet(f, (T \cup U) \ {x})
    BY <2>1, <2>2, SumRemove
  <2>4. f[x] = 0
    OBVIOUS
  <2>5. SumFunctionOnSet(f, T \cup (U \ {x})) = SumFunctionOnSet(f, T)
    BY <1>2
  <2>6. SumFunctionOnSet(f, T \cup U) = SumFunctionOnSet(f, T)
    <3> DEFINE v == SumFunctionOnSet(f, (T \cup U) \ {x})
    <3>1. v \in Int /\ SumFunctionOnSet(f, T \cup U) = f[x] + v /\ v = SumFunctionOnSet(f, T)
      BY <2>1, <2>3, <2>5
    <3> HIDE DEF v
    <3>2. SumFunctionOnSet(f, T \cup U) = v
      BY <2>4, <3>1
    <3> QED BY <3>1, <3>2
  <2> QED BY <2>6
<1> HIDE DEF F
<1> DEFINE D == S \ T
<1>3. SUBSET D \subseteq F
  <2>1. IsFiniteSet(D)
    BY FS_Subset
  <2>2. \A U \in SUBSET D : \A x \in U : U \ {x} \in F => U \in F
    BY <1>2
  <2> HIDE DEF D
  <2> QED BY <1>1, <2>1, <2>2, FiniteInduction
<1>4. T \cup (S \ T) = S /\ S \ T \in F
  BY <1>3
<1> QED BY <1>4 DEF F

\* The terms may be indexed otherwise.
LEMMA SumReindexed ==
    ASSUME NEW S, IsFiniteSet(S), NEW T, IsFiniteSet(T), NEW m \in [S -> T],
           \A x, y \in S : m[x] = m[y] => x = y,
           NEW f, NEW g, \A x \in S : f[x] \in Int /\ g[m[x]] = f[x], \A y \in T : g[y] \in Int,
           \A y \in T : g[y] # 0 => \E x \in S : m[x] = y
    PROVE  SumFunctionOnSet(f, S) = SumFunctionOnSet(g, T)
<1> DEFINE Image(U) == {m[x] : x \in U}
           F == {U \in SUBSET S : SumFunctionOnSet(f, U) = SumFunctionOnSet(g, Image(U))}
<1>1. {} \in F
  <2>1. Image({}) = {}
    OBVIOUS
  <2>2. SumFunctionOnSet(f, {}) = 0 /\ SumFunctionOnSet(g, {}) = 0
    BY SumUnfolds
  <2> HIDE DEF Image
  <2> QED BY <2>1, <2>2
<1>2. ASSUME NEW U \in SUBSET S, NEW x \in U, U \ {x} \in F PROVE U \in F
  <2>1. IsFiniteSet(U) /\ IsFiniteSet(Image(U)) /\ Image(U) \in SUBSET T
    <3>1. Image(U) \in SUBSET T
      OBVIOUS
    <3> QED BY <3>1, FS_Subset
  <2>2. m[x] \in Image(U) /\ Image(U) \ {m[x]} = Image(U \ {x})
    OBVIOUS
  <2>3. \A y \in Image(U) : g[y] \in Int
    OBVIOUS
  <2> HIDE DEF Image
  <2>4. /\ SumFunctionOnSet(f, U \ {x}) \in Int
        /\ SumFunctionOnSet(f, U) = f[x] + SumFunctionOnSet(f, U \ {x})
    BY <2>1, SumRemove
  <2>5. SumFunctionOnSet(g, Image(U)) = g[m[x]] + SumFunctionOnSet(g, Image(U \ {x}))
    <3> DEFINE I == Image(U)
               y == m[x]
    <3>1. IsFiniteSet(I) /\ y \in I /\ \A z \in I : g[z] \in Int
      BY <2>1, <2>2, <2>3
    <3> HIDE DEF I, y
    <3>2. SumFunctionOnSet(g, I) = g[y] + SumFunctionOnSet(g, I \ {y})
      BY <3>1, SumRemove
    <3> QED BY <2>2, <3>2 DEF I, y
  <2>6. g[m[x]] = f[x]
    OBVIOUS
  <2> QED BY <1>2, <2>4, <2>5, <2>6
<1>3. Image(S) \in SUBSET T /\ \A y \in T \ Image(S) : g[y] = 0
  OBVIOUS
<1> HIDE DEF F
<1>4. SUBSET S \subseteq F
  BY <1>1, <1>2, FiniteInduction
<1>5. SumFunctionOnSet(f, S) = SumFunctionOnSet(g, Image(S))
  BY <1>4 DEF F
<1> HIDE DEF Image
<1>6. SumFunctionOnSet(g, T) = SumFunctionOnSet(g, Image(S))
  BY <1>3, SumSupport
<1> QED BY <1>5, <1>6

\* The greatest of a set of numbers up to n.
LEMMA Greatest ==
    ASSUME NEW n \in Nat, NEW s \in SUBSET (1..n), s # {}
    PROVE  Max(s) \in s /\ \A x \in s : x <= Max(s)
<1> DEFINE R == {n - x : x \in s}
<1>0. \A x \in s : x \in 1..n /\ n - x \in Nat
  OBVIOUS
<1>1. R \in SUBSET Nat /\ R # {}
  BY <1>0
<1>2. PICK r \in R : \A d \in R : r <= d
  BY <1>1, Least
<1>3. PICK x \in s : r = n - x
  BY <1>2
<1>4. ASSUME NEW y \in s PROVE x >= y
  <2>1. r <= n - y /\ x \in 1..n /\ y \in 1..n
    BY <1>0, <1>2
  <2> QED BY <1>3, <2>1
<1>5. \E z \in s : \A y \in s : z >= y
  BY <1>4
<1>6. Max(s) \in s /\ \A y \in s : Max(s) >= y
  BY <1>5 DEF Max
<1> HIDE DEF R
<1> DEFINE z == Max(s)
<1>7. z \in s /\ \A y \in s : z >= y
  BY <1>6
<1> HIDE DEF z
<1>8. \A y \in s : y <= z
  BY <1>0, <1>7
<1> QED BY <1>7, <1>8 DEF z

\* A prefix without its last number is the one before it.
LEMMA LastRemoved ==
    ASSUME NEW n \in Nat, NEW k \in 1..n
    PROVE  /\ 1..k \in SUBSET (1..n) /\ 1..k # {} /\ Max(1..k) = k
           /\ (1..k) \ {k} = 1..(k - 1)
<1>1. 1..k \in SUBSET (1..n) /\ 1..k # {} /\ k \in 1..k
  OBVIOUS
<1>2. Max(1..k) \in 1..k /\ \A x \in 1..k : x <= Max(1..k)
  BY <1>1, Greatest
<1>3. Max(1..k) = k
  BY <1>1, <1>2
<1> QED BY <1>1, <1>3

\* What a fold from the left computes of the numbers up to n, when number k
\* makes H[k][v] of v.
FoldsTo(g, n, base, H) ==
    \A s \in SUBSET (1..n) : g[s] = IF s = {} THEN base ELSE H[Max(s)][g[s \ {Max(s)}]]

\* There is such a function.
LEMMA Folding ==
    ASSUME NEW n \in Nat, NEW V, NEW base \in V, NEW H \in [1..n -> [V -> V]]
    PROVE  \E g \in [SUBSET (1..n) -> V] : FoldsTo(g, n, base, H)
<1> DEFINE C == [s \in SUBSET (1..n) |-> Max(s)]
           G == [s \in SUBSET (1..n) |-> IF s = {} THEN [v \in V |-> v] ELSE H[Max(s)]]
<1>1. \A s \in SUBSET (1..n) : C[s] = Max(s) /\ (s # {} => C[s] \in s)
  BY Greatest
<1>2. G \in [SUBSET (1..n) -> [V -> V]] /\ \A s \in SUBSET (1..n) : s # {} => G[s] = H[Max(s)]
  BY Greatest
<1> HIDE DEF C, G
<1>3. PICK g \in [SUBSET (1..n) -> V] : Unfolds(g, 1..n, C, base, G)
  <2>1. IsFiniteSet(1..n)
    BY FS_Interval
  <2>2. \A s \in SUBSET (1..n) : s # {} => C[s] \in s
    BY <1>1
  <2>3. G \in [SUBSET (1..n) -> [V -> V]] /\ base \in V
    BY <1>2
  <2> DEFINE S == 1..n
  <2>4. \E g \in [SUBSET S -> V] : Unfolds(g, S, C, base, G)
    <3>1. IsFiniteSet(S) /\ \A s \in SUBSET S : s # {} => C[s] \in s
      BY <2>1, <2>2
    <3>2. G \in [SUBSET S -> [V -> V]] /\ base \in V
      BY <2>3
    <3> HIDE DEF S
    <3> QED BY <3>1, <3>2, Recursion, Zenon
  <2> QED BY <2>4
<1>4. ASSUME NEW s \in SUBSET (1..n)
      PROVE  g[s] = IF s = {} THEN base ELSE H[Max(s)][g[s \ {Max(s)}]]
  BY <1>1, <1>2, <1>3 DEF Unfolds
<1> QED BY <1>4 DEF FoldsTo

\* The same of a function that is known to do so within V only.
FoldsWithin(h, n, base, V, H) ==
    /\ n \in Nat /\ base \in V /\ H \in [1..n -> [V -> V]]
    /\ h[{}] = base
    /\ \A s \in SUBSET (1..n) : s # {} /\ h[s \ {Max(s)}] \in V
                                   => h[s] = H[Max(s)][h[s \ {Max(s)}]]

\* The values of such a fold, one number after another.
Runs(loop, n, base, V, H, last) ==
    /\ loop \in [0..n -> V]
    /\ loop[0] = base
    /\ \A k \in 1..n : loop[k] = H[k][loop[k - 1]]
    /\ loop[n] = last

\* It runs through such values.
LEMMA FoldLoop ==
    ASSUME NEW n, NEW V, NEW base, NEW H, NEW h, FoldsWithin(h, n, base, V, H)
    PROVE  \E loop : Runs(loop, n, base, V, H, h[1..n])
<1> USE DEF FoldsWithin
<1> DEFINE loop == [k \in 0..n |-> h[1..k]]
<1>1. h[1..0] = base
  <2>1. 1..0 = {}
    OBVIOUS
  <2> QED BY <2>1
<1>2. ASSUME NEW k \in 1..n, h[1..(k - 1)] \in V
      PROVE  h[1..k] = H[k][h[1..(k - 1)]] /\ h[1..k] \in V
  <2>1. /\ 1..k \in SUBSET (1..n) /\ 1..k # {} /\ Max(1..k) = k
        /\ (1..k) \ {k} = 1..(k - 1)
    BY LastRemoved, Zenon
  <2>2. h[1..k] = H[Max(1..k)][h[(1..k) \ {Max(1..k)}]]
    BY <1>2, <2>1
  <2>3. h[1..k] = H[k][h[1..(k - 1)]]
    BY <2>1, <2>2
  <2> QED BY <1>2, <2>3
<1>3. ASSUME NEW k \in Nat PROVE k <= n => h[1..k] \in V
  <2> DEFINE S == {l \in Nat : l <= n => h[1..l] \in V}
  <2>1. 0 \in S
    BY <1>1
  <2>2. ASSUME NEW j \in Nat, j \in S PROVE j + 1 \in S
    <3> SUFFICES ASSUME j + 1 <= n PROVE h[1..(j + 1)] \in V
      OBVIOUS
    <3>1. j + 1 \in 1..n /\ (j + 1) - 1 = j /\ h[1..j] \in V
      BY <2>2
    <3> QED BY <1>2, <3>1
  <2> HIDE DEF S
  <2>3. Nat \subseteq S
    BY <2>1, <2>2, NumberInduction
  <2> QED BY <2>3 DEF S
<1>4. loop \in [0..n -> V]
  BY <1>3
<1>5. loop[0] = base /\ loop[n] = h[1..n]
  BY <1>1
<1>6. ASSUME NEW k \in 1..n PROVE loop[k] = H[k][loop[k - 1]]
  <2>1. k \in 0..n /\ k - 1 \in 0..n /\ k - 1 \in Nat /\ k - 1 <= n
    OBVIOUS
  <2>2. h[1..(k - 1)] \in V
    BY <1>3, <2>1
  <2> QED BY <1>2, <2>1, <2>2
<1>7. Runs(loop, n, base, V, H, h[1..n])
  BY <1>4, <1>5, <1>6 DEF Runs
<1> HIDE DEF loop
<1> QED BY <1>7

(***************************************************************************)
(* Lines: the place of an element is how many come before it.              *)
(***************************************************************************)

\* A relation that puts the elements of a set in a line.
Lines(R, S) ==
    /\ \A a \in S : <<a, a>> \notin R
    /\ \A a, b \in S : a # b => <<a, b>> \in R \/ <<b, a>> \in R
    /\ \A a, b, c \in S : <<a, b>> \in R /\ <<b, c>> \in R => <<a, c>> \in R

\* How many come before p.
Ahead(p, R, S) == Cardinality({o \in S : <<o, p>> \in R})

\* Every place in the line is taken, and an earlier one by what comes before.
LEMMA Ranking ==
    ASSUME NEW S, IsFiniteSet(S), NEW R, Lines(R, S)
    PROVE  /\ Cardinality(S) \in Nat
           /\ \A p \in S : Ahead(p, R, S) \in 0..(Cardinality(S) - 1)
           /\ \A a, b \in S : <<a, b>> \in R <=> Ahead(a, R, S) < Ahead(b, R, S)
           /\ \A i \in 0..(Cardinality(S) - 1) : \E p \in S : Ahead(p, R, S) = i
<1> DEFINE n == Cardinality(S)
           B(p) == {o \in S : <<o, p>> \in R}
<1>1. n \in Nat
  BY FS_CardinalityType
<1>2. ASSUME NEW p \in S PROVE IsFiniteSet(B(p)) /\ Ahead(p, R, S) = Cardinality(B(p)) /\ Ahead(p, R, S) \in 0..(n - 1)
  <2>1. IsFiniteSet(S \ {p}) /\ Cardinality(S \ {p}) = n - 1
    BY FS_RemoveElement
  <2>2. B(p) \in SUBSET (S \ {p})
    BY DEF Lines
  <2>3. IsFiniteSet(B(p)) /\ Cardinality(B(p)) <= n - 1
    <3> HIDE DEF B
    <3> QED BY <2>1, <2>2, FS_Subset
  <2>4. Cardinality(B(p)) \in Nat
    BY <2>3, FS_CardinalityType
  <2>5. Ahead(p, R, S) = Cardinality(B(p))
    BY DEF Ahead
  <2> QED BY <1>1, <2>3, <2>4, <2>5
<1>0. \A x \in 0..(n - 1) : x \in Int /\ ~(x < x)
  BY <1>1
<1>3. ASSUME NEW a \in S, NEW b \in S, <<a, b>> \in R PROVE Ahead(a, R, S) < Ahead(b, R, S)
  <2>1. B(a) \cup {a} \in SUBSET B(b) /\ a \notin B(a)
    BY <1>3 DEF Lines
  <2>2. Cardinality(B(a) \cup {a}) = Cardinality(B(a)) + 1
    BY <1>2, <2>1, FS_AddElement
  <2>3. Cardinality(B(a) \cup {a}) <= Cardinality(B(b))
    BY <1>2, <2>1, FS_Subset
  <2>4. Ahead(a, R, S) + 1 <= Ahead(b, R, S)
    BY <1>2, <2>2, <2>3
  <2>5. Ahead(a, R, S) \in Int /\ Ahead(b, R, S) \in Int
    BY <1>0, <1>2
  <2> QED BY <2>4, <2>5
<1>4. ASSUME NEW a \in S, NEW b \in S, Ahead(a, R, S) < Ahead(b, R, S) PROVE <<a, b>> \in R
  <2>1. Ahead(a, R, S) \in Int /\ Ahead(b, R, S) \in Int
    BY <1>0, <1>2
  <2>2. a # b /\ ~(<<b, a>> \in R)
    BY <1>3, <1>4, <2>1
  <2> QED BY <2>2 DEF Lines
<1>5. ASSUME NEW i \in 0..(n - 1) PROVE \E p \in S : Ahead(p, R, S) = i
  <2> DEFINE m == [p \in S |-> Ahead(p, R, S)]
             T == 0..(n - 1)
  <2>1. m \in [S -> T]
    BY <1>2
  <2>2. ASSUME NEW a \in S, NEW b \in S, m[a] = m[b] PROVE a = b
    <3>1. ~(<<a, b>> \in R) /\ ~(<<b, a>> \in R)
      BY <1>0, <1>2, <1>3, <2>2
    <3> QED BY <3>1 DEF Lines
  <2>3. IsFiniteSet(T) /\ Cardinality(T) = n
    BY <1>1, FS_Interval
  <2>4. m \in Injection(S, T)
    BY <2>1, <2>2 DEF Injection, IsInjective
  <2>5. m \in Surjection(S, T)
    <3> HIDE DEF m, T
    <3> QED BY <2>3, <2>4, FS_Injection
  <2>6. \E p \in S : m[p] = i
    BY <2>5 DEF Surjection
  <2> QED BY <2>6
<1> QED BY <1>1, <1>2, <1>3, <1>4, <1>5
==============================================================================
