----------------------------- MODULE SumProofs -----------------------------
(***************************************************************************)
(* What SumFunctionOnSet, and so MapThenSumSet, computes for every finite  *)
(* set: the sum does not depend on the order in which the elements are     *)
(* chosen.  The inductions are over the least counterexample, which        *)
(* exists because < is well founded on Nat.                                *)
(***************************************************************************)
EXTENDS Integers, FiniteSets, Functions, FiniteSetsExt, FiniteSetTheorems, WellFoundedInduction, TLAPS

LEMMA Induction ==
  ASSUME NEW G, 0 \in G, \A n \in Nat : n \in G => n + 1 \in G
  PROVE  Nat \subseteq G
  <1> DEFINE T == Nat \ G
             Less == OpToRel(<, Nat)
  <1>1. SUFFICES ASSUME T # {} PROVE FALSE
    OBVIOUS
  <1>2. IsWellFoundedOn(Less, Nat)
    BY NatLessThanWellFounded
  <1>3. \A m, n \in Nat : <<m, n>> \in Less <=> m < n
    BY DEF OpToRel
  <1>4. T \subseteq Nat
    OBVIOUS
  <1> HIDE DEF Less
  <1>5. PICK n \in T : \A m \in T : ~(<<m, n>> \in Less)
    BY <1>1, <1>2, <1>4, WFMin
  <1>6. n # 0 /\ n - 1 \in Nat
    BY <1>4, <1>5
  <1>7. n - 1 \in G
    <2>1. <<n - 1, n>> \in Less
      BY <1>3, <1>4, <1>6
    <2>2. n - 1 \notin T
      BY <1>5, <2>1
    <2> QED BY <1>6, <2>2
  <1> QED BY <1>5, <1>6, <1>7

\* One of the elements of s, and the recursion of MapThenFoldSet.
AnyOf(s) == CHOOSE x \in s : TRUE
Sums(h, f, S) ==
  h = [s \in SUBSET S |-> IF s = {} THEN 0 ELSE f[AnyOf(s)] + h[s \ {AnyOf(s)}]]

LEMMA AnyOfIn == \A s : s # {} => AnyOf(s) \in s
  BY DEF AnyOf

LEMMA SizeFacts ==
  ASSUME NEW S, IsFiniteSet(S), NEW s \in SUBSET S
  PROVE  /\ IsFiniteSet(s) /\ Cardinality(s) \in Nat
         /\ Cardinality(s) = 0 <=> s = {}
         /\ \A x \in s : Cardinality(s \ {x}) = Cardinality(s) - 1 /\ s \ {x} \in SUBSET S
  <1>1. IsFiniteSet(s)
    BY FS_Subset
  <1> QED BY <1>1, FS_CardinalityType, FS_EmptySet, FS_RemoveElement

LEMMA SumsExist ==
  ASSUME NEW f, NEW S, IsFiniteSet(S)
  PROVE  \E h : Sums(h, f, S)
  <1> DEFINE Next(h, s) == IF s = {} THEN 0 ELSE f[AnyOf(s)] + h[s \ {AnyOf(s)}]
             Upto(n, h) == \A s \in SUBSET S : Cardinality(s) <= n => h[s] = Next(h, s)
             G == {n \in Nat : \E h : Upto(n, h)}
  <1>1. 0 \in G
    <2> DEFINE h == [s \in SUBSET S |-> 0]
    <2>1. Upto(0, h)
      BY SizeFacts
    <2> QED BY <2>1
  <1>2. ASSUME NEW n \in Nat, n \in G PROVE n + 1 \in G
    <2>1. PICK h : Upto(n, h)
      BY <1>2
    <2> DEFINE g == [s \in SUBSET S |-> IF Cardinality(s) <= n THEN h[s] ELSE Next(h, s)]
    <2>2. ASSUME NEW s \in SUBSET S, Cardinality(s) <= n + 1 PROVE g[s] = Next(h, s)
      BY <2>1
    <2>3. ASSUME NEW s \in SUBSET S, Cardinality(s) <= n + 1, s # {}
          PROVE  g[s \ {AnyOf(s)}] = h[s \ {AnyOf(s)}]
      <3>1. Cardinality(s \ {AnyOf(s)}) <= n /\ s \ {AnyOf(s)} \in SUBSET S
        BY <2>3, AnyOfIn, SizeFacts
      <3> QED BY <3>1
    <2> HIDE DEF g
    <2>4. Upto(n + 1, g)
      BY <2>2, <2>3
    <2>5. \E k : Upto(n + 1, k)
      BY <2>4
    <2> HIDE DEF Upto
    <2> QED BY <2>5
  <1>3. Nat \subseteq G
    <2> HIDE DEF G
    <2> QED BY <1>1, <1>2, Induction
  <1>4. Cardinality(S) \in Nat /\ \A s \in SUBSET S : Cardinality(s) <= Cardinality(S)
    BY FS_CardinalityType, FS_Subset
  <1>5. PICK h : Upto(Cardinality(S), h)
    BY <1>3, <1>4
  <1> DEFINE g == [s \in SUBSET S |-> h[s]]
  <1>6. \A s \in SUBSET S : g[s] = Next(g, s)
    BY <1>4, <1>5, AnyOfIn
  <1>7. g = [s \in SUBSET S |-> Next(g, s)]
    <2>1. g = [s \in SUBSET S |-> g[s]]
      OBVIOUS
    <2> HIDE DEF g
    <2> QED BY <1>6, <2>1
  <1> QED BY <1>7 DEF Sums

\* The sum is the same whichever element is chosen first.
LEMMA AnyOrder ==
  ASSUME NEW S, IsFiniteSet(S), NEW f, \A x \in S : f[x] \in Int, NEW h, Sums(h, f, S),
         NEW s \in SUBSET S
  PROVE  h[s] \in Int /\ \A x \in s : h[s] = f[x] + h[s \ {x}]
  <1> DEFINE Good(t) == h[t] \in Int /\ \A x \in t : h[t] = f[x] + h[t \ {x}]
             G == {n \in Nat : \A t \in SUBSET S : Cardinality(t) <= n => Good(t)}
  <1>0. /\ h[{}] = 0
        /\ \A t \in SUBSET S : t # {} => h[t] = f[AnyOf(t)] + h[t \ {AnyOf(t)}]
    BY DEF Sums
  <1>1. Good({})
    BY <1>0
  <1>2. 0 \in G
    <2>1. ASSUME NEW t \in SUBSET S, Cardinality(t) <= 0 PROVE t = {}
      BY <2>1, SizeFacts
    <2> HIDE DEF Good
    <2> QED BY <1>1, <2>1
  <1>3. ASSUME NEW n \in Nat, n \in G PROVE n + 1 \in G
    <2>0. SUFFICES ASSUME NEW t \in SUBSET S, Cardinality(t) <= n + 1, t # {} PROVE Good(t)
      <3> HIDE DEF Good
      <3> QED BY <1>1
    <2> DEFINE p == AnyOf(t)
    <2>1. p \in t /\ h[t] = f[p] + h[t \ {p}]
      BY <1>0, <2>0, AnyOfIn
    <2> HIDE DEF p
    <2>2. ASSUME NEW x \in t PROVE f[x] \in Int /\ t \ {x} \in SUBSET S /\ Good(t \ {x})
      <3>1. Cardinality(t \ {x}) = Cardinality(t) - 1 /\ Cardinality(t) \in Nat
        BY SizeFacts
      <3>2. Cardinality(t \ {x}) <= n
        BY <2>0, <3>1
      <3> HIDE DEF Good
      <3> QED BY <1>3, <3>2
    <2>3. h[t] \in Int
      BY <2>1, <2>2
    <2>4. ASSUME NEW x \in t, x # p PROVE h[t] = f[x] + h[t \ {x}]
      <3>1. h[t \ {p}] = f[x] + h[(t \ {p}) \ {x}]
        BY <2>1, <2>2, <2>4
      <3>2. h[t \ {x}] = f[p] + h[(t \ {x}) \ {p}]
        BY <2>1, <2>2, <2>4
      <3>3. (t \ {p}) \ {x} = (t \ {x}) \ {p}
        OBVIOUS
      <3>4. (t \ {p}) \ {x} \in SUBSET S /\ h[(t \ {p}) \ {x}] \in Int
        <4>1. Cardinality((t \ {p}) \ {x}) <= n
          <5>1. Cardinality(t \ {p}) = Cardinality(t) - 1 /\ t \ {p} \in SUBSET S
            BY <2>1, SizeFacts
          <5>2. x \in t \ {p}
            BY <2>4
          <5>3. Cardinality((t \ {p}) \ {x}) = Cardinality(t \ {p}) - 1
            BY <5>1, <5>2, SizeFacts
          <5>4. Cardinality(t) \in Nat
            BY SizeFacts
          <5> QED BY <2>0, <5>1, <5>3, <5>4
        <4> HIDE DEF Good
        <4>2. Good((t \ {p}) \ {x})
          BY <1>3, <4>1
        <4> QED BY <4>2 DEF Good
      <3>5. f[x] \in Int /\ f[p] \in Int
        BY <2>1, <2>2
      <3>6. h[(t \ {x}) \ {p}] = h[(t \ {p}) \ {x}]
        BY <3>3
      <3> DEFINE rest == h[(t \ {p}) \ {x}]
      <3>7. /\ h[t] = f[p] + h[t \ {p}] /\ h[t \ {p}] = f[x] + rest
            /\ h[t \ {x}] = f[p] + rest /\ rest \in Int
        BY <2>1, <3>1, <3>2, <3>4, <3>6
      <3> HIDE DEF rest
      <3> QED BY <3>5, <3>7
    <2> QED BY <2>1, <2>3, <2>4
  <1>4. Nat \subseteq G
    <2> HIDE DEF G
    <2> QED BY <1>2, <1>3, Induction
  <1>5. Cardinality(s) \in Nat
    BY SizeFacts
  <1> QED BY <1>4, <1>5

\* What is summed of the elements is all that matters.
LEMMA SameSums ==
  ASSUME NEW S, IsFiniteSet(S), NEW T, IsFiniteSet(T), NEW f, NEW g, NEW h, NEW k,
         Sums(h, f, S), Sums(k, g, T), \A x \in S \cap T : f[x] = g[x],
         NEW s \in SUBSET (S \cap T)
  PROVE  h[s] = k[s]
  <1> DEFINE G == {n \in Nat : \A t \in SUBSET (S \cap T) : Cardinality(t) <= n => h[t] = k[t]}
  <1>0. \A t \in SUBSET (S \cap T) : t \in SUBSET S /\ t \in SUBSET T
    OBVIOUS
  <1>1. ASSUME NEW t \in SUBSET (S \cap T)
        PROVE  /\ h[t] = IF t = {} THEN 0 ELSE f[AnyOf(t)] + h[t \ {AnyOf(t)}]
               /\ k[t] = IF t = {} THEN 0 ELSE g[AnyOf(t)] + k[t \ {AnyOf(t)}]
               /\ t # {} => f[AnyOf(t)] = g[AnyOf(t)]
    <2>1. t \in SUBSET S /\ t \in SUBSET T
      BY <1>0
    <2>2. h[t] = IF t = {} THEN 0 ELSE f[AnyOf(t)] + h[t \ {AnyOf(t)}]
      BY <2>1 DEF Sums
    <2>3. k[t] = IF t = {} THEN 0 ELSE g[AnyOf(t)] + k[t \ {AnyOf(t)}]
      BY <2>1 DEF Sums
    <2>4. t # {} => f[AnyOf(t)] = g[AnyOf(t)]
      BY AnyOfIn
    <2> QED BY <2>2, <2>3, <2>4
  <1>2. 0 \in G
    <2>1. ASSUME NEW t \in SUBSET (S \cap T), Cardinality(t) <= 0 PROVE h[t] = k[t]
      <3>1. t = {}
        BY <1>0, <2>1, SizeFacts
      <3> QED BY <1>1, <3>1
    <2> QED BY <2>1
  <1>3. ASSUME NEW n \in Nat, n \in G PROVE n + 1 \in G
    <2> SUFFICES ASSUME NEW t \in SUBSET (S \cap T), Cardinality(t) <= n + 1 PROVE h[t] = k[t]
      OBVIOUS
    <2>1. CASE t = {}
      BY <1>1, <2>1
    <2>2. CASE t # {}
      <3> DEFINE p == AnyOf(t)
      <3>1. p \in t
        BY <2>2, AnyOfIn
      <3>2. t \ {p} \in SUBSET (S \cap T) /\ Cardinality(t \ {p}) = Cardinality(t) - 1
            /\ Cardinality(t) \in Nat
        BY <1>0, <3>1, SizeFacts
      <3>3. h[t \ {p}] = k[t \ {p}]
        BY <1>3, <3>2
      <3> QED BY <1>1, <2>2, <3>3
    <2> QED BY <2>1, <2>2
  <1>4. Nat \subseteq G
    <2> HIDE DEF G
    <2> QED BY <1>2, <1>3, Induction
  <1>5. Cardinality(s) \in Nat
    BY <1>0, SizeFacts
  <1> QED BY <1>4, <1>5

\* What SumFunctionOnSet is, for every h that satisfies its recursion.
LEMMA SumIs ==
  ASSUME NEW f, NEW S, IsFiniteSet(S), NEW g, NEW h, \A x \in S : f[x] = g[x], Sums(h, g, S)
  PROVE  SumFunctionOnSet(f, S) = h[S]
  <1> DEFINE k == CHOOSE i : Sums(i, f, S)
  <1>1. SumFunctionOnSet(f, S) = k[S]
    BY DEF SumFunctionOnSet, FoldFunctionOnSet, MapThenFoldSet, Sums, AnyOf
  <1>2. Sums(k, f, S)
    BY SumsExist
  <1> HIDE DEF k
  <1>3. S \in SUBSET (S \cap S)
    OBVIOUS
  <1>4. k[S] = h[S]
    BY <1>2, <1>3, SameSums
  <1> QED BY <1>1, <1>4

LEMMA SumOfNone ==
  ASSUME NEW f
  PROVE  SumFunctionOnSet(f, {}) = 0
  <1>1. PICK h : Sums(h, f, {})
    BY SumsExist, FS_EmptySet
  <1>2. h[{}] = 0
    BY <1>1 DEF Sums
  <1> QED BY <1>1, <1>2, SumIs, FS_EmptySet

LEMMA SumTyped ==
  ASSUME NEW S, IsFiniteSet(S), NEW f, \A x \in S : f[x] \in Int
  PROVE  SumFunctionOnSet(f, S) \in Int
  <1>1. PICK h : Sums(h, f, S)
    BY SumsExist
  <1>2. h[S] \in Int
    BY <1>1, AnyOrder
  <1> QED BY <1>1, <1>2, SumIs

LEMMA SumSame ==
  ASSUME NEW S, IsFiniteSet(S), NEW f, NEW g, \A x \in S : f[x] = g[x]
  PROVE  SumFunctionOnSet(f, S) = SumFunctionOnSet(g, S)
  <1>1. PICK h : Sums(h, f, S)
    BY SumsExist
  <1>2. SumFunctionOnSet(f, S) = h[S] /\ SumFunctionOnSet(g, S) = h[S]
    BY <1>1, SumIs
  <1> QED BY <1>2

\* An element that joins a sum adds what is summed of it.
LEMMA SumJoins ==
  ASSUME NEW S, IsFiniteSet(S), NEW f, NEW e, e \notin S, \A x \in S \cup {e} : f[x] \in Int
  PROVE  SumFunctionOnSet(f, S \cup {e}) = f[e] + SumFunctionOnSet(f, S)
  <1> DEFINE T == S \cup {e}
  <1>1. IsFiniteSet(T) /\ T \ {e} = S /\ T \in SUBSET T /\ S \in SUBSET (S \cap T) /\ e \in T
    BY FS_AddElement
  <1> HIDE DEF T
  <1>2. PICK h : Sums(h, f, T)
    BY <1>1, SumsExist
  <1>3. PICK k : Sums(k, f, S)
    BY SumsExist
  <1>4. h[T] = f[e] + h[T \ {e}]
    <2>1. \A x \in T : f[x] \in Int
      BY DEF T
    <2> QED BY <1>1, <1>2, <2>1, AnyOrder
  <1>5. h[S] = k[S]
    <2>1. k[S] = h[S]
      BY <1>1, <1>2, <1>3, SameSums
    <2> QED BY <2>1
  <1>6. SumFunctionOnSet(f, T) = h[T] /\ SumFunctionOnSet(f, S) = k[S]
    BY <1>1, <1>2, <1>3, SumIs
  <1>7. SumFunctionOnSet(f, T) = f[e] + SumFunctionOnSet(f, S)
    BY <1>1, <1>4, <1>5, <1>6
  <1> QED BY <1>7 DEF T
=============================================================================
