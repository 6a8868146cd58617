---------------------------- MODULE DataTheorems ----------------------------
(***************************************************************************)
(* What the recursive definitions the models share compute, for any finite *)
(* input: the sums (SumFunction and SumFunctionOnSet of the library) and   *)
(* Retain.  There is no induction rule to cite, so a fact is shown for all *)
(* sizes by NatInductive, on the set of sizes it holds for.                *)
(***************************************************************************)
EXTENDS Lists, Functions, FiniteSets, FiniteSetTheorems, TLAPS

Less == {ss \in Nat \X Nat : ss[1] < ss[2]}

(* A non-empty set of naturals has a least member. *)
LEMMA NatMin ==
    ASSUME NEW S \in SUBSET Nat, S # {}
    PROVE  \E m \in S : \A n \in S : m <= n
<1>1. IsWellFoundedOn(Less, Nat)
  BY NatLessThanWellFounded, Zenon DEF OpToRel, Less
<1>2. PICK m \in S : \A n \in S : ~ (<<n, m>> \in Less)
  BY <1>1, WFMin
<1>3. ASSUME NEW n \in S, n < m
      PROVE  <<n, m>> \in Less
  BY <1>3 DEF Less
<1>4. ASSUME NEW n \in S
      PROVE  m <= n
  <2>1. m \in Nat /\ n \in Nat
    OBVIOUS
  <2>2. ~ (n < m)
    BY <1>2, <1>3
  <2> QED BY <2>1, <2>2
<1> QED BY <1>4

(* Induction on a set of naturals. *)
LEMMA NatInductive ==
    ASSUME NEW S \in SUBSET Nat, 0 \in S, \A n \in S : n + 1 \in S
    PROVE  S = Nat
<1> SUFFICES ASSUME Nat \ S # {} PROVE FALSE
  OBVIOUS
<1>1. PICK m \in Nat \ S : \A n \in Nat \ S : m <= n
  BY NatMin
<1>2. m # 0 /\ m - 1 \in Nat /\ m - 1 \notin Nat \ S
  BY <1>1
<1>3. m = (m - 1) + 1
  BY <1>1
<1> QED BY <1>1, <1>2, <1>3

-----------------------------------------------------------------------------
Pick(s) == CHOOSE x \in s : TRUE

(* g adds up f over the subsets in dom. *)
AddsUp(f, dom, g) ==
    g = [s \in dom |-> IF s = {} THEN 0 ELSE f[Pick(s)] + g[s \ {Pick(s)}]]

Iter(f, T) == CHOOSE g : AddsUp(f, SUBSET T, g)

LEMMA SumIsIter ==
    ASSUME NEW f, NEW T
    PROVE  SumFunctionOnSet(f, T) = Iter(f, T)[T]
BY DEF SumFunctionOnSet, FoldFunctionOnSet, MapThenFoldSet, Iter, AddsUp, Pick

LEMMA PickIn == ASSUME NEW s, s # {} PROVE Pick(s) \in s
BY DEF Pick

(* A set loses one member when its picked one is taken out. *)
LEMMA PickRemoves ==
    ASSUME NEW T, IsFiniteSet(T), NEW s \in SUBSET T, NEW x \in s
    PROVE  /\ IsFiniteSet(s) /\ Cardinality(s) \in Nat
           /\ s \ {x} \in SUBSET T
           /\ Cardinality(s \ {x}) \in Nat /\ Cardinality(s \ {x}) + 1 = Cardinality(s)
<1>1. IsFiniteSet(s)
  BY FS_Subset
<1>2. Cardinality(s) \in Nat /\ IsFiniteSet(s \ {x}) /\ Cardinality(s \ {x}) = Cardinality(s) - 1
  BY <1>1, FS_CardinalityType, FS_RemoveElement
<1>3. Cardinality(s \ {x}) \in Nat
  BY <1>2, FS_CardinalityType
<1> QED BY <1>1, <1>2, <1>3

Layer(T, n) == {s \in SUBSET T : Cardinality(s) <= n}

(* The recursion has a solution on the sets of up to n members, ... *)
LEMMA LayerStep ==
    ASSUME NEW T, IsFiniteSet(T), NEW f, \A x \in T : f[x] \in Int, NEW n \in Nat,
           NEW g \in [Layer(T, n) -> Int], AddsUp(f, Layer(T, n), g)
    PROVE  \E h \in [Layer(T, n + 1) -> Int] : AddsUp(f, Layer(T, n + 1), h)
<1> DEFINE h == [s \in Layer(T, n + 1) |->
                   IF s = {} THEN 0 ELSE f[Pick(s)] + g[s \ {Pick(s)}]]
<1>1. ASSUME NEW s \in Layer(T, n + 1), s # {}
      PROVE  s \ {Pick(s)} \in Layer(T, n) /\ f[Pick(s)] \in Int
  <2>1. Pick(s) \in s /\ s \in SUBSET T /\ Cardinality(s) <= n + 1
    BY <1>1, PickIn DEF Layer
  <2>2. /\ s \ {Pick(s)} \in SUBSET T /\ Cardinality(s \ {Pick(s)}) \in Nat
        /\ Cardinality(s \ {Pick(s)}) + 1 = Cardinality(s)
    BY <2>1, PickRemoves
  <2>3. Cardinality(s \ {Pick(s)}) <= n
    BY <2>1, <2>2
  <2> QED BY <2>1, <2>2, <2>3 DEF Layer
<1>2. h \in [Layer(T, n + 1) -> Int]
  <2>1. ASSUME NEW s \in Layer(T, n + 1)
        PROVE  (IF s = {} THEN 0 ELSE f[Pick(s)] + g[s \ {Pick(s)}]) \in Int
    <3>1. CASE s = {}
      BY <3>1
    <3>2. CASE s # {}
      <4>1. f[Pick(s)] \in Int /\ g[s \ {Pick(s)}] \in Int
        BY <1>1, <3>2
      <4> QED BY <3>2, <4>1
    <3> QED BY <3>1, <3>2
  <2> QED BY <2>1
<1>3. ASSUME NEW u \in Layer(T, n)
      PROVE  h[u] = g[u]
  <2>1. u \in Layer(T, n + 1)
    <3>1. IsFiniteSet(u)
      BY FS_Subset DEF Layer
    <3>2. Cardinality(u) \in Nat
      BY <3>1, FS_CardinalityType
    <3> QED BY <3>2 DEF Layer
  <2>2. g[u] = IF u = {} THEN 0 ELSE f[Pick(u)] + g[u \ {Pick(u)}]
    BY DEF AddsUp
  <2> QED BY <2>1, <2>2
<1>4. ASSUME NEW s \in Layer(T, n + 1)
      PROVE  h[s] = IF s = {} THEN 0 ELSE f[Pick(s)] + h[s \ {Pick(s)}]
  BY <1>1, <1>3
<1>5. AddsUp(f, Layer(T, n + 1), h)
  BY <1>2, <1>4 DEF AddsUp
<1> HIDE DEF h
<1> QED BY <1>2, <1>5

(* ... so it has one on all subsets of a finite set. *)
LEMMA IterExists ==
    ASSUME NEW T, IsFiniteSet(T), NEW f, \A x \in T : f[x] \in Int
    PROVE  \E g \in [SUBSET T -> Int] : AddsUp(f, SUBSET T, g)
<1> DEFINE S == {n \in Nat : \E g \in [Layer(T, n) -> Int] : AddsUp(f, Layer(T, n), g)}
<1>1. 0 \in S
  <2> DEFINE g == [s \in Layer(T, 0) |-> 0]
  <2>1. ASSUME NEW s \in Layer(T, 0) PROVE s = {}
    <3>1. IsFiniteSet(s) /\ Cardinality(s) <= 0
      BY FS_Subset DEF Layer
    <3>2. Cardinality(s) \in Nat
      BY <3>1, FS_CardinalityType
    <3> QED BY <3>1, <3>2, FS_EmptySet
  <2>2. AddsUp(f, Layer(T, 0), g)
    BY <2>1 DEF AddsUp
  <2>3. g \in [Layer(T, 0) -> Int]
    OBVIOUS
  <2> HIDE DEF g
  <2> QED BY <2>2, <2>3
<1>2. \A n \in S : n + 1 \in S
  BY LayerStep
<1>3. S = Nat
  <2> HIDE DEF S
  <2>1. S \in SUBSET Nat
    BY DEF S
  <2> QED BY <1>1, <1>2, <2>1, NatInductive
<1>4. Cardinality(T) \in Nat
  BY FS_CardinalityType
<1>5. Layer(T, Cardinality(T)) = SUBSET T
  BY FS_Subset DEF Layer
<1> QED BY <1>3, <1>4, <1>5

(* Two solutions agree where the functions they add up do. *)
SumsOf(f, T, U, g) == AddsUp(f, SUBSET T, g) /\ U \subseteq T
SameOn(U, f1, f2)  == \A x \in U : f1[x] = f2[x]

LEMMA Congruent ==
    ASSUME NEW T1, NEW T2, NEW U, IsFiniteSet(U),
           NEW f1, NEW f2, SameOn(U, f1, f2),
           NEW g1, SumsOf(f1, T1, U, g1), NEW g2, SumsOf(f2, T2, U, g2)
    PROVE  g1[U] = g2[U]
<1> USE DEF SumsOf, SameOn
<1> DEFINE S == {n \in Nat : \A s \in SUBSET U : Cardinality(s) = n => g1[s] = g2[s]}
<1>1. ASSUME NEW s \in SUBSET U
      PROVE  /\ g1[s] = IF s = {} THEN 0 ELSE f1[Pick(s)] + g1[s \ {Pick(s)}]
             /\ g2[s] = IF s = {} THEN 0 ELSE f2[Pick(s)] + g2[s \ {Pick(s)}]
  <2>1. s \in SUBSET T1 /\ s \in SUBSET T2
    OBVIOUS
  <2>2. g1[s] = IF s = {} THEN 0 ELSE f1[Pick(s)] + g1[s \ {Pick(s)}]
    BY <2>1 DEF AddsUp
  <2>3. g2[s] = IF s = {} THEN 0 ELSE f2[Pick(s)] + g2[s \ {Pick(s)}]
    BY <2>1 DEF AddsUp
  <2> QED BY <2>2, <2>3
<1>2. 0 \in S
  <2>1. ASSUME NEW s \in SUBSET U, Cardinality(s) = 0 PROVE s = {}
    BY <2>1, FS_Subset, FS_EmptySet
  <2> QED BY <1>1, <2>1
<1>3. ASSUME NEW n \in S PROVE n + 1 \in S
  <2> SUFFICES ASSUME NEW s \in SUBSET U, Cardinality(s) = n + 1 PROVE g1[s] = g2[s]
    OBVIOUS
  <2>1. s # {}
    <3>1. n \in Nat /\ Cardinality({}) = 0
      BY FS_EmptySet
    <3> QED BY <3>1
  <2>2. Pick(s) \in s
    BY <2>1, PickIn
  <2>3. s \ {Pick(s)} \in SUBSET U /\ Cardinality(s \ {Pick(s)}) = n
    BY <2>2, PickRemoves
  <2>4. g1[s \ {Pick(s)}] = g2[s \ {Pick(s)}] /\ f1[Pick(s)] = f2[Pick(s)]
    BY <2>2, <2>3
  <2> QED BY <1>1, <2>1, <2>4
<1>4. S = Nat
  <2> HIDE DEF S
  <2>1. S \in SUBSET Nat
    BY DEF S
  <2> QED BY <1>2, <1>3, <2>1, NatInductive
<1>5. Cardinality(U) \in S
  BY <1>4, FS_CardinalityType
<1> QED BY <1>5

LEMMA IterAddsUp ==
    ASSUME NEW T, IsFiniteSet(T), NEW f, \A x \in T : f[x] \in Int
    PROVE  AddsUp(f, SUBSET T, Iter(f, T))
BY IterExists DEF Iter

-----------------------------------------------------------------------------
(* The sum over no index is zero. *)
LEMMA SumEmpty == ASSUME NEW f PROVE SumFunctionOnSet(f, {}) = 0
<1>1. AddsUp(f, SUBSET {}, Iter(f, {}))
  BY IterAddsUp, FS_EmptySet
<1>2. Iter(f, {})[{}] = 0
  BY <1>1 DEF AddsUp
<1> QED BY <1>2, SumIsIter

(* A sum of integers is one. *)
LEMMA SumInt ==
    ASSUME NEW T, IsFiniteSet(T), NEW f, \A x \in T : f[x] \in Int
    PROVE  SumFunctionOnSet(f, T) \in Int
<1>1. PICK g \in [SUBSET T -> Int] : AddsUp(f, SUBSET T, g)
  BY IterExists
<1>2. SumsOf(f, T, T, g) /\ SumsOf(f, T, T, Iter(f, T)) /\ SameOn(T, f, f)
  BY <1>1, IterAddsUp DEF SumsOf, SameOn
<1>3. g[T] = Iter(f, T)[T]
  BY <1>2, Congruent
<1>4. g[T] \in Int
  BY <1>1
<1> QED BY <1>3, <1>4, SumIsIter

(* The sum depends on the values of the indices alone. *)
LEMMA SumSame ==
    ASSUME NEW T, IsFiniteSet(T), NEW f, NEW g, \A x \in T : f[x] \in Int /\ f[x] = g[x]
    PROVE  SumFunctionOnSet(f, T) = SumFunctionOnSet(g, T)
<1>1. AddsUp(f, SUBSET T, Iter(f, T)) /\ AddsUp(g, SUBSET T, Iter(g, T))
  BY IterAddsUp
<1>2. SumsOf(f, T, T, Iter(f, T)) /\ SumsOf(g, T, T, Iter(g, T)) /\ SameOn(T, f, g)
  BY <1>1 DEF SumsOf, SameOn
<1>3. Iter(f, T)[T] = Iter(g, T)[T]
  BY <1>2, Congruent
<1> QED BY <1>3, SumIsIter

(* Any index may be taken out of the sum first. *)
LEMMA SumSplit ==
    ASSUME NEW T, IsFiniteSet(T), NEW f, \A x \in T : f[x] \in Int, NEW x \in T
    PROVE  SumFunctionOnSet(f, T) = f[x] + SumFunctionOnSet(f, T \ {x})
<1>1. PICK g \in [SUBSET T -> Int] : AddsUp(f, SUBSET T, g)
  BY IterExists
<1> DEFINE S == {n \in Nat : \A s \in SUBSET T : \A y \in s :
                    Cardinality(s) <= n => g[s] = f[y] + g[s \ {y}]}
<1>2. ASSUME NEW s \in SUBSET T PROVE g[s] \in Int
  BY <1>1
<1>3. ASSUME NEW s \in SUBSET T, s # {}
      PROVE  g[s] = f[Pick(s)] + g[s \ {Pick(s)}]
  BY <1>1, <1>3 DEF AddsUp
<1>4. 0 \in S
  <2> SUFFICES ASSUME NEW s \in SUBSET T, NEW y \in s, Cardinality(s) <= 0 PROVE FALSE
    OBVIOUS
  <2>1. Cardinality(s \ {y}) \in Nat /\ Cardinality(s \ {y}) + 1 = Cardinality(s)
    BY PickRemoves
  <2> QED BY <2>1
<1>5. ASSUME NEW n \in S PROVE n + 1 \in S
  <2> SUFFICES ASSUME NEW s \in SUBSET T, NEW y \in s, Cardinality(s) <= n + 1
               PROVE  g[s] = f[y] + g[s \ {y}]
    OBVIOUS
  <2> DEFINE p == Pick(s)
  <2>1. p \in s /\ g[s] = f[p] + g[s \ {p}]
    BY <1>3, PickIn
  <2> HIDE DEF p
  <2>2. CASE y = p
    BY <2>1, <2>2
  <2>3. CASE y # p
    <3>1. /\ s \ {p} \in SUBSET T /\ Cardinality(s \ {p}) <= n /\ y \in s \ {p}
          /\ s \ {y} \in SUBSET T /\ Cardinality(s \ {y}) <= n /\ p \in s \ {y}
      <4>1. /\ Cardinality(s) \in Nat
            /\ Cardinality(s \ {p}) \in Nat /\ Cardinality(s \ {p}) + 1 = Cardinality(s)
            /\ Cardinality(s \ {y}) \in Nat /\ Cardinality(s \ {y}) + 1 = Cardinality(s)
        BY <2>1, PickRemoves
      <4> QED BY <2>1, <2>3, <4>1
    <3>2. g[s \ {p}] = f[y] + g[(s \ {p}) \ {y}]
      BY <3>1
    <3>3. g[s \ {y}] = f[p] + g[(s \ {y}) \ {p}]
      BY <3>1
    <3>4. (s \ {p}) \ {y} = (s \ {y}) \ {p}
      OBVIOUS
    <3>5. g[(s \ {y}) \ {p}] \in Int /\ f[p] \in Int /\ f[y] \in Int
      BY <1>2, <2>1
    <3> DEFINE both == g[(s \ {y}) \ {p}]
    <3>6. both \in Int /\ g[s \ {p}] = f[y] + both /\ g[s \ {y}] = f[p] + both
      BY <3>2, <3>3, <3>4, <3>5
    <3> HIDE DEF both
    <3> QED BY <2>1, <3>5, <3>6
  <2> QED BY <2>2, <2>3
<1>6. S = Nat
  <2> HIDE DEF S
  <2>1. S \in SUBSET Nat
    BY DEF S
  <2> QED BY <1>4, <1>5, <2>1, NatInductive
<1>7. Cardinality(T) \in Nat
  BY FS_CardinalityType
<1>8. Cardinality(T) \in S
  BY <1>6, <1>7
<1>9. g[T] = f[x] + g[T \ {x}]
  <2>1. \A s \in SUBSET T : \A y \in s : Cardinality(s) <= Cardinality(T) => g[s] = f[y] + g[s \ {y}]
    BY <1>8
  <2> QED BY <1>7, <2>1
<1>10. IsFiniteSet(T \ {x}) /\ AddsUp(f, SUBSET (T \ {x}), Iter(f, T \ {x}))
  BY FS_Subset, IterAddsUp
<1>11. /\ SumsOf(f, T, T, g) /\ SumsOf(f, T, T, Iter(f, T)) /\ SameOn(T, f, f)
       /\ SumsOf(f, T, T \ {x}, g) /\ SumsOf(f, T \ {x}, T \ {x}, Iter(f, T \ {x}))
       /\ SameOn(T \ {x}, f, f)
  BY <1>1, <1>10, IterAddsUp DEF SumsOf, SameOn
<1>12. g[T] = Iter(f, T)[T]
  BY <1>11, Congruent
<1>13. g[T \ {x}] = Iter(f, T \ {x})[T \ {x}]
  BY <1>10, <1>11, Congruent
<1> QED BY <1>9, <1>12, <1>13, SumIsIter

-----------------------------------------------------------------------------
(* A new index adds its value. *)
LEMMA SumAdd ==
    ASSUME NEW T, IsFiniteSet(T), NEW x, x \notin T,
           NEW f, \A y \in T \cup {x} : f[y] \in Int
    PROVE  SumFunctionOnSet(f, T \cup {x}) = f[x] + SumFunctionOnSet(f, T)
<1>1. IsFiniteSet(T \cup {x}) /\ (T \cup {x}) \ {x} = T /\ x \in T \cup {x}
  BY FS_AddElement
<1> QED BY <1>1, SumSplit

(* Changing the value of one index changes the sum by as much. *)
LEMMA SumChange ==
    ASSUME NEW T, IsFiniteSet(T), NEW x \in T, NEW f, NEW g,
           \A y \in T : f[y] \in Int /\ g[y] \in Int,
           \A y \in T \ {x} : g[y] = f[y]
    PROVE  SumFunctionOnSet(g, T) = SumFunctionOnSet(f, T) - f[x] + g[x]
<1>1. IsFiniteSet(T \ {x})
  BY FS_Subset
<1>2. SumFunctionOnSet(f, T \ {x}) = SumFunctionOnSet(g, T \ {x})
  BY <1>1, SumSame
<1>3. SumFunctionOnSet(f, T \ {x}) \in Int
  BY <1>1, SumInt
<1>4. SumFunctionOnSet(f, T) = f[x] + SumFunctionOnSet(f, T \ {x})
  BY SumSplit
<1>5. SumFunctionOnSet(g, T) = g[x] + SumFunctionOnSet(g, T \ {x})
  BY SumSplit
<1>6. f[x] \in Int /\ g[x] \in Int
  OBVIOUS
<1> QED BY <1>2, <1>3, <1>4, <1>5, <1>6

(* A sum of zeros is zero. *)
LEMMA SumZero ==
    ASSUME NEW T, IsFiniteSet(T), NEW f, \A x \in T : f[x] = 0
    PROVE  SumFunctionOnSet(f, T) = 0
<1> DEFINE N == {n \in Nat : \A S \in SUBSET T : Cardinality(S) = n => SumFunctionOnSet(f, S) = 0}
<1>1. 0 \in N
  <2> SUFFICES ASSUME NEW S \in SUBSET T, Cardinality(S) = 0 PROVE SumFunctionOnSet(f, S) = 0
    OBVIOUS
  <2>1. S = {}
    BY FS_Subset, FS_EmptySet
  <2> QED BY <2>1, SumEmpty
<1>2. ASSUME NEW n \in N PROVE n + 1 \in N
  <2> SUFFICES ASSUME NEW S \in SUBSET T, Cardinality(S) = n + 1
               PROVE  SumFunctionOnSet(f, S) = 0
    OBVIOUS
  <2>1. PICK x \in S : TRUE
    <3>1. n \in Nat /\ Cardinality({}) = 0
      BY FS_EmptySet
    <3> QED BY <3>1
  <2>2. S \ {x} \in SUBSET T /\ Cardinality(S \ {x}) = n /\ IsFiniteSet(S)
    <3>1. /\ IsFiniteSet(S) /\ S \ {x} \in SUBSET T
          /\ Cardinality(S \ {x}) \in Nat /\ Cardinality(S \ {x}) + 1 = Cardinality(S)
      BY <2>1, PickRemoves
    <3> QED BY <3>1
  <2>3. SumFunctionOnSet(f, S \ {x}) = 0
    BY <2>2
  <2>4. f[x] = 0 /\ \A y \in S : f[y] \in Int
    BY <2>1
  <2>5. SumFunctionOnSet(f, S) = f[x] + SumFunctionOnSet(f, S \ {x})
    BY <2>1, <2>2, <2>4, SumSplit
  <2> QED BY <2>3, <2>4, <2>5
<1>3. N = Nat
  <2> HIDE DEF N
  <2>1. N \in SUBSET Nat
    BY DEF N
  <2> QED BY <1>1, <1>2, <2>1, NatInductive
<1>4. Cardinality(T) \in N
  BY <1>3, FS_CardinalityType
<1> QED BY <1>4

(* A sum of naturals is one, ... *)
LEMMA SumNat ==
    ASSUME NEW T, IsFiniteSet(T), NEW f, \A x \in T : f[x] \in Nat
    PROVE  SumFunctionOnSet(f, T) \in Nat
<1> DEFINE S == {n \in Nat : \A s \in SUBSET T :
                    Cardinality(s) = n => SumFunctionOnSet(f, s) \in Nat}
<1>1. 0 \in S
  <2> SUFFICES ASSUME NEW s \in SUBSET T, Cardinality(s) = 0 PROVE SumFunctionOnSet(f, s) \in Nat
    OBVIOUS
  <2>1. s = {}
    BY FS_Subset, FS_EmptySet
  <2> QED BY <2>1, SumEmpty
<1>2. ASSUME NEW n \in S PROVE n + 1 \in S
  <2> SUFFICES ASSUME NEW s \in SUBSET T, Cardinality(s) = n + 1
               PROVE  SumFunctionOnSet(f, s) \in Nat
    OBVIOUS
  <2>1. PICK x \in s : TRUE
    <3>1. n \in Nat /\ Cardinality({}) = 0
      BY FS_EmptySet
    <3> QED BY <3>1
  <2>2. s \ {x} \in SUBSET T /\ Cardinality(s \ {x}) = n /\ IsFiniteSet(s)
    <3>1. /\ IsFiniteSet(s) /\ s \ {x} \in SUBSET T
          /\ Cardinality(s \ {x}) \in Nat /\ Cardinality(s \ {x}) + 1 = Cardinality(s)
      BY <2>1, PickRemoves
    <3> QED BY <3>1
  <2>3. SumFunctionOnSet(f, s \ {x}) \in Nat
    BY <2>2
  <2>4. f[x] \in Nat /\ \A y \in s : f[y] \in Int
    BY <2>1
  <2>5. SumFunctionOnSet(f, s) = f[x] + SumFunctionOnSet(f, s \ {x})
    BY <2>1, <2>2, <2>4, SumSplit
  <2> QED BY <2>3, <2>4, <2>5
<1>3. S = Nat
  <2> HIDE DEF S
  <2>1. S \in SUBSET Nat
    BY DEF S
  <2> QED BY <1>1, <1>2, <2>1, NatInductive
<1>4. Cardinality(T) \in S
  BY <1>3, FS_CardinalityType
<1> QED BY <1>4

(* ... no smaller than any of its terms, ... *)
LEMMA SumBoundsTerm ==
    ASSUME NEW T, IsFiniteSet(T), NEW f, \A x \in T : f[x] \in Nat, NEW x \in T
    PROVE  f[x] <= SumFunctionOnSet(f, T)
<1>1. IsFiniteSet(T \ {x})
  BY FS_Subset
<1>2. SumFunctionOnSet(f, T \ {x}) \in Nat
  BY <1>1, SumNat
<1>3. SumFunctionOnSet(f, T) = f[x] + SumFunctionOnSet(f, T \ {x})
  BY SumSplit
<1> QED BY <1>2, <1>3

(* ... nor than any two of them. *)
LEMMA SumBoundsTwo ==
    ASSUME NEW T, IsFiniteSet(T), NEW f, \A x \in T : f[x] \in Nat,
           NEW x \in T, NEW y \in T, x # y
    PROVE  f[x] + f[y] <= SumFunctionOnSet(f, T)
<1>1. IsFiniteSet(T \ {x}) /\ y \in T \ {x}
  BY FS_Subset
<1>2. f[y] <= SumFunctionOnSet(f, T \ {x})
  BY <1>1, SumBoundsTerm
<1>3. SumFunctionOnSet(f, T) = f[x] + SumFunctionOnSet(f, T \ {x})
  BY SumSplit
<1>4. SumFunctionOnSet(f, T \ {x}) \in Nat
  BY <1>1, SumNat
<1> QED BY <1>2, <1>3, <1>4

(* With more terms it is no smaller. *)
LEMMA SumSubset ==
    ASSUME NEW T, IsFiniteSet(T), NEW f, \A x \in T : f[x] \in Nat, NEW U \in SUBSET T
    PROVE  SumFunctionOnSet(f, U) <= SumFunctionOnSet(f, T)
<1> DEFINE F(S) == SumFunctionOnSet(f, S)
           N == {n \in Nat : \A S \in SUBSET T : Cardinality(S) = n =>
                    \A R \in SUBSET S : F(R) <= F(S)}
<1>1. 0 \in N
  <2> SUFFICES ASSUME NEW S \in SUBSET T, Cardinality(S) = 0, NEW R \in SUBSET S
               PROVE  F(R) <= F(S)
    OBVIOUS
  <2>1. S = {} /\ R = {}
    BY FS_Subset, FS_EmptySet
  <2> QED BY <2>1, SumEmpty
<1>2. ASSUME NEW n \in N PROVE n + 1 \in N
  <2> SUFFICES ASSUME NEW S \in SUBSET T, Cardinality(S) = n + 1, NEW R \in SUBSET S
               PROVE  F(R) <= F(S)
    OBVIOUS
  <2>1. PICK x \in S : TRUE
    <3>1. n \in Nat /\ Cardinality({}) = 0
      BY FS_EmptySet
    <3> QED BY <3>1
  <2>2. S \ {x} \in SUBSET T /\ Cardinality(S \ {x}) = n /\ IsFiniteSet(S) /\ IsFiniteSet(S \ {x})
    <3>1. /\ IsFiniteSet(S) /\ S \ {x} \in SUBSET T
          /\ Cardinality(S \ {x}) \in Nat /\ Cardinality(S \ {x}) + 1 = Cardinality(S)
      BY <2>1, PickRemoves
    <3> QED BY <3>1, FS_Subset
  <2>3. \A Q \in SUBSET (S \ {x}) : F(Q) <= F(S \ {x})
    BY <2>2
  <2>4. f[x] \in Nat /\ \A y \in S : f[y] \in Nat
    BY <2>1
  <2>5. F(S) = f[x] + F(S \ {x})
    BY <2>1, <2>2, <2>4, SumSplit
  <2>6. IsFiniteSet(R) /\ IsFiniteSet(R \ {x})
    BY <2>2, FS_Subset
  <2>7. F(S \ {x}) \in Nat /\ F(R) \in Nat /\ F(R \ {x}) \in Nat
    BY <2>2, <2>4, <2>6, SumNat
  <2>8. CASE x \in R
    <3>1. F(R) = f[x] + F(R \ {x})
      BY <2>4, <2>6, <2>8, SumSplit
    <3>2. F(R \ {x}) <= F(S \ {x})
      BY <2>3
    <3> HIDE DEF F
    <3> QED BY <2>4, <2>5, <2>7, <3>1, <3>2
  <2>9. CASE x \notin R
    <3>1. F(R) <= F(S \ {x})
      BY <2>3, <2>9
    <3> HIDE DEF F
    <3> QED BY <2>4, <2>5, <2>7, <3>1
  <2> QED BY <2>8, <2>9
<1>3. N = Nat
  <2> HIDE DEF N
  <2>1. N \in SUBSET Nat
    BY DEF N
  <2> QED BY <1>1, <1>2, <2>1, NatInductive
<1>4. Cardinality(T) \in N
  BY <1>3, FS_CardinalityType
<1> QED BY <1>4

(* Sums are added term by term. *)
LEMMA SumPlus ==
    ASSUME NEW T, IsFiniteSet(T), NEW f, NEW g, NEW h,
           \A x \in T : f[x] \in Int /\ g[x] \in Int /\ h[x] = f[x] + g[x]
    PROVE  SumFunctionOnSet(h, T) = SumFunctionOnSet(f, T) + SumFunctionOnSet(g, T)
<1> DEFINE F(S) == SumFunctionOnSet(f, S)
           G(S) == SumFunctionOnSet(g, S)
           H(S) == SumFunctionOnSet(h, S)
           N == {n \in Nat : \A S \in SUBSET T : Cardinality(S) = n => H(S) = F(S) + G(S)}
<1>1. 0 \in N
  <2> SUFFICES ASSUME NEW S \in SUBSET T, Cardinality(S) = 0 PROVE H(S) = F(S) + G(S)
    OBVIOUS
  <2>1. S = {}
    BY FS_Subset, FS_EmptySet
  <2>2. F(S) = 0 /\ G(S) = 0 /\ H(S) = 0
    BY <2>1, SumEmpty
  <2> HIDE DEF F, G, H
  <2> QED BY <2>2
<1>2. ASSUME NEW n \in N PROVE n + 1 \in N
  <2> SUFFICES ASSUME NEW S \in SUBSET T, Cardinality(S) = n + 1 PROVE H(S) = F(S) + G(S)
    OBVIOUS
  <2>1. PICK x \in S : TRUE
    <3>1. n \in Nat /\ Cardinality({}) = 0
      BY FS_EmptySet
    <3> QED BY <3>1
  <2> DEFINE R == S \ {x}
  <2>2. R \in SUBSET T /\ Cardinality(R) = n /\ IsFiniteSet(S) /\ IsFiniteSet(R)
    <3>1. /\ IsFiniteSet(S) /\ R \in SUBSET T
          /\ Cardinality(R) \in Nat /\ Cardinality(R) + 1 = Cardinality(S)
      BY <2>1, PickRemoves
    <3> QED BY <3>1, FS_Subset
  <2>3. H(R) = F(R) + G(R)
    BY <2>2
  <2>4. /\ f[x] \in Int /\ g[x] \in Int /\ h[x] = f[x] + g[x]
        /\ \A y \in S : f[y] \in Int /\ g[y] \in Int /\ h[y] \in Int
    BY <2>1
  <2>5. F(S) = f[x] + F(R)
    BY <2>1, <2>2, <2>4, SumSplit
  <2>6. G(S) = g[x] + G(R)
    BY <2>1, <2>2, <2>4, SumSplit
  <2>7. H(S) = h[x] + H(R)
    BY <2>1, <2>2, <2>4, SumSplit
  <2>8. F(R) \in Int /\ G(R) \in Int
    BY <2>2, <2>4, SumInt
  <2> HIDE DEF F, G, H, R
  <2> QED BY <2>3, <2>4, <2>5, <2>6, <2>7, <2>8
<1>3. N = Nat
  <2> HIDE DEF N
  <2>1. N \in SUBSET Nat
    BY DEF N
  <2> QED BY <1>1, <1>2, <2>1, NatInductive
<1>4. Cardinality(T) \in N
  BY <1>3, FS_CardinalityType
<1> QED BY <1>4

LEMMA SameSuccessor == \A p, q \in Nat : p + 1 = q + 1 => p = q
OBVIOUS

(* A bound on the terms is a bound on the sums. *)
LEMMA SumBound ==
    ASSUME NEW T, IsFiniteSet(T), NEW f, NEW g, NEW a \in Int, NEW b \in Int, NEW c \in Int,
           \A x \in T : f[x] \in Int /\ g[x] \in Int /\ a * f[x] <= b * g[x] + c
    PROVE  a * SumFunctionOnSet(f, T) <= b * SumFunctionOnSet(g, T) + c * Cardinality(T)
<1> DEFINE F(S) == SumFunctionOnSet(f, S)
           G(S) == SumFunctionOnSet(g, S)
           N == {n \in Nat : \A S \in SUBSET T : Cardinality(S) = n => a * F(S) <= b * G(S) + c * n}
<1>1. 0 \in N
  <2> SUFFICES ASSUME NEW S \in SUBSET T, Cardinality(S) = 0 PROVE a * F(S) <= b * G(S) + c * 0
    OBVIOUS
  <2>1. S = {}
    BY FS_Subset, FS_EmptySet
  <2>2. F(S) = 0 /\ G(S) = 0
    BY <2>1, SumEmpty
  <2> HIDE DEF F, G
  <2> QED BY <2>2
<1>2. ASSUME NEW n \in N PROVE n + 1 \in N
  <2> SUFFICES ASSUME NEW S \in SUBSET T, Cardinality(S) = n + 1
               PROVE  a * F(S) <= b * G(S) + c * (n + 1)
    OBVIOUS
  <2>1. PICK x \in S : TRUE
    <3>1. n \in Nat /\ Cardinality({}) = 0
      BY FS_EmptySet
    <3> QED BY <3>1
  <2> DEFINE R == S \ {x}
  <2>2. R \in SUBSET T /\ Cardinality(R) = n /\ IsFiniteSet(S) /\ IsFiniteSet(R)
    <3>1. /\ IsFiniteSet(S) /\ R \in SUBSET T
          /\ Cardinality(R) \in Nat /\ Cardinality(R) + 1 = Cardinality(S)
      BY <2>1, PickRemoves
    <3>2. n \in Nat /\ IsFiniteSet(R)
      BY <3>1, FS_Subset
    <3>3. Cardinality(R) = n
      BY <3>1, <3>2, SameSuccessor, Zenon
    <3> QED BY <3>1, <3>2, <3>3
  <2>3. a * F(R) <= b * G(R) + c * n /\ n \in Nat
    BY <2>2
  <2>4. /\ f[x] \in Int /\ g[x] \in Int /\ a * f[x] <= b * g[x] + c
        /\ \A y \in S : f[y] \in Int /\ g[y] \in Int
    BY <2>1
  <2>5. F(S) = f[x] + F(R)
    BY <2>1, <2>2, <2>4, SumSplit
  <2>6. G(S) = g[x] + G(R)
    BY <2>1, <2>2, <2>4, SumSplit
  <2>7. F(R) \in Int /\ G(R) \in Int
    BY <2>2, <2>4, SumInt
  <2> HIDE DEF F, G, R
  <2>8. /\ a * F(S) = a * f[x] + a * F(R) /\ b * G(S) = b * g[x] + b * G(R)
        /\ c * (n + 1) = c * n + c
    BY <2>3, <2>4, <2>5, <2>6, <2>7
  <2> DEFINE u == a * f[x]
             v == a * F(R)
             w == b * g[x]
             z == b * G(R)
             m == c * n
  <2>9. u \in Int /\ v \in Int /\ w \in Int /\ z \in Int /\ m \in Int /\ u <= w + c /\ v <= z + m
    BY <2>3, <2>4, <2>7
  <2> HIDE DEF u, v, w, z, m
  <2>10. u + v <= w + z + (m + c)
    BY <2>9
  <2>11. a * F(S) = u + v /\ b * G(S) = w + z /\ c * (n + 1) = m + c
    BY <2>8 DEF u, v, w, z, m
  <2> QED BY <2>9, <2>10, <2>11
<1>3. N = Nat
  <2> HIDE DEF N
  <2>1. N \in SUBSET Nat
    BY DEF N
  <2> QED BY <1>1, <1>2, <2>1, NatInductive
<1>4. Cardinality(T) \in N
  BY <1>3, FS_CardinalityType
<1> QED BY <1>4

(* A common factor of the terms is one of the sum. *)
LEMMA SumScaled ==
    ASSUME NEW T, IsFiniteSet(T), NEW f, NEW g, NEW c \in Int,
           \A x \in T : f[x] \in Int /\ g[x] \in Int /\ f[x] = c * g[x]
    PROVE  SumFunctionOnSet(f, T) = c * SumFunctionOnSet(g, T)
<1> DEFINE one == 1
           none == 0
           F == SumFunctionOnSet(f, T)
           G == SumFunctionOnSet(g, T)
           n == Cardinality(T)
<1>1. \A x \in T : /\ f[x] \in Int /\ g[x] \in Int
                  /\ one * f[x] <= c * g[x] + none /\ c * g[x] <= one * f[x] + none
  <2> TAKE x \in T
  <2> DEFINE p == c * g[x]
  <2>1. f[x] = p /\ p \in Int /\ g[x] \in Int
    OBVIOUS
  <2> HIDE DEF p
  <2>2. one * f[x] <= p + none /\ p <= one * f[x] + none
    BY <2>1
  <2> QED BY <2>1, <2>2 DEF p
<1>2. one \in Int /\ none \in Int
  OBVIOUS
<1>3. F \in Int /\ G \in Int /\ n \in Nat
  BY SumInt, FS_CardinalityType
<1> HIDE DEF one, none
<1>4. one * F <= c * G + none * n
  BY <1>1, <1>2, SumBound
<1>5. c * G <= one * F + none * n
  BY <1>1, <1>2, SumBound
<1> HIDE DEF F, G, n
<1> DEFINE p == c * G
<1>6. p \in Int /\ one * F <= p + none * n /\ p <= one * F + none * n
  BY <1>3, <1>4, <1>5
<1> HIDE DEF p
<1>7. F = p
  BY <1>3, <1>6 DEF one, none
<1> QED BY <1>7 DEF F, G, p

(* g holds the sums of f over the parts of T that dep tells apart; ... *)
PartSums(g, f, T, D, dep) ==
    \A d \in D : g[d] = SumFunctionOnSet(f, {x \in T : dep[x] = d})

(* ... they add up to the sum over T. *)
LEMMA SumByParts ==
    ASSUME NEW T, IsFiniteSet(T), NEW D, IsFiniteSet(D), NEW dep, \A x \in T : dep[x] \in D,
           NEW f, \A x \in T : f[x] \in Int, NEW g, PartSums(g, f, T, D, dep)
    PROVE  SumFunctionOnSet(g, D) = SumFunctionOnSet(f, T)
<1> DEFINE Part(S, d) == {x \in S : dep[x] = d}
           P(S) == [d \in D |-> SumFunctionOnSet(f, Part(S, d))]
           N == {n \in Nat : \A S \in SUBSET T : Cardinality(S) = n =>
                    SumFunctionOnSet(P(S), D) = SumFunctionOnSet(f, S)}
<1>1. ASSUME NEW S \in SUBSET T, NEW d \in D
      PROVE  P(S)[d] = SumFunctionOnSet(f, Part(S, d)) /\ P(S)[d] \in Int
  <2>1. IsFiniteSet(Part(S, d)) /\ \A x \in Part(S, d) : f[x] \in Int
    BY FS_Subset
  <2> HIDE DEF Part
  <2> QED BY <2>1, SumInt
<1>2. 0 \in N
  <2> SUFFICES ASSUME NEW S \in SUBSET T, Cardinality(S) = 0
               PROVE  SumFunctionOnSet(P(S), D) = SumFunctionOnSet(f, S)
    OBVIOUS
  <2>1. S = {} /\ \A d \in D : Part(S, d) = {}
    BY FS_Subset, FS_EmptySet
  <2> HIDE DEF Part
  <2>2. \A d \in D : P(S)[d] = 0
    BY <2>1, SumEmpty
  <2> HIDE DEF P
  <2>3. SumFunctionOnSet(P(S), D) = 0
    BY <2>2, SumZero
  <2> QED BY <2>1, <2>3, SumEmpty
<1>3. ASSUME NEW n \in N PROVE n + 1 \in N
  <2> SUFFICES ASSUME NEW S \in SUBSET T, Cardinality(S) = n + 1
               PROVE  SumFunctionOnSet(P(S), D) = SumFunctionOnSet(f, S)
    OBVIOUS
  <2>1. PICK x \in S : TRUE
    <3>1. n \in Nat /\ Cardinality({}) = 0
      BY FS_EmptySet
    <3> QED BY <3>1
  <2> DEFINE R == S \ {x}
             e == dep[x]
  <2>2. R \in SUBSET T /\ Cardinality(R) = n /\ IsFiniteSet(S) /\ IsFiniteSet(R)
    <3>1. /\ IsFiniteSet(S) /\ R \in SUBSET T
          /\ Cardinality(R) \in Nat /\ Cardinality(R) + 1 = Cardinality(S)
      BY <2>1, PickRemoves
    <3> QED BY <3>1, FS_Subset
  <2>3. SumFunctionOnSet(P(R), D) = SumFunctionOnSet(f, R)
    BY <2>2
  <2>4. SumFunctionOnSet(f, S) = f[x] + SumFunctionOnSet(f, R)
    BY <2>1, <2>2, SumSplit
  <2>5. e \in D /\ f[x] \in Int
    BY <2>1
  <2>6. x \in Part(S, e) /\ Part(S, e) \ {x} = Part(R, e)
    BY <2>1
  <2>7. \A d \in D \ {e} : Part(S, d) = Part(R, d)
    OBVIOUS
  <2>8. SumFunctionOnSet(f, Part(S, e)) = f[x] + SumFunctionOnSet(f, Part(R, e))
    <3>1. IsFiniteSet(Part(S, e)) /\ \A y \in Part(S, e) : f[y] \in Int
      BY <2>2, FS_Subset
    <3> HIDE DEF Part, R, e
    <3> QED BY <2>6, <3>1, SumSplit
  <2> HIDE DEF Part, R, e
  <2>9. /\ P(S)[e] = f[x] + P(R)[e] /\ \A d \in D \ {e} : P(R)[d] = P(S)[d]
        /\ \A d \in D : P(R)[d] \in Int /\ P(S)[d] \in Int
    BY <1>1, <2>2, <2>5, <2>7, <2>8
  <2> HIDE DEF P
  <2>10. SumFunctionOnSet(P(S), D) = SumFunctionOnSet(P(R), D) - P(R)[e] + P(S)[e]
    BY <2>5, <2>9, SumChange
  <2>11. SumFunctionOnSet(P(R), D) \in Int /\ P(R)[e] \in Int
    BY <2>5, <2>9, SumInt
  <2> QED BY <2>3, <2>4, <2>5, <2>9, <2>10, <2>11
<1>4. N = Nat
  <2> HIDE DEF N
  <2>1. N \in SUBSET Nat
    BY DEF N
  <2> QED BY <1>2, <1>3, <2>1, NatInductive
<1>5. Cardinality(T) \in N
  BY <1>4, FS_CardinalityType
<1>6. SumFunctionOnSet(P(T), D) = SumFunctionOnSet(f, T)
  BY <1>5
<1>7. \A d \in D : P(T)[d] \in Int /\ P(T)[d] = g[d]
  BY <1>1 DEF PartSums
<1> HIDE DEF P
<1> QED BY <1>6, <1>7, SumSame

-----------------------------------------------------------------------------
(* m is the product, over any subset of T, of s and the factors f gives. *)
ProductOf(m, T, f, s) ==
    /\ m \in [SUBSET T -> Nat] /\ m[{}] = s
    /\ \A S \in SUBSET T : \A x \in T \ S : m[S \cup {x}] = f[x] * m[S]

(* There is one: the order of the factors does not matter. *)
LEMMA ProductExists ==
    ASSUME NEW T, IsFiniteSet(T), NEW f, \A x \in T : f[x] \in Nat, NEW s \in Nat
    PROVE  \E m : ProductOf(m, T, f, s)
<1> DEFINE N == {n \in Nat : \A U \in SUBSET T : Cardinality(U) = n => \E m : ProductOf(m, U, f, s)}
<1>1. 0 \in N
  <2> SUFFICES ASSUME NEW U \in SUBSET T, Cardinality(U) = 0 PROVE \E m : ProductOf(m, U, f, s)
    OBVIOUS
  <2>1. U = {}
    BY FS_Subset, FS_EmptySet
  <2> DEFINE m == [S \in SUBSET {} |-> s]
  <2>2. ProductOf(m, {}, f, s)
    BY DEF ProductOf
  <2> HIDE DEF m
  <2> QED BY <2>1, <2>2
<1>2. ASSUME NEW n \in N PROVE n + 1 \in N
  <2> SUFFICES ASSUME NEW U \in SUBSET T, Cardinality(U) = n + 1 PROVE \E m : ProductOf(m, U, f, s)
    OBVIOUS
  <2>1. PICK x \in U : TRUE
    <3>1. n \in Nat /\ Cardinality({}) = 0
      BY FS_EmptySet
    <3> QED BY <3>1
  <2> DEFINE R == U \ {x}
  <2>2. R \in SUBSET T /\ Cardinality(R) = n
    <3>1. /\ R \in SUBSET T /\ Cardinality(R) \in Nat /\ Cardinality(R) + 1 = Cardinality(U)
      BY <2>1, PickRemoves
    <3> QED BY <3>1
  <2>3. PICK m : ProductOf(m, R, f, s)
    BY <2>2
  <2>4. /\ m \in [SUBSET R -> Nat] /\ m[{}] = s
        /\ \A S \in SUBSET R : \A y \in R \ S : m[S \cup {y}] = f[y] * m[S]
    BY <2>3 DEF ProductOf
  <2>5. \A y \in U : f[y] \in Nat
    OBVIOUS
  <2> HIDE DEF N
  <2> DEFINE h == [S \in SUBSET U |-> IF x \in S THEN f[x] * m[S \ {x}] ELSE m[S]]
  <2>6. \A S \in SUBSET U : S \ {x} \in SUBSET R /\ m[S \ {x}] \in Nat
    BY <2>4
  <2>7. \A S \in SUBSET U : h[S] = IF x \in S THEN f[x] * m[S \ {x}] ELSE m[S \ {x}]
    <3>1. \A S \in SUBSET U : x \notin S => S \ {x} = S
      OBVIOUS
    <3> QED BY <3>1
  <2>8. h \in [SUBSET U -> Nat]
    <3>1. ASSUME NEW S \in SUBSET U PROVE h[S] \in Nat
      <4> DEFINE a == f[x]
                 c == m[S \ {x}]
      <4>1. a \in Nat /\ c \in Nat /\ h[S] = IF x \in S THEN a * c ELSE c
        BY <2>1, <2>5, <2>6, <2>7
      <4> HIDE DEF a, c, h
      <4> QED BY <4>1
    <3>2. DOMAIN h = SUBSET U /\ h = [S \in SUBSET U |-> h[S]]
      OBVIOUS
    <3> HIDE DEF h
    <3> QED BY <3>1, <3>2
  <2>9. h[{}] = s
    BY <2>4
  <2> HIDE DEF h
  <2>10. ASSUME NEW S \in SUBSET U, NEW y \in U \ S PROVE h[S \cup {y}] = f[y] * h[S]
    <3>1. S \cup {y} \in SUBSET U
      OBVIOUS
    <3>2. CASE y = x
      <4>1. x \notin S /\ x \in S \cup {y} /\ (S \cup {y}) \ {x} = S \ {x}
        BY <3>2
      <4> QED BY <2>7, <3>1, <3>2, <4>1
    <3>3. CASE y # x
      <4>1. /\ (S \cup {y}) \ {x} = (S \ {x}) \cup {y} /\ y \in R \ (S \ {x})
            /\ x \in S \cup {y} <=> x \in S
        BY <3>3
      <4>2. m[(S \cup {y}) \ {x}] = f[y] * m[S \ {x}]
        BY <2>4, <2>6, <4>1
      <4>3. f[x] \in Nat /\ f[y] \in Nat /\ m[S \ {x}] \in Nat
        BY <2>1, <2>5, <2>6
      <4> DEFINE a == f[x]
                 c == f[y]
                 p == m[S \ {x}]
      <4>4. a * (c * p) = c * (a * p)
        <5> HIDE DEF a, c, p
        <5>1. a \in Nat /\ c \in Nat /\ p \in Nat
          BY <4>3 DEF a, c, p
        <5> QED BY <5>1
      <4>5. CASE x \in S
        <5>1. h[S \cup {y}] = a * (c * p) /\ h[S] = a * p
          BY <2>7, <3>1, <4>1, <4>2, <4>5
        <5> QED BY <4>4, <5>1
      <4>6. CASE x \notin S
        <5>1. h[S \cup {y}] = c * p /\ h[S] = p
          BY <2>7, <3>1, <4>1, <4>2, <4>6
        <5> QED BY <5>1
      <4> QED BY <4>5, <4>6
    <3> QED BY <3>2, <3>3
  <2>11. ProductOf(h, U, f, s)
    BY <2>8, <2>9, <2>10 DEF ProductOf
  <2> QED BY <2>11
<1>3. N = Nat
  <2> HIDE DEF N
  <2>1. N \in SUBSET Nat
    BY DEF N
  <2> QED BY <1>1, <1>2, <2>1, NatInductive
<1>4. Cardinality(T) \in N
  BY <1>3, FS_CardinalityType
<1> QED BY <1>4

-----------------------------------------------------------------------------
(* Appending to a list, ... *)
LEMMA AppendFacts ==
    ASSUME NEW X, NEW q \in Seq(X), NEW x \in X
    PROVE  /\ Append(q, x) \in Seq(X) /\ Len(Append(q, x)) = Len(q) + 1 /\ Len(q) \in Nat
           /\ \A j \in 1 .. Len(q) + 1 : Append(q, x)[j] = IF j = Len(q) + 1 THEN x ELSE q[j]
           /\ Range(Append(q, x)) = Range(q) \cup {x}
           /\ IsInjective(q) /\ x \notin Range(q) => IsInjective(Append(q, x))
<1>1. Append(q, x) \in Seq(X) /\ Len(Append(q, x)) = Len(q) + 1 /\ Len(q) \in Nat
  OBVIOUS
<1>2. \A j \in 1 .. Len(q) + 1 : Append(q, x)[j] = IF j = Len(q) + 1 THEN x ELSE q[j]
  OBVIOUS
<1>3. /\ DOMAIN Append(q, x) = 1 .. Len(q) + 1 /\ DOMAIN q = 1 .. Len(q)
      /\ Len(q) + 1 \in 1 .. Len(q) + 1
      /\ \A j \in 1 .. Len(q) : j \in 1 .. Len(q) + 1 /\ j # Len(q) + 1
      /\ \A j \in 1 .. Len(q) + 1 : j # Len(q) + 1 => j \in 1 .. Len(q)
  BY <1>1
<1> DEFINE r == Append(q, x)
           l == Len(q) + 1
<1>4. /\ DOMAIN r = 1 .. l /\ l \in 1 .. l /\ r[l] = x
      /\ \A j \in DOMAIN q : j \in DOMAIN r /\ r[j] = q[j]
      /\ \A j \in DOMAIN r : j = l \/ (j \in DOMAIN q /\ r[j] = q[j])
  BY <1>2, <1>3
<1> HIDE DEF r, l
<1>5. Range(r) = Range(q) \cup {x}
  BY <1>4 DEF Range
<1>6. IsInjective(q) /\ x \notin Range(q) => IsInjective(r)
  BY <1>4 DEF Range, IsInjective
<1> QED BY <1>1, <1>2, <1>5, <1>6 DEF r

(* ... and taking off its head. *)
LEMMA TailFacts ==
    ASSUME NEW X, NEW q \in Seq(X), q # <<>>, IsInjective(q)
    PROVE  /\ Tail(q) \in Seq(X) /\ Head(q) \in Range(q) /\ IsInjective(Tail(q))
           /\ Range(Tail(q)) = Range(q) \ {Head(q)}
<1>1. /\ Tail(q) \in Seq(X) /\ Len(q) \in Nat \ {0} /\ Len(Tail(q)) = Len(q) - 1
      /\ DOMAIN q = 1 .. Len(q) /\ DOMAIN Tail(q) = 1 .. Len(q) - 1
      /\ Head(q) = q[1] /\ \A j \in 1 .. Len(q) - 1 : Tail(q)[j] = q[j + 1]
  OBVIOUS
<1>2. 1 \in DOMAIN q /\ \A j \in DOMAIN Tail(q) : j + 1 \in DOMAIN q /\ j + 1 # 1
  BY <1>1
<1>3. \A i \in DOMAIN q : i # 1 => i - 1 \in DOMAIN Tail(q) /\ (i - 1) + 1 = i
  BY <1>1
<1>4. Range(Tail(q)) \subseteq Range(q) \ {Head(q)}
  BY <1>1, <1>2 DEF Range, IsInjective
<1>5. ASSUME NEW y \in Range(q) \ {Head(q)} PROVE y \in Range(Tail(q))
  <2>1. PICK i \in DOMAIN q : y = q[i]
    BY DEF Range
  <2>2. i # 1
    BY <1>1, <2>1
  <2>3. i - 1 \in DOMAIN Tail(q) /\ Tail(q)[i - 1] = y
    BY <1>1, <1>3, <2>1, <2>2
  <2> QED BY <2>3 DEF Range
<1>6. ASSUME NEW i \in DOMAIN Tail(q), NEW j \in DOMAIN Tail(q), Tail(q)[i] = Tail(q)[j]
      PROVE  i = j
  <2>1. i + 1 = j + 1
    BY <1>1, <1>2, <1>6 DEF IsInjective
  <2> QED BY <1>1, <2>1
<1>7. IsInjective(Tail(q)) /\ Head(q) \in Range(q)
  BY <1>1, <1>2, <1>6 DEF IsInjective, Range
<1> QED BY <1>1, <1>4, <1>5, <1>7

(* A list without repetition is as long as its members are many. *)
LEMMA InjectiveLen ==
    ASSUME NEW X, NEW q \in Seq(X), IsInjective(q)
    PROVE  IsFiniteSet(Range(q)) /\ Cardinality(Range(q)) = Len(q)
<1>1. Len(q) \in Nat /\ DOMAIN q = 1 .. Len(q)
  OBVIOUS
<1>2. IsFiniteSet(1 .. Len(q)) /\ Cardinality(1 .. Len(q)) = Len(q)
  BY <1>1, FS_Interval
<1>3. q \in Bijection(1 .. Len(q), Range(q))
  BY <1>1 DEF Bijection, Injection, Surjection, IsInjective, Range
<1> QED BY <1>2, <1>3, FS_Bijection DEF ExistsBijection

(* The list of what is kept of the first i entries, for each i up to n. *)
Keeps(s, S, n, k) ==
    k = [i \in 0 .. n |-> IF i = 0 THEN <<>>
                          ELSE IF s[i] \in S THEN Append(k[i - 1], s[i]) ELSE k[i - 1]]

LEMMA KeepsExists ==
    ASSUME NEW s, NEW S, NEW n \in Nat
    PROVE  \E k : Keeps(s, S, n, k)
<1> DEFINE N == {m \in Nat : \E k : Keeps(s, S, m, k)}
<1>1. 0 \in N
  <2> DEFINE k == [i \in 0 .. 0 |-> <<>>]
  <2>1. Keeps(s, S, 0, k)
    BY DEF Keeps
  <2> HIDE DEF k
  <2> QED BY <2>1
<1>2. ASSUME NEW m \in N PROVE m + 1 \in N
  <2>1. PICK k : Keeps(s, S, m, k)
    OBVIOUS
  <2> DEFINE h == [i \in 0 .. m + 1 |->
                      IF i = 0 THEN <<>>
                      ELSE IF s[i] \in S THEN Append(k[i - 1], s[i]) ELSE k[i - 1]]
  <2> m \in Nat
    OBVIOUS
  <2>2. ASSUME NEW i \in 0 .. m PROVE h[i] = k[i]
    <3>1. i \in 0 .. m + 1
      OBVIOUS
    <3>2. k[i] = IF i = 0 THEN <<>> ELSE IF s[i] \in S THEN Append(k[i - 1], s[i]) ELSE k[i - 1]
      BY <2>1 DEF Keeps
    <3> QED BY <3>1, <3>2
  <2>3. ASSUME NEW i \in 0 .. m + 1, i # 0 PROVE h[i - 1] = k[i - 1]
    <3>1. i - 1 \in 0 .. m
      BY <2>3
    <3> HIDE DEF h
    <3> QED BY <2>2, <3>1
  <2>4. Keeps(s, S, m + 1, h)
    BY <2>3 DEF Keeps
  <2> HIDE DEF h
  <2> QED BY <2>4
<1>3. N = Nat
  <2> HIDE DEF N
  <2>1. N \in SUBSET Nat
    BY DEF N
  <2> QED BY <1>1, <1>2, <2>1, NatInductive
<1> QED BY <1>3

(* The steps by which Retain builds its list. *)
LEMMA RetainSteps ==
    ASSUME NEW X, NEW s \in Seq(X), NEW S
    PROVE  \E k : /\ k[0] = <<>>
                  /\ \A i \in 1 .. Len(s) :
                        k[i] = IF s[i] \in S THEN Append(k[i - 1], s[i]) ELSE k[i - 1]
                  /\ Retain(s, S) = k[Len(s)]
<1> DEFINE k == CHOOSE kk : Keeps(s, S, Len(s), kk)
<1>1. Retain(s, S) = k[Len(s)]
  BY DEF Retain, Keeps
<1>2. Keeps(s, S, Len(s), k)
  BY KeepsExists
<1> HIDE DEF k
<1>3. k[0] = <<>>
  BY <1>2 DEF Keeps
<1>4. ASSUME NEW i \in 1 .. Len(s)
      PROVE  k[i] = IF s[i] \in S THEN Append(k[i - 1], s[i]) ELSE k[i - 1]
  <2>1. i \in 0 .. Len(s) /\ i # 0
    OBVIOUS
  <2> QED BY <1>2, <2>1 DEF Keeps
<1> QED BY <1>1, <1>3, <1>4

(* Retain gives a list of the same type, with the members of S and no others, and
   with none twice if none was there twice; it changes nothing when all are kept. *)
LEMMA RetainFacts ==
    ASSUME NEW X, NEW s \in Seq(X), NEW S
    PROVE  /\ Retain(s, S) \in Seq(X)
           /\ Range(Retain(s, S)) = Range(s) \cap S
           /\ IsInjective(s) => IsInjective(Retain(s, S))
           /\ Range(s) \subseteq S => Retain(s, S) = s
<1>1. PICK k : /\ k[0] = <<>>
               /\ \A i \in 1 .. Len(s) :
                     k[i] = IF s[i] \in S THEN Append(k[i - 1], s[i]) ELSE k[i - 1]
               /\ Retain(s, S) = k[Len(s)]
  BY RetainSteps
<1> DEFINE Good(q, i) == /\ q \in Seq(X)
                         /\ Range(q) = {s[j] : j \in 1 .. i} \cap S
                         /\ IsInjective(s) => IsInjective(q)
                         /\ Range(s) \subseteq S => Len(q) = i /\ \A j \in 1 .. i : q[j] = s[j]
           N == {i \in Nat : i <= Len(s) => Good(k[i], i)}
<1>2. 0 \in N
  <2>1. Good(<<>>, 0)
    BY DEF Range, IsInjective
  <2> HIDE DEF Good
  <2> QED BY <1>1, <2>1
<1>3. ASSUME NEW i \in N PROVE i + 1 \in N
  <2> SUFFICES ASSUME i + 1 <= Len(s) PROVE Good(k[i + 1], i + 1)
    OBVIOUS
  <2> DEFINE q == k[i]
             x == s[i + 1]
  <2>1. i \in Nat /\ i + 1 \in 1 .. Len(s) /\ x \in X /\ Good(q, i)
    OBVIOUS
  <2>2. k[i + 1] = IF x \in S THEN Append(q, x) ELSE q
    BY <1>1, <2>1
  <2>3. {s[j] : j \in 1 .. i + 1} = {s[j] : j \in 1 .. i} \cup {x}
    BY <2>1
  <2>4. x \in Range(s)
    BY <2>1 DEF Range
  <2> HIDE DEF q, x
  <2>5. CASE x \notin S
    BY <2>1, <2>2, <2>3, <2>4, <2>5
  <2>6. CASE x \in S
    <3>1. Append(q, x) \in Seq(X) /\ Len(Append(q, x)) = Len(q) + 1 /\ Len(q) \in Nat
      BY <2>1, AppendFacts
    <3>2. \A j \in 1 .. Len(q) + 1 : Append(q, x)[j] = IF j = Len(q) + 1 THEN x ELSE q[j]
      BY <2>1, AppendFacts
    <3>3. Range(Append(q, x)) = Range(q) \cup {x}
      BY <2>1, AppendFacts
    <3>4. Range(Append(q, x)) = {s[j] : j \in 1 .. i + 1} \cap S
      BY <2>1, <2>3, <2>6, <3>3
    <3>5. ASSUME IsInjective(s) PROVE IsInjective(Append(q, x))
      <4>1. x \notin {s[j] : j \in 1 .. i}
        BY <2>1, <3>5 DEF IsInjective, x
      <4>2. x \notin Range(q)
        BY <2>1, <4>1
      <4>3. IsInjective(q)
        BY <2>1, <3>5
      <4> QED BY <2>1, <4>2, <4>3, AppendFacts
    <3>6. ASSUME Range(s) \subseteq S
          PROVE  /\ Len(Append(q, x)) = i + 1
                 /\ \A j \in 1 .. i + 1 : Append(q, x)[j] = s[j]
      BY <2>1, <3>1, <3>2, <3>6 DEF x
    <3> QED BY <2>2, <2>6, <3>1, <3>4, <3>5, <3>6
  <2> QED BY <2>5, <2>6
<1>4. N = Nat
  <2> HIDE DEF N
  <2>1. N \in SUBSET Nat
    BY DEF N
  <2> QED BY <1>2, <1>3, <2>1, NatInductive
<1>5. Len(s) \in Nat /\ Len(s) \in N
  BY <1>4
<1>6. Good(Retain(s, S), Len(s))
  <2>1. Good(k[Len(s)], Len(s))
    BY <1>5
  <2> HIDE DEF Good
  <2> QED BY <1>1, <2>1
<1>7. Range(s) = {s[j] : j \in 1 .. Len(s)}
  BY DEF Range
<1>8. ASSUME Range(s) \subseteq S PROVE Retain(s, S) = s
  BY <1>6, <1>8
<1> QED BY <1>6, <1>7, <1>8
-----------------------------------------------------------------------------
(* Division of naturals, rounded down. *)
LEMMA DivFacts ==
    ASSUME NEW a \in Nat, NEW n \in Nat \ {0}
    PROVE  /\ a \div n \in Nat /\ n * (a \div n) \in Nat
           /\ n * (a \div n) <= a /\ a < n * (a \div n) + n
<1>1. a \div n \in Int /\ (n * (a \div n)) + (a % n) = a /\ a % n \in 0 .. n - 1
  OBVIOUS
<1>2. a \div n >= 0
  BY <1>1
<1> QED BY <1>1, <1>2

LEMMA MulMono ==
    ASSUME NEW a \in Int, NEW b \in Int, NEW n \in Nat, a <= b
    PROVE  n * a <= n * b /\ n * a \in Int /\ n * b \in Int
OBVIOUS

LEMMA MulCancel ==
    ASSUME NEW a \in Int, NEW b \in Int, NEW n \in Nat, n * a < n * b
    PROVE  a < b
<1>1. a >= b => n * b <= n * a
  BY MulMono
<1> QED BY <1>1

LEMMA DivUpper ==
    ASSUME NEW a \in Nat, NEW n \in Nat \ {0}, NEW q \in Nat, a <= n * q
    PROVE  a \div n <= q
<1> DEFINE p == a \div n
<1>1. p \in Nat /\ n * p <= a
  BY DivFacts
<1>2. n * p < n * (q + 1)
  BY <1>1
<1> HIDE DEF p
<1>3. p < q + 1
  BY <1>1, <1>2, MulCancel
<1> QED BY <1>1, <1>3 DEF p

LEMMA DivLower ==
    ASSUME NEW a \in Nat, NEW n \in Nat \ {0}, NEW q \in Nat, n * q <= a
    PROVE  q <= a \div n
<1> DEFINE p == a \div n
<1>1. p \in Nat /\ a < n * p + n
  BY DivFacts
<1>2. n * q < n * (p + 1)
  BY <1>1
<1> HIDE DEF p
<1>3. q < p + 1
  BY <1>1, <1>2, MulCancel
<1> QED BY <1>1, <1>3 DEF p

LEMMA DivMono ==
    ASSUME NEW a \in Nat, NEW b \in Nat, NEW n \in Nat \ {0}, a <= b
    PROVE  a \div n <= b \div n
<1>1. n * (a \div n) <= b /\ a \div n \in Nat
  BY DivFacts
<1> QED BY <1>1, DivLower
=============================================================================
