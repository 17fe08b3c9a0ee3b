--------------------------- MODULE GameTurnProofs ---------------------------
(***************************************************************************)
(* The rules of a turn on every board, for any number of players and       *)
(* units: what the phases keep by hand agrees with the units on the board, *)
(* the scores add up, and a result follows from the board it is declared   *)
(* on.  Each phase has a lemma of its own; ExecuteTurn composes them.      *)
(***************************************************************************)
EXTENDS GameTurn, FiniteSetTheorems, SequenceTheorems, WellFoundedInduction, TLAPS

-----------------------------------------------------------------------------
(***************************************************************************)
(* Induction by the least counterexample, and sums over finite sets.       *)
(***************************************************************************)

\* A set of natural numbers has a least element.
LEMMA LeastNat ==
  ASSUME NEW S, S \subseteq Nat, S # {}
  PROVE  \E x \in S : \A y \in S : x <= y
  <1>1. PICK x \in S : \A y \in S : ~(<<y, x>> \in OpToRel(<, Nat))
    BY NatLessThanWellFounded, WFMin
  <1>2. ASSUME NEW y \in S PROVE ~(y < x)
    BY <1>1, <1>2 DEF OpToRel
  <1> QED BY <1>2

\* A finite, non-empty set of natural numbers has a greatest element.
LEMMA GreatestNat ==
  ASSUME NEW S, S \subseteq Nat, S # {}, IsFiniteSet(S)
  PROVE  \E x \in S : \A y \in S : x >= y
  <1> DEFINE Sizes == {Cardinality({y \in S : y > x}) : x \in S}
  <1>1. ASSUME NEW x \in S PROVE IsFiniteSet({y \in S : y > x})
    <2>1. {y \in S : y > x} \in SUBSET S
      OBVIOUS
    <2> QED BY <2>1, FS_Subset
  <1>2. Sizes \subseteq Nat /\ Sizes # {}
    <2>1. \A x \in S : Cardinality({y \in S : y > x}) \in Nat
      BY <1>1, FS_CardinalityType
    <2> QED BY <2>1
  <1>3. PICK k \in Sizes : \A j \in Sizes : k <= j
    BY <1>2, LeastNat
  <1>4. PICK x \in S : k = Cardinality({y \in S : y > x})
    OBVIOUS
  <1>5. ASSUME NEW z \in S, z > x PROVE FALSE
    <2>1. {y \in S : y > z} \subseteq {y \in S : y > x} \ {z}
      <3>1. ASSUME NEW y \in S, y > z PROVE y > x /\ y # z
        <4>1. x \in Nat /\ y \in Nat /\ z \in Nat
          OBVIOUS
        <4> QED BY <4>1, <3>1, <1>5
      <3> QED BY <3>1
    <2>2. z \in {y \in S : y > x}
      BY <1>5
    <2>3. Cardinality({y \in S : y > z}) <= Cardinality({y \in S : y > x} \ {z})
      BY <2>1, <1>1, FS_Subset, FS_RemoveElement
    <2>4. Cardinality({y \in S : y > x} \ {z}) = Cardinality({y \in S : y > x}) - 1
      BY <2>2, <1>1, FS_RemoveElement
    <2>5. Cardinality({y \in S : y > z}) >= k
      BY <1>3
    <2> QED BY <2>3, <2>4, <2>5, <1>4, <1>1, FS_CardinalityType
  <1> QED BY <1>5

\* The element SumFunctionOnSet takes away first, and its recursion.
Chosen(T) == CHOOSE x \in T : TRUE

Sums(f, S, g) ==
  \A T \in SUBSET S : g[T] = IF T = {} THEN 0 ELSE f[Chosen(T)] + g[T \ {Chosen(T)}]

\* The sizes of two disjoint parts of a finite set add up.
LEMMA CardSplit ==
  ASSUME NEW A, NEW B, IsFiniteSet(A \union B), A \intersect B = {}
  PROVE  /\ IsFiniteSet(A) /\ IsFiniteSet(B)
         /\ Cardinality(A) \in Nat /\ Cardinality(B) \in Nat
         /\ Cardinality(A \union B) = Cardinality(A) + Cardinality(B)
  <1>1. IsFiniteSet(A) /\ IsFiniteSet(B)
    BY FS_Subset
  <1>2. Cardinality(A) \in Nat /\ Cardinality(B) \in Nat
    BY <1>1, FS_CardinalityType
  <1>3. Cardinality(A \union B) = Cardinality(A) + Cardinality(B) - Cardinality({})
    BY <1>1, FS_Union
  <1> QED BY <1>1, <1>2, <1>3, FS_EmptySet

\* Among some subsets of a finite set there is one that stops being one of them
\* when its chosen element is taken away.
LEMMA SmallestSet ==
  ASSUME NEW S, IsFiniteSet(S), NEW Bad \in SUBSET SUBSET S, Bad # {}
  PROVE  \E T \in Bad : T # {} => Chosen(T) \in T /\ T \ {Chosen(T)} \notin Bad
  <1> DEFINE Sizes == {Cardinality(T) : T \in Bad}
  <1>1. \A T \in Bad : IsFiniteSet(T) /\ Cardinality(T) \in Nat
    BY FS_Subset, FS_CardinalityType
  <1>2. PICK n \in Sizes : \A m \in Sizes : n <= m
    <2>1. Sizes \subseteq Nat /\ Sizes # {}
      BY <1>1
    <2> QED BY <2>1, LeastNat
  <1>3. PICK T \in Bad : n = Cardinality(T)
    OBVIOUS
  <1>4. ASSUME T # {} PROVE Chosen(T) \in T /\ T \ {Chosen(T)} \notin Bad
    <2>1. Chosen(T) \in T
      BY <1>4 DEF Chosen
    <2>2. Cardinality(T \ {Chosen(T)}) = Cardinality(T) - 1
      BY <1>1, <2>1, FS_RemoveElement
    <2>3. ASSUME T \ {Chosen(T)} \in Bad PROVE FALSE
      <3>1. n <= Cardinality(T \ {Chosen(T)})
        BY <2>3, <1>2
      <3> QED BY <3>1, <2>2, <1>1, <1>3
    <2> QED BY <2>1, <2>3
  <1> QED BY <1>4

\* The recursion behind a sum over the subsets of a finite set has a solution.
LEMMA SumDefined ==
  ASSUME NEW f, NEW S, IsFiniteSet(S), \A x \in S : f[x] \in Int
  PROVE  \E g \in [SUBSET S -> Int] : Sums(f, S, g)
  <1> DEFINE Up(n) == {T \in SUBSET S : Cardinality(T) <= n}
             Sol(g, n) == /\ g \in [Up(n) -> Int]
                          /\ \A T \in Up(n) : g[T] = IF T = {} THEN 0 ELSE f[Chosen(T)] + g[T \ {Chosen(T)}]
             Bad == {n \in Nat : ~ \E g : Sol(g, n)}
  <1>1. \A T \in SUBSET S : IsFiniteSet(T) /\ Cardinality(T) \in Nat
    BY FS_Subset, FS_CardinalityType
  <1>2. \A T \in SUBSET S : T # {} => Chosen(T) \in T
    BY DEF Chosen
  <1>3. \A T \in SUBSET S : T # {} => Cardinality(T \ {Chosen(T)}) = Cardinality(T) - 1
    BY <1>1, <1>2, FS_RemoveElement
  <1>4. \A T \in SUBSET S : Cardinality(T) = 0 => T = {}
    BY <1>1, FS_EmptySet
  <1>5. Cardinality({}) = 0
    BY FS_EmptySet
  <1>6. ASSUME NEW n \in Bad, \A m \in Bad : n <= m PROVE FALSE
    <2>1. CASE n = 0
      <3>1. Up(0) = {{}}
        <4>1. \A T \in Up(0) : T = {}
          BY <1>1, <1>4
        <4>2. {} \in Up(0)
          BY <1>5
        <4> QED BY <4>1, <4>2
      <3>2. Sol([T \in Up(0) |-> 0], 0)
        BY <3>1
      <3> QED BY <2>1, <3>2
    <2>2. CASE n # 0
      <3>1. n - 1 \in Nat /\ n - 1 \notin Bad
        <4>1. n \in Nat /\ ~(n <= n - 1)
          OBVIOUS
        <4> HIDE DEF Bad
        <4>2. n - 1 \in Nat
          BY <4>1, <2>2
        <4> QED BY <1>6, <4>1, <4>2
      <3>2. PICK g : Sol(g, n - 1)
        BY <3>1
      <3>3. PICK h : h = [T \in Up(n) |-> IF T = {} THEN 0 ELSE f[Chosen(T)] + g[T \ {Chosen(T)}]]
        OBVIOUS
      <3>4. \A T \in Up(n) : T # {} => T \ {Chosen(T)} \in Up(n - 1)
        <4> SUFFICES ASSUME NEW T \in Up(n), T # {} PROVE T \ {Chosen(T)} \in Up(n - 1)
          OBVIOUS
        <4>1. Cardinality(T) <= n /\ Cardinality(T) \in Nat
          BY <1>1
        <4>2. Cardinality(T \ {Chosen(T)}) <= n - 1
          BY <1>3, <4>1
        <4> QED BY <4>2
      <3>5. \A T \in Up(n - 1) : T \in Up(n)
        BY <1>1, <3>1
      <3>6. \A T \in Up(n - 1) : h[T] = g[T]
        BY <3>2, <3>3, <3>5
      <3>7. h \in [Up(n) -> Int]
        <4>1. \A T \in Up(n) : T # {} => f[Chosen(T)] \in Int /\ g[T \ {Chosen(T)}] \in Int
          BY <3>2, <3>4, <1>2
        <4> HIDE DEF Up
        <4>2. ASSUME NEW T \in Up(n) PROVE h[T] \in Int
          <5>1. h[T] = IF T = {} THEN 0 ELSE f[Chosen(T)] + g[T \ {Chosen(T)}]
            BY <3>3
          <5>2. CASE T = {}
            BY <5>1, <5>2
          <5>3. CASE T # {}
            <6>1. PICK a, b : a = f[Chosen(T)] /\ b = g[T \ {Chosen(T)}]
              OBVIOUS
            <6>2. a \in Int /\ b \in Int /\ h[T] = a + b
              BY <4>1, <5>1, <5>3, <6>1
            <6> QED BY <6>2
          <5> QED BY <5>2, <5>3
        <4> QED BY <3>3, <4>2
      <3>8. \A T \in Up(n) : h[T] = IF T = {} THEN 0 ELSE f[Chosen(T)] + h[T \ {Chosen(T)}]
        BY <3>3, <3>4, <3>6
      <3> QED BY <3>7, <3>8
    <2> QED BY <2>1, <2>2
  <1>7. Bad = {}
    BY <1>6, LeastNat
  <1>8. PICK g : Sol(g, Cardinality(S))
    BY <1>7, <1>1
  <1>9. Up(Cardinality(S)) = SUBSET S
    <2>1. \A T \in SUBSET S : Cardinality(T) <= Cardinality(S)
      BY FS_Subset
    <2> QED BY <2>1
  <1> QED BY <1>8, <1>9 DEF Sums

\* Two solutions agree on the subsets they share.
LEMMA SumUnique ==
  ASSUME NEW f, NEW S, IsFiniteSet(S), NEW R \in SUBSET S, NEW g, NEW h,
         Sums(f, S, g), Sums(f, R, h)
  PROVE  g[R] = h[R]
  <1> DEFINE Bad == {T \in SUBSET R : g[T] # h[T]}
  <1> SUFFICES ASSUME Bad # {} PROVE FALSE
    OBVIOUS
  <1>1. PICK T \in Bad : T # {} => Chosen(T) \in T /\ T \ {Chosen(T)} \notin Bad
    <2>1. IsFiniteSet(R) /\ Bad \in SUBSET SUBSET R
      BY FS_Subset
    <2> HIDE DEF Bad
    <2> QED BY <2>1, SmallestSet
  <1>2. T # {}
    BY DEF Sums
  <1>3. g[T] = f[Chosen(T)] + g[T \ {Chosen(T)}] /\ h[T] = f[Chosen(T)] + h[T \ {Chosen(T)}]
    BY <1>2 DEF Sums
  <1>4. g[T \ {Chosen(T)}] = h[T \ {Chosen(T)}]
    BY <1>1, <1>2
  <1> QED BY <1>3, <1>4

\* SumFunctionOnSet takes an element away at a time, in an order that depends on
\* the set alone.
LEMMA SumStep ==
  ASSUME NEW f, NEW S, IsFiniteSet(S), \A x \in S : f[x] \in Int
  PROVE  /\ SumFunctionOnSet(f, S) \in Int
         /\ SumFunctionOnSet(f, S) =
              IF S = {} THEN 0
              ELSE f[Chosen(S)] + SumFunctionOnSet(f, S \ {Chosen(S)})
  <1> DEFINE Sol(g, R) == g = [T \in SUBSET R |-> IF T = {} THEN 0 ELSE f[Chosen(T)] + g[T \ {Chosen(T)}]]
             iter(R) == CHOOSE g : Sol(g, R)
  <1>1. \A R \in SUBSET S : SumFunctionOnSet(f, R) = iter(R)[R]
    BY DEF SumFunctionOnSet, FoldFunctionOnSet, MapThenFoldSet, Chosen
  <1>2. ASSUME NEW R \in SUBSET S PROVE Sol(iter(R), R) /\ iter(R)[R] \in Int
    <2>1. IsFiniteSet(R) /\ \A x \in R : f[x] \in Int
      BY FS_Subset
    <2>2. PICK g \in [SUBSET R -> Int] : Sums(f, R, g)
      BY <2>1, SumDefined
    <2>3. Sol(g, R)
      BY <2>2 DEF Sums
    <2>4. Sol(iter(R), R)
      <3> HIDE DEF Sol
      <3> QED BY <2>3
    <2>5. Sums(f, R, iter(R))
      <3> HIDE DEF iter
      <3> QED BY <2>4 DEF Sums
    <2>6. iter(R)[R] = g[R]
      <3> HIDE DEF iter
      <3> QED BY <2>1, <2>2, <2>5, SumUnique
    <2> QED BY <2>2, <2>4, <2>6
  <1>3. \A R \in SUBSET S : Sums(f, R, iter(R))
    <2> HIDE DEF iter
    <2> QED BY <1>2 DEF Sums
  <1> HIDE DEF iter
  <1>4. iter(S)[S \ {Chosen(S)}] = iter(S \ {Chosen(S)})[S \ {Chosen(S)}]
    BY <1>3, SumUnique
  <1>5. iter(S)[S] = IF S = {} THEN 0 ELSE f[Chosen(S)] + iter(S)[S \ {Chosen(S)}]
    BY <1>3 DEF Sums
  <1> QED BY <1>1, <1>2, <1>4, <1>5

\* Sums are added term by term.
LEMMA SumAdd ==
  ASSUME NEW S, IsFiniteSet(S), NEW f, NEW d, NEW h,
         \A x \in S : f[x] \in Int /\ d[x] \in Int /\ h[x] = f[x] + d[x]
  PROVE  SumFunctionOnSet(h, S) = SumFunctionOnSet(f, S) + SumFunctionOnSet(d, S)
  <1> DEFINE Bad == {T \in SUBSET S : SumFunctionOnSet(h, T) # SumFunctionOnSet(f, T) + SumFunctionOnSet(d, T)}
  <1> SUFFICES ASSUME Bad # {} PROVE FALSE
    OBVIOUS
  <1>1. PICK T \in Bad : T # {} => Chosen(T) \in T /\ T \ {Chosen(T)} \notin Bad
    <2>1. Bad \in SUBSET SUBSET S
      OBVIOUS
    <2> HIDE DEF Bad
    <2> QED BY <2>1, SmallestSet
  <1>2. ASSUME NEW U \in SUBSET S
        PROVE  /\ SumFunctionOnSet(f, U) \in Int /\ SumFunctionOnSet(d, U) \in Int /\ SumFunctionOnSet(h, U) \in Int
               /\ U = {} => SumFunctionOnSet(f, U) = 0 /\ SumFunctionOnSet(d, U) = 0 /\ SumFunctionOnSet(h, U) = 0
               /\ U # {} => /\ SumFunctionOnSet(f, U) = f[Chosen(U)] + SumFunctionOnSet(f, U \ {Chosen(U)})
                            /\ SumFunctionOnSet(d, U) = d[Chosen(U)] + SumFunctionOnSet(d, U \ {Chosen(U)})
                            /\ SumFunctionOnSet(h, U) = h[Chosen(U)] + SumFunctionOnSet(h, U \ {Chosen(U)})
    <2>1. IsFiniteSet(U) /\ \A x \in U : f[x] \in Int /\ d[x] \in Int /\ h[x] \in Int
      BY FS_Subset
    <2>2. IsFiniteSet(U) /\ \A x \in U : f[x] \in Int
      BY <2>1
    <2>3. IsFiniteSet(U) /\ \A x \in U : d[x] \in Int
      BY <2>1
    <2>4. IsFiniteSet(U) /\ \A x \in U : h[x] \in Int
      BY <2>1
    <2> QED BY <2>2, <2>3, <2>4, SumStep
  <1>3. T \in SUBSET S /\ T # {}
    <2>1. SumFunctionOnSet(h, {}) = 0 /\ SumFunctionOnSet(f, {}) = 0 /\ SumFunctionOnSet(d, {}) = 0
      BY <1>2
    <2>2. SumFunctionOnSet(h, {}) = SumFunctionOnSet(f, {}) + SumFunctionOnSet(d, {})
      BY <2>1
    <2> QED BY <2>2
  <1>4. PICK U : U = T \ {Chosen(T)}
    OBVIOUS
  <1>5. SumFunctionOnSet(h, U) = SumFunctionOnSet(f, U) + SumFunctionOnSet(d, U)
    BY <1>1, <1>3, <1>4
  <1>6. U \in SUBSET S /\ Chosen(T) \in S
    BY <1>1, <1>3, <1>4
  <1>7. h[Chosen(T)] = f[Chosen(T)] + d[Chosen(T)] /\ f[Chosen(T)] \in Int /\ d[Chosen(T)] \in Int
    BY <1>6
  <1>8. PICK a, b, m, n : a = f[Chosen(T)] /\ b = d[Chosen(T)]
                          /\ m = SumFunctionOnSet(f, U) /\ n = SumFunctionOnSet(d, U)
    OBVIOUS
  <1>9. a \in Int /\ b \in Int /\ m \in Int /\ n \in Int
    BY <1>2, <1>6, <1>7, <1>8
  <1>10. /\ SumFunctionOnSet(f, T) = a + m /\ SumFunctionOnSet(d, T) = b + n
         /\ SumFunctionOnSet(h, T) = (a + b) + (m + n)
    BY <1>2, <1>3, <1>4, <1>5, <1>7, <1>8
  <1> QED BY <1>9, <1>10

\* A factor can be taken out of a sum.
LEMMA SumScale ==
  ASSUME NEW S, IsFiniteSet(S), NEW f, NEW h, NEW k \in Int,
         \A x \in S : f[x] \in Int /\ h[x] \in Int /\ h[x] = k * f[x]
  PROVE  SumFunctionOnSet(h, S) = k * SumFunctionOnSet(f, S)
  <1> DEFINE Bad == {T \in SUBSET S : SumFunctionOnSet(h, T) # k * SumFunctionOnSet(f, T)}
  <1> SUFFICES ASSUME Bad # {} PROVE FALSE
    OBVIOUS
  <1>1. PICK T \in Bad : T # {} => Chosen(T) \in T /\ T \ {Chosen(T)} \notin Bad
    <2>1. Bad \in SUBSET SUBSET S
      OBVIOUS
    <2> HIDE DEF Bad
    <2> QED BY <2>1, SmallestSet
  <1>2. ASSUME NEW U \in SUBSET S
        PROVE  /\ SumFunctionOnSet(f, U) \in Int /\ SumFunctionOnSet(h, U) \in Int
               /\ U = {} => SumFunctionOnSet(f, U) = 0 /\ SumFunctionOnSet(h, U) = 0
               /\ U # {} => /\ SumFunctionOnSet(f, U) = f[Chosen(U)] + SumFunctionOnSet(f, U \ {Chosen(U)})
                            /\ SumFunctionOnSet(h, U) = h[Chosen(U)] + SumFunctionOnSet(h, U \ {Chosen(U)})
    <2>1. IsFiniteSet(U) /\ \A x \in U : f[x] \in Int /\ h[x] \in Int
      BY FS_Subset
    <2> QED BY <2>1, SumStep
  <1>3. T \in SUBSET S /\ T # {}
    BY <1>2
  <1>4. PICK U : U = T \ {Chosen(T)}
    OBVIOUS
  <1>5. SumFunctionOnSet(h, U) = k * SumFunctionOnSet(f, U)
    BY <1>1, <1>3, <1>4
  <1>6. U \in SUBSET S /\ Chosen(T) \in S
    BY <1>1, <1>3, <1>4
  <1>7. PICK a, b : a = f[Chosen(T)] /\ b = SumFunctionOnSet(f, U)
    OBVIOUS
  <1>8. a \in Int /\ b \in Int /\ h[Chosen(T)] = k * a
    BY <1>2, <1>6, <1>7
  <1>9. SumFunctionOnSet(f, T) = a + b /\ SumFunctionOnSet(h, T) = k * a + k * b
    BY <1>2, <1>3, <1>4, <1>5, <1>7, <1>8
  <1>10. k * (a + b) = k * a + k * b
    BY <1>8
  <1> QED BY <1>9, <1>10

\* The sizes of the parts of a partition add up to that of the whole.
LEMMA SumOfParts ==
  ASSUME NEW S, IsFiniteSet(S), NEW C, IsFiniteSet(C), NEW part, NEW f,
         \A x \in S : part[x] \in SUBSET C /\ f[x] = Cardinality(part[x]),
         \A c \in C : \E x \in S : c \in part[x],
         \A x, y \in S : x # y => part[x] \intersect part[y] = {}
  PROVE  SumFunctionOnSet(f, S) = Cardinality(C)
  <1> DEFINE Of(T) == {c \in C : \E x \in T : c \in part[x]}
             Bad == {T \in SUBSET S : SumFunctionOnSet(f, T) # Cardinality(Of(T))}
  <1>1. Of(S) = C
    OBVIOUS
  <1> SUFFICES ASSUME Bad # {} PROVE FALSE
    <2> HIDE DEF Of
    <2> QED BY <1>1
  <1>2. PICK T \in Bad : T # {} => Chosen(T) \in T /\ T \ {Chosen(T)} \notin Bad
    <2>1. Bad \in SUBSET SUBSET S
      OBVIOUS
    <2> HIDE DEF Bad
    <2> QED BY <2>1, SmallestSet
  <1>3. \A x \in S : f[x] \in Nat
    BY FS_Subset, FS_CardinalityType
  <1>4. ASSUME NEW U \in SUBSET S
        PROVE  /\ U = {} => SumFunctionOnSet(f, U) = 0
               /\ U # {} => SumFunctionOnSet(f, U) = f[Chosen(U)] + SumFunctionOnSet(f, U \ {Chosen(U)})
    <2>1. IsFiniteSet(U) /\ \A x \in U : f[x] \in Int
      BY <1>3, FS_Subset
    <2> QED BY <2>1, SumStep
  <1>5. T # {}
    <2>1. Of({}) = {}
      OBVIOUS
    <2> QED BY <2>1, <1>4, FS_EmptySet
  <1>6. PICK U : U = T \ {Chosen(T)}
    OBVIOUS
  <1>7. U \in SUBSET S /\ Chosen(T) \in S
    BY <1>2, <1>5, <1>6
  <1>8. SumFunctionOnSet(f, U) = Cardinality(Of(U))
    BY <1>2, <1>5, <1>6
  <1>9. Cardinality(Of(T)) = Cardinality(part[Chosen(T)]) + Cardinality(Of(U))
    <2>1. PICK x : x = Chosen(T)
      OBVIOUS
    <2>2. x \in S /\ x \in T /\ U = T \ {x} /\ T \in SUBSET S
      BY <1>2, <1>5, <1>6, <2>1
    <2>3. Of(T) = part[x] \union Of(U)
      BY <2>2
    <2>4. part[x] \intersect Of(U) = {}
      BY <2>2
    <2>5. Of(T) \in SUBSET C
      OBVIOUS
    <2>6. IsFiniteSet(Of(T))
      BY <2>5, FS_Subset
    <2> HIDE DEF Of
    <2> QED BY <2>1, <2>3, <2>4, <2>6, CardSplit
  <1> QED BY <1>4, <1>5, <1>6, <1>7, <1>8, <1>9

-----------------------------------------------------------------------------
(***************************************************************************)
(* The game state: what every phase needs of it and gives back.            *)
(***************************************************************************)

UnitState == [owner : Players, pos : Positions \ Walls, alive : BOOLEAN]
CoreState == [owner : Players, pos : Positions \ Walls, active : BOOLEAN, last : Nat]
NodeState == [pos : Positions, full : BOOLEAN, tick : 0 .. EnergyInterval - 1]
GameState ==
  [turn : Nat, bots : Seq(UnitState), cores : Seq(CoreState), nodes : Seq(NodeState),
   energy : [Players -> Nat], score : [Players -> Int], count : [Players -> Nat],
   kills : [Players -> Nat], dead : SUBSET Nat, zone : BOOLEAN, radius : Int,
   dominance : [Players -> Nat], calm : Nat, lastEnergy : Int, lastBots : Nat]

\* The dead are units, no core spawned in the future, and BotCount counts.
Board(g) ==
  /\ g \in GameState
  /\ g.dead \subseteq Units(g)
  /\ \A c \in DOMAIN g.cores : g.cores[c].last <= g.turn
  /\ \A p \in Players : g.count[p] = Cardinality(LivingOf(g, p))

\* The units of a game state, and any set of them, are finite in number.
LEMMA UnitsAreFinite ==
  ASSUME NEW g \in GameState
  PROVE  /\ Units(g) = 1 .. Len(g.bots) /\ Len(g.bots) \in Nat
         /\ Units(g) \subseteq Nat
         /\ \A U \in SUBSET Units(g) : IsFiniteSet(U) /\ Cardinality(U) \in Nat
         /\ Living(g) \in SUBSET Units(g)
         /\ \A p : LivingOf(g, p) \in SUBSET Living(g)
  <1>1. g.bots \in Seq(UnitState)
    BY DEF GameState
  <1>2. Units(g) = 1 .. Len(g.bots) /\ Len(g.bots) \in Nat
    BY <1>1 DEF Units
  <1>3. IsFiniteSet(Units(g))
    BY <1>2, FS_Interval
  <1> QED BY <1>2, <1>3, FS_Subset, FS_CardinalityType DEF Living, LivingOf

\* What moving and killing units leave alone.
BesidesUnits(g) ==
  <<g.turn, g.cores, g.nodes, g.energy, g.score, g.kills, g.zone, g.radius, g.dominance>>

\* A death is counted, and changes nothing but the units, their counts and the dead.
LEMMA KillBoard ==
  ASSUME NEW g, Board(g), NEW ds \in SUBSET Living(g)
  PROVE  /\ Board(Kill(g, ds))
         /\ Kill(g, ds).bots = [b \in Units(g) |-> IF b \in ds THEN [g.bots[b] EXCEPT !.alive = FALSE] ELSE g.bots[b]]
         /\ Living(Kill(g, ds)) = Living(g) \ ds
         /\ BesidesUnits(Kill(g, ds)) = BesidesUnits(g)
  <1>1. g \in GameState
    BY DEF Board
  <1>2. PICK bots : bots = [b \in Units(g) |-> IF b \in ds THEN [g.bots[b] EXCEPT !.alive = FALSE] ELSE g.bots[b]]
    OBVIOUS
  <1>3. PICK count : count = [p \in Players |-> g.count[p] - Cardinality({b \in ds : g.bots[b].owner = p})]
    OBVIOUS
  <1>4. PICK h : h = Kill(g, ds)
    OBVIOUS
  <1>5. h = [g EXCEPT !.bots = bots, !.count = count, !.dead = g.dead \union ds]
    BY <1>2, <1>3, <1>4 DEF Kill
  <1>6. DOMAIN g = {"turn", "bots", "cores", "nodes", "energy", "score", "count", "kills", "dead",
                    "zone", "radius", "dominance", "calm", "lastEnergy", "lastBots"}
    BY <1>1 DEF GameState
  <1>7. h.bots = bots /\ h.count = count /\ h.dead = g.dead \union ds
    BY <1>5, <1>6
  <1>8. BesidesUnits(h) = BesidesUnits(g)
    BY <1>5, <1>6 DEF BesidesUnits
  <1>9. Units(g) = 1 .. Len(g.bots) /\ Len(g.bots) \in Nat /\ Units(g) \subseteq Nat
    BY <1>1, UnitsAreFinite
  <1>10. \A b \in Units(g) : g.bots[b] \in UnitState
    BY <1>1, <1>9 DEF GameState
  <1>11. \A b \in Units(g) : /\ bots[b] \in UnitState
                             /\ bots[b].owner = g.bots[b].owner /\ bots[b].pos = g.bots[b].pos
                             /\ bots[b].alive = (g.bots[b].alive /\ b \notin ds)
    <2>1. SUFFICES ASSUME NEW b \in Units(g)
          PROVE  /\ bots[b] \in UnitState
                 /\ bots[b].owner = g.bots[b].owner /\ bots[b].pos = g.bots[b].pos
                 /\ bots[b].alive = (g.bots[b].alive /\ b \notin ds)
      OBVIOUS
    <2>2. PICK u \in UnitState : u = g.bots[b]
      BY <1>10
    <2>3. bots[b] = IF b \in ds THEN [u EXCEPT !.alive = FALSE] ELSE u
      BY <1>2, <2>2
    <2>4. CASE b \in ds
      BY <2>2, <2>3, <2>4 DEF UnitState
    <2>5. CASE b \notin ds
      BY <2>2, <2>3, <2>5 DEF UnitState
    <2> QED BY <2>4, <2>5
  <1>12. DOMAIN bots = 1 .. Len(g.bots)
    BY <1>2, <1>9
  <1>13. bots \in Seq(UnitState) /\ Units(h) = Units(g)
    <2>1. bots \in [1 .. Len(g.bots) -> UnitState]
      BY <1>2, <1>9, <1>11
    <2>2. bots \in Seq(UnitState)
      BY <1>9, <2>1
    <2> QED BY <2>2, <1>7, <1>9, <1>12 DEF Units
  <1>14. Living(h) = Living(g) \ ds
    BY <1>7, <1>11, <1>13 DEF Living
  <1>15. ASSUME NEW p \in Players
         PROVE  count[p] \in Nat /\ count[p] = Cardinality(LivingOf(h, p))
    <2>1. LivingOf(g, p) = LivingOf(h, p) \union {b \in ds : g.bots[b].owner = p}
      BY <1>7, <1>11, <1>14, <1>1, UnitsAreFinite DEF LivingOf
    <2>2. LivingOf(h, p) \intersect {b \in ds : g.bots[b].owner = p} = {}
      BY <1>14 DEF LivingOf
    <2>3. IsFiniteSet(LivingOf(g, p))
      BY <1>1, UnitsAreFinite
    <2>4. g.count[p] = Cardinality(LivingOf(g, p))
      BY DEF Board
    <2>5. count[p] = g.count[p] - Cardinality({b \in ds : g.bots[b].owner = p})
      BY <1>3
    <2>6. PICK A : A = {b \in ds : g.bots[b].owner = p}
      OBVIOUS
    <2>7. /\ Cardinality(LivingOf(h, p)) \in Nat /\ Cardinality(A) \in Nat
          /\ Cardinality(LivingOf(g, p)) = Cardinality(LivingOf(h, p)) + Cardinality(A)
      <3>1. LivingOf(g, p) = LivingOf(h, p) \union A /\ LivingOf(h, p) \intersect A = {}
        BY <2>1, <2>2, <2>6
      <3> QED BY <3>1, <2>3, CardSplit
    <2> QED BY <2>4, <2>5, <2>6, <2>7
  <1>16. count \in [Players -> Nat]
    BY <1>3, <1>15
  <1>17. g.dead \union ds \subseteq Units(h)
    BY <1>1, <1>13, UnitsAreFinite DEF Board
  <1>18. h \in GameState
    BY <1>1, <1>5, <1>9, <1>13, <1>16, <1>17 DEF GameState
  <1>19. Board(h)
    <2>1. h.cores = g.cores /\ h.turn = g.turn
      BY <1>8 DEF BesidesUnits
    <2> QED BY <2>1, <1>7, <1>15, <1>17, <1>18 DEF Board
  <1> QED BY <1>2, <1>4, <1>7, <1>8, <1>14, <1>19

\* The torus has no edge to step over.
LEMMA MoveWraps ==
  ASSUME NEW pos \in Positions, NEW dir \in Dirs
  PROVE  Move(pos, dir) \in Positions
  <1>1. pos[1] \in Int /\ pos[2] \in Int
    BY GameConstants DEF Positions
  <1>2. ASSUME NEW r \in Int, NEW c \in Int PROVE Wrap(r, c) \in Positions
    <2>1. r % Rows \in 0 .. Rows - 1
      BY GameConstants
    <2>2. c % Cols \in 0 .. Cols - 1
      BY GameConstants
    <2> QED BY <2>1, <2>2 DEF Wrap, Positions
  <1>3. /\ pos[1] - 1 \in Int /\ pos[1] + 1 \in Int
        /\ pos[2] - 1 \in Int /\ pos[2] + 1 \in Int
    BY <1>1
  <1> QED BY <1>1, <1>2, <1>3 DEF Move, Dirs

\* Moving and meeting: units stay off the walls, and nothing but the units, their
\* counts and the dead changes.
LEMMA MovesBoard ==
  ASSUME NEW g, Board(g), NEW moves, \A b \in DOMAIN moves : moves[b] \in Dirs
  PROVE  /\ Board(ExecuteMoves(g, moves))
         /\ BesidesUnits(ExecuteMoves(g, moves)) = BesidesUnits(g)
  <1>1. g \in GameState
    BY DEF Board
  <1>2. PICK dest : dest = Intended(g, moves)
    OBVIOUS
  <1>3. PICK ds : ds = {b \in Living(g) :
                          LET met(x) == {c \in Living(g) : dest[c] = dest[x]}
                          IN met(b) # {b} /\ Owners(g, met(b)) = {g.bots[b].owner}}
    OBVIOUS
  <1>4. PICK moved : moved = [b \in Units(g) |->
                  IF b \in Living(g) \ ds THEN [g.bots[b] EXCEPT !.pos = dest[b]]
                                          ELSE g.bots[b]]
    OBVIOUS
  <1>5. PICK h : h = [g EXCEPT !.bots = moved]
    OBVIOUS
  <1>6. ExecuteMoves(g, moves) = Kill(h, ds)
    BY <1>2, <1>3, <1>4, <1>5 DEF ExecuteMoves
  <1>7. Units(g) = 1 .. Len(g.bots) /\ Len(g.bots) \in Nat /\ Living(g) \in SUBSET Units(g)
    BY <1>1, UnitsAreFinite
  <1>8. \A b \in Units(g) : g.bots[b] \in UnitState
    BY <1>1, <1>7 DEF GameState
  <1>9. ASSUME NEW b \in Living(g) PROVE dest[b] \in Positions \ Walls
    <2>1. g.bots[b].pos \in Positions \ Walls
      BY <1>7, <1>8 DEF UnitState
    <2>2. dest[b] = LET here == g.bots[b].pos  there == Move(here, moves[b])
                    IN IF b \in DOMAIN moves /\ there \notin Walls THEN there ELSE here
      BY <1>2 DEF Intended
    <2>3. b \in DOMAIN moves => Move(g.bots[b].pos, moves[b]) \in Positions
      BY <2>1, MoveWraps
    <2> QED BY <2>1, <2>2, <2>3
  <1>10. \A b \in Units(g) : /\ moved[b] \in UnitState
                             /\ moved[b].owner = g.bots[b].owner
                             /\ moved[b].alive = g.bots[b].alive
    <2>1. SUFFICES ASSUME NEW b \in Units(g)
          PROVE  /\ moved[b] \in UnitState
                 /\ moved[b].owner = g.bots[b].owner /\ moved[b].alive = g.bots[b].alive
      OBVIOUS
    <2>2. PICK u \in UnitState : u = g.bots[b]
      BY <1>8
    <2>3. moved[b] = IF b \in Living(g) \ ds THEN [u EXCEPT !.pos = dest[b]] ELSE u
      BY <1>4, <2>2
    <2>4. CASE b \in Living(g) \ ds
      <3>1. PICK pos \in Positions \ Walls : pos = dest[b]
        BY <1>9, <2>4
      <3>2. moved[b] = [u EXCEPT !.pos = pos]
        BY <2>3, <2>4, <3>1
      <3> QED BY <2>2, <3>1, <3>2 DEF UnitState
    <2>5. CASE b \notin Living(g) \ ds
      BY <2>2, <2>3, <2>5 DEF UnitState
    <2> QED BY <2>4, <2>5
  <1>11. moved \in Seq(UnitState) /\ DOMAIN moved = Units(g)
    <2>1. moved \in [1 .. Len(g.bots) -> UnitState]
      BY <1>4, <1>7, <1>10
    <2>2. moved \in Seq(UnitState)
      BY <1>7, <2>1
    <2> QED BY <2>2, <1>4
  <1>12. DOMAIN g = {"turn", "bots", "cores", "nodes", "energy", "score", "count", "kills", "dead",
                    "zone", "radius", "dominance", "calm", "lastEnergy", "lastBots"}
    BY <1>1 DEF GameState
  <1>13. /\ h.bots = moved
         /\ BesidesUnits(h) = BesidesUnits(g) /\ h.count = g.count /\ h.dead = g.dead
    BY <1>5, <1>12 DEF BesidesUnits
  <1>14. h \in GameState
    BY <1>1, <1>5, <1>11 DEF GameState
  <1>15. Units(h) = Units(g) /\ Living(h) = Living(g) /\ \A p : LivingOf(h, p) = LivingOf(g, p)
    <2>1. Units(h) = Units(g)
      BY <1>11, <1>13 DEF Units
    <2>2. Living(h) = Living(g)
      BY <2>1, <1>10, <1>13 DEF Living
    <2>3. \A b \in Living(g) : h.bots[b].owner = g.bots[b].owner
      BY <1>7, <1>10, <1>13
    <2> QED BY <2>1, <2>2, <2>3 DEF LivingOf
  <1>16. Board(h)
    <2>1. h.dead = g.dead /\ h.cores = g.cores /\ h.turn = g.turn /\ h.count = g.count
      BY <1>13 DEF BesidesUnits
    <2> QED BY <2>1, <1>14, <1>15 DEF Board
  <1>17. ds \in SUBSET Living(h)
    BY <1>3, <1>15
  <1>18. PICK k : k = Kill(h, ds)
    OBVIOUS
  <1>19. /\ Board(k)
         /\ BesidesUnits(k) = BesidesUnits(h)
    BY <1>16, <1>17, <1>18, KillBoard
  <1> QED BY <1>6, <1>13, <1>18, <1>19

\* The ledger of the scores before a result adds its bonus.
ActiveCores(g) == {c \in DOMAIN g.cores : g.cores[c].active}
Ledger(g) ==
  SumFunction(g.score) =
    Len(g.cores) + (Len(g.cores) - Cardinality(ActiveCores(g))) + KillScore * SumFunction(g.kills)

\* What most phases leave alone.
Course(g) == <<g.turn, g.zone, g.radius, g.dominance>>

\* There are finitely many players, numbered from zero.
LEMMA PlayersAreFinite == IsFiniteSet(Players) /\ Cardinality(Players) = NumPlayers /\ Players \subseteq Nat
  <1>1. NumPlayers \in Nat /\ 0 \in Int /\ NumPlayers - 1 \in Int /\ 0 <= NumPlayers - 1
    BY GameConstants
  <1>2. IsFiniteSet(Players)
    BY <1>1, FS_Interval DEF Players
  <1>3. Cardinality(Players) = (NumPlayers - 1) - 0 + 1
    BY <1>1, FS_Interval DEF Players
  <1>4. Players \subseteq Nat
    BY <1>1 DEF Players
  <1> QED BY <1>1, <1>2, <1>3, <1>4

\* Credits are counted, and a credit is worth KillScore.
LEMMA CombatBoard ==
  ASSUME NEW g, Board(g)
  PROVE  /\ Board(ExecuteCombat(g))
         /\ Ledger(g) => Ledger(ExecuteCombat(g))
         /\ Course(ExecuteCombat(g)) = Course(g)
  <1>1. g \in GameState
    BY DEF Board
  <1>2. PICK enemies : enemies = EnemiesInRange(g)
    OBVIOUS
  <1>3. PICK ds : ds = FocusFired(enemies)
    OBVIOUS
  <1>4. PICK credit : credit = [p \in Players |-> Cardinality(
        {de \in ds \X Units(g) : de[2] \in enemies[de[1]] /\ g.bots[de[2]].owner = p})]
    OBVIOUS
  <1>5. PICK k : k = Kill(g, ds)
    OBVIOUS
  <1>6. PICK kills : kills = [p \in Players |-> k.kills[p] + credit[p]]
    OBVIOUS
  <1>7. PICK score : score = [p \in Players |-> k.score[p] + KillScore * credit[p]]
    OBVIOUS
  <1>8. PICK h : h = [k EXCEPT !.kills = kills, !.score = score]
    OBVIOUS
  <1>9. ExecuteCombat(g) = h
    BY <1>2, <1>3, <1>4, <1>5, <1>6, <1>7, <1>8 DEF ExecuteCombat
  <1>10. ds \in SUBSET Living(g)
    BY <1>2, <1>3 DEF FocusFired, EnemiesInRange
  <1>11. Board(k) /\ BesidesUnits(k) = BesidesUnits(g)
    BY <1>5, <1>10, KillBoard
  <1>12. ASSUME NEW p \in Players PROVE credit[p] \in Nat
    <2>1. IsFiniteSet(Units(g)) /\ IsFiniteSet(ds)
      BY <1>1, <1>10, UnitsAreFinite
    <2>2. IsFiniteSet(ds \X Units(g))
      BY <2>1, FS_Product
    <2>3. {de \in ds \X Units(g) : de[2] \in enemies[de[1]] /\ g.bots[de[2]].owner = p} \in SUBSET (ds \X Units(g))
      OBVIOUS
    <2> QED BY <2>2, <2>3, <1>4, FS_Subset, FS_CardinalityType
  <1>13. k.kills \in [Players -> Nat] /\ k.score \in [Players -> Int]
    BY <1>11 DEF Board, GameState
  <1>14. ASSUME NEW p \in Players
         PROVE  /\ kills[p] = k.kills[p] + credit[p] /\ kills[p] \in Nat
                /\ score[p] = k.score[p] + KillScore * credit[p] /\ score[p] \in Int
                /\ k.kills[p] \in Nat /\ k.score[p] \in Int /\ KillScore * credit[p] \in Int
    <2>1. k.kills[p] \in Nat /\ k.score[p] \in Int
      BY <1>13
    <2>2. KillScore * credit[p] \in Int
      BY <1>12, GameConstants
    <2> QED BY <1>6, <1>7, <1>12, <2>1, <2>2
  <1>15. kills \in [Players -> Nat] /\ score \in [Players -> Int]
    BY <1>6, <1>7, <1>14
  <1>16. DOMAIN k = {"turn", "bots", "cores", "nodes", "energy", "score", "count", "kills", "dead",
                    "zone", "radius", "dominance", "calm", "lastEnergy", "lastBots"}
    BY <1>11 DEF Board, GameState
  <1>17. /\ h.kills = kills /\ h.score = score
         /\ h.bots = k.bots /\ h.cores = k.cores /\ h.dead = k.dead /\ h.count = k.count
         /\ h.turn = k.turn /\ h.zone = k.zone /\ h.radius = k.radius /\ h.dominance = k.dominance
    BY <1>8, <1>16
  <1>18. Board(h)
    <2>1. h \in GameState
      BY <1>8, <1>11, <1>15 DEF Board, GameState
    <2>2. Units(h) = Units(k) /\ Living(h) = Living(k) /\ \A p : LivingOf(h, p) = LivingOf(k, p)
      BY <1>17 DEF Units, Living, LivingOf
    <2> QED BY <1>11, <1>17, <2>1, <2>2 DEF Board
  <1>19. ASSUME Ledger(g) PROVE Ledger(h)
    <2>1. PICK bonus : bonus = [p \in Players |-> KillScore * credit[p]]
      OBVIOUS
    <2>2. SumFunction(kills) = SumFunctionOnSet(k.kills, Players) + SumFunctionOnSet(credit, Players)
      <3>1. DOMAIN kills = Players
        BY <1>6
      <3> QED BY <3>1, <1>12, <1>14, PlayersAreFinite, SumAdd DEF SumFunction
    <2>3. SumFunction(score) = SumFunctionOnSet(k.score, Players) + SumFunctionOnSet(bonus, Players)
      <3>1. DOMAIN score = Players
        BY <1>7
      <3>2. \A p \in Players : k.score[p] \in Int /\ bonus[p] \in Int /\ score[p] = k.score[p] + bonus[p]
        BY <2>1, <1>14
      <3> QED BY <3>1, <3>2, PlayersAreFinite, SumAdd DEF SumFunction
    <2>4. SumFunctionOnSet(bonus, Players) = KillScore * SumFunctionOnSet(credit, Players)
      <3>1. \A p \in Players : credit[p] \in Int /\ bonus[p] \in Int /\ bonus[p] = KillScore * credit[p]
        BY <2>1, <1>12, <1>14
      <3>2. KillScore \in Int
        BY GameConstants
      <3> QED BY <3>1, <3>2, PlayersAreFinite, SumScale
    <2>5. k.kills = g.kills /\ k.score = g.score /\ k.cores = g.cores
      BY <1>11 DEF BesidesUnits
    <2>6. SumFunctionOnSet(k.kills, Players) = SumFunction(g.kills) /\ SumFunctionOnSet(k.score, Players) = SumFunction(g.score)
      BY <2>5, <1>13 DEF SumFunction
    <2>7. PICK a, c, n : a = SumFunction(g.kills) /\ c = SumFunctionOnSet(credit, Players)
                         /\ n = Len(g.cores) + (Len(g.cores) - Cardinality(ActiveCores(g)))
      OBVIOUS
    <2>8. a \in Int /\ c \in Int
      <3>1. \A p \in Players : k.kills[p] \in Int
        BY <1>14
      <3>2. \A p \in Players : credit[p] \in Int
        BY <1>12
      <3>3. SumFunctionOnSet(k.kills, Players) \in Int
        BY <3>1, PlayersAreFinite, SumStep
      <3>4. SumFunctionOnSet(credit, Players) \in Int
        BY <3>2, PlayersAreFinite, SumStep
      <3> QED BY <2>6, <2>7, <3>3, <3>4
    <2>9. KillScore * (a + c) = KillScore * a + KillScore * c
      BY <2>8, GameConstants
    <2>10. ActiveCores(h) = ActiveCores(g) /\ h.cores = g.cores
      BY <1>17, <2>5 DEF ActiveCores
    <2>11. SumFunction(g.score) = n + KillScore * a
      BY <1>19, <2>7 DEF Ledger
    <2>12. n \in Int
      <3>1. g.cores \in Seq(CoreState)
        BY <1>1 DEF GameState
      <3>2. ActiveCores(g) \in SUBSET (1 .. Len(g.cores)) /\ Len(g.cores) \in Nat
        BY <3>1 DEF ActiveCores
      <3>3. IsFiniteSet(1 .. Len(g.cores))
        BY <3>2, FS_Interval
      <3>4. Cardinality(ActiveCores(g)) \in Nat
        BY <3>2, <3>3, FS_Subset, FS_CardinalityType
      <3> QED BY <2>7, <3>2, <3>4
    <2>13. SumFunction(score) = n + KillScore * a + KillScore * c
      BY <2>3, <2>4, <2>6, <2>7, <2>11
    <2>14. KillScore * a \in Int /\ KillScore * c \in Int
      BY <2>8, GameConstants
    <2>15. SumFunction(score) = n + KillScore * (a + c)
      BY <2>9, <2>12, <2>13, <2>14
    <2>16. SumFunction(kills) = a + c
      BY <2>2, <2>6, <2>7
    <2> QED BY <2>7, <2>10, <2>15, <2>16, <1>17 DEF Ledger
  <1>20. Course(h) = Course(g)
    BY <1>11, <1>17 DEF Course, BesidesUnits
  <1> QED BY <1>9, <1>18, <1>19, <1>20

\* The larger of two numbers is one of them.
LEMMA MaxOfTwo ==
  ASSUME NEW a \in Int, NEW b \in Int
  PROVE  Max({a, b}) \in {a, b} /\ Max({a, b}) >= a /\ Max({a, b}) >= b
  <1>1. \E x \in {a, b} : \A y \in {a, b} : x >= y
    <2>1. CASE a >= b
      BY <2>1
    <2>2. CASE b >= a
      BY <2>2
    <2> QED BY <2>1, <2>2
  <1>2. PICK m : m = Max({a, b})
    OBVIOUS
  <1>3. m \in {a, b} /\ \A y \in {a, b} : m >= y
    BY <1>1, <1>2 DEF Max
  <1> QED BY <1>2, <1>3

\* The smaller of two numbers is one of them.
LEMMA MinOfTwo ==
  ASSUME NEW a \in Int, NEW b \in Int
  PROVE  Min({a, b}) \in {a, b} /\ Min({a, b}) <= a /\ Min({a, b}) <= b
  <1>1. \E x \in {a, b} : \A y \in {a, b} : x <= y
    <2>1. CASE a <= b
      BY <2>1
    <2>2. CASE b <= a
      BY <2>2
    <2> QED BY <2>1, <2>2
  <1>2. PICK m : m = Min({a, b})
    OBVIOUS
  <1>3. m \in {a, b} /\ \A y \in {a, b} : m <= y
    BY <1>1, <1>2 DEF Min
  <1> QED BY <1>2, <1>3

\* The storm is as wide as it began, or no narrower than its minimum.
RadiusKept(g) == g.zone => g.radius >= ZoneMinRadius \/ g.radius = InitialZoneRadius

\* After the zone phase of an active storm nobody is left outside it.
LEMMA ZoneBoard ==
  ASSUME NEW g, Board(g)
  PROVE  /\ Board(ExecuteZone(g))
         /\ Ledger(g) => Ledger(ExecuteZone(g))
         /\ RadiusKept(g) => RadiusKept(ExecuteZone(g))
         /\ ZoneEnabled /\ ExecuteZone(g).zone => Outside(ExecuteZone(g)) = {}
         /\ <<ExecuteZone(g).turn, ExecuteZone(g).zone, ExecuteZone(g).dominance>> = <<g.turn, g.zone, g.dominance>>
  <1>1. g \in GameState
    BY DEF Board
  <1>2. CASE ~ (ZoneEnabled /\ g.zone)
    BY <1>2 DEF ExecuteZone
  <1>3. CASE ZoneEnabled /\ g.zone
    <2>1. PICK s : s = [g EXCEPT !.radius = ShrunkRadius(g)]
      OBVIOUS
    <2>2. PICK h : h = Kill(s, Outside(s))
      OBVIOUS
    <2>3. ExecuteZone(g) = h
      BY <1>3, <2>1, <2>2 DEF ExecuteZone
    <2>4. ShrunkRadius(g) \in Int /\ (ShrunkRadius(g) >= ZoneMinRadius \/ ShrunkRadius(g) = g.radius)
      <3>1. g.radius \in Int
        BY <1>1 DEF GameState
      <3>2. g.radius - ZoneShrinkStep \in Int /\ ZoneMinRadius \in Int
        BY <3>1, GameConstants
      <3>3. PICK m : m = Max({g.radius - ZoneShrinkStep, ZoneMinRadius})
        OBVIOUS
      <3>4. m \in Int /\ m >= ZoneMinRadius
        BY <3>2, <3>3, MaxOfTwo
      <3>5. ShrunkRadius(g) = m \/ ShrunkRadius(g) = g.radius
        BY <3>3 DEF ShrunkRadius
      <3> QED BY <3>1, <3>4, <3>5
    <2>5. DOMAIN g = {"turn", "bots", "cores", "nodes", "energy", "score", "count", "kills", "dead",
                    "zone", "radius", "dominance", "calm", "lastEnergy", "lastBots"}
      BY <1>1 DEF GameState
    <2>6. /\ s.radius = ShrunkRadius(g)
          /\ s.bots = g.bots /\ s.cores = g.cores /\ s.dead = g.dead /\ s.count = g.count
          /\ s.kills = g.kills /\ s.score = g.score
          /\ s.turn = g.turn /\ s.zone = g.zone /\ s.dominance = g.dominance
      BY <2>1, <2>5
    <2>7. Board(s)
      <3>1. s \in GameState
        BY <1>1, <2>1, <2>4 DEF GameState
      <3>2. Units(s) = Units(g) /\ Living(s) = Living(g) /\ \A p : LivingOf(s, p) = LivingOf(g, p)
        BY <2>6 DEF Units, Living, LivingOf
      <3> QED BY <2>6, <3>1, <3>2 DEF Board
    <2>8. Outside(s) \in SUBSET Living(s)
      BY DEF Outside
    <2>9. /\ Board(h) /\ BesidesUnits(h) = BesidesUnits(s)
          /\ h.bots = [b \in Units(s) |-> IF b \in Outside(s) THEN [s.bots[b] EXCEPT !.alive = FALSE] ELSE s.bots[b]]
          /\ Living(h) = Living(s) \ Outside(s)
      BY <2>2, <2>7, <2>8, KillBoard
    <2>10. /\ h.cores = s.cores /\ h.kills = s.kills /\ h.score = s.score
           /\ h.turn = s.turn /\ h.zone = s.zone /\ h.dominance = s.dominance /\ h.radius = s.radius
      BY <2>9 DEF BesidesUnits
    <2>11. Ledger(g) => Ledger(h)
      BY <2>6, <2>10 DEF Ledger, ActiveCores
    <2>12. RadiusKept(g) => RadiusKept(h)
      BY <2>4, <2>6, <2>10 DEF RadiusKept
    <2>13. Outside(h) = {}
      <3>1. SUFFICES ASSUME NEW b \in Outside(h) PROVE FALSE
        OBVIOUS
      <3>2. b \in Living(s) /\ b \notin Outside(s)
        BY <2>9 DEF Outside
      <3>3. h.bots[b] = s.bots[b]
        BY <2>9, <3>2 DEF Living
      <3>4. Distance2(h.bots[b].pos, ZoneCenter) > h.radius * h.radius
        BY DEF Outside
      <3> QED BY <2>10, <3>2, <3>3, <3>4 DEF Outside
    <2> QED BY <2>3, <2>6, <2>9, <2>10, <2>11, <2>12, <2>13
  <1> QED BY <1>2, <1>3

\* Captures: the razed cores cost their owners a point each and bring their
\* captors two.
LEMMA CapturesBoard ==
  ASSUME NEW g, Board(g)
  PROVE  /\ Board(ExecuteCaptures(g))
         /\ Ledger(g) => Ledger(ExecuteCaptures(g))
         /\ Course(ExecuteCaptures(g)) = Course(g)
         /\ ExecuteCaptures(g).bots = g.bots
  <1>1. g \in GameState
    BY DEF Board
  <1>2. PICK rs : rs = Razed(g)
    OBVIOUS
  <1>3. PICK won : won = [p \in Players |-> Cardinality({c \in rs : Capturer(g, c) = p})]
    OBVIOUS
  <1>4. PICK lost : lost = [p \in Players |-> Cardinality({c \in rs : g.cores[c].owner = p})]
    OBVIOUS
  <1>5. PICK score : score = [p \in Players |-> g.score[p] + 2 * won[p] - lost[p]]
    OBVIOUS
  <1>6. PICK cores : cores = [c \in DOMAIN g.cores |-> IF c \in rs THEN [g.cores[c] EXCEPT !.active = FALSE] ELSE g.cores[c]]
    OBVIOUS
  <1>7. PICK h : h = [g EXCEPT !.cores = cores, !.score = score]
    OBVIOUS
  <1>8. ExecuteCaptures(g) = h
    BY <1>2, <1>3, <1>4, <1>5, <1>6, <1>7 DEF ExecuteCaptures
  <1>9. DOMAIN g = {"turn", "bots", "cores", "nodes", "energy", "score", "count", "kills", "dead",
                    "zone", "radius", "dominance", "calm", "lastEnergy", "lastBots"}
    BY <1>1 DEF GameState
  <1>10. /\ h.cores = cores /\ h.score = score
         /\ h.bots = g.bots /\ h.dead = g.dead /\ h.count = g.count /\ h.kills = g.kills
         /\ h.turn = g.turn /\ h.zone = g.zone /\ h.radius = g.radius /\ h.dominance = g.dominance
    BY <1>7, <1>9
  <1>11. g.cores \in Seq(CoreState) /\ Len(g.cores) \in Nat /\ DOMAIN g.cores = 1 .. Len(g.cores)
    BY <1>1 DEF GameState
  <1>12. \A c \in DOMAIN g.cores : g.cores[c] \in CoreState
    BY <1>11
  <1>13. IsFiniteSet(DOMAIN g.cores)
    BY <1>11, FS_Interval
  <1>14. rs \in SUBSET ActiveCores(g) /\ ActiveCores(g) \in SUBSET (DOMAIN g.cores)
    BY <1>2 DEF Razed, ActiveCores
  <1>15. IsFiniteSet(rs) /\ Cardinality(rs) \in Nat
    BY <1>13, <1>14, FS_Subset, FS_CardinalityType
  <1>16. \A c \in DOMAIN g.cores : /\ cores[c] \in CoreState
                                   /\ cores[c].active = (g.cores[c].active /\ c \notin rs)
                                   /\ cores[c].last = g.cores[c].last
    <2>1. SUFFICES ASSUME NEW c \in DOMAIN g.cores
          PROVE  /\ cores[c] \in CoreState
                 /\ cores[c].active = (g.cores[c].active /\ c \notin rs)
                 /\ cores[c].last = g.cores[c].last
      OBVIOUS
    <2>2. PICK x \in CoreState : x = g.cores[c]
      BY <1>12
    <2>3. cores[c] = IF c \in rs THEN [x EXCEPT !.active = FALSE] ELSE x
      BY <1>6, <2>2
    <2>4. CASE c \in rs
      BY <2>2, <2>3, <2>4 DEF CoreState
    <2>5. CASE c \notin rs
      BY <2>2, <2>3, <2>5 DEF CoreState
    <2> QED BY <2>4, <2>5
  <1>17. cores \in Seq(CoreState) /\ Len(cores) = Len(g.cores) /\ DOMAIN cores = DOMAIN g.cores
    <2>1. cores \in [1 .. Len(g.cores) -> CoreState]
      BY <1>6, <1>11, <1>16
    <2>2. cores \in Seq(CoreState)
      BY <1>11, <2>1
    <2> QED BY <1>11, <2>1, <2>2
  <1>18. ASSUME NEW p \in Players PROVE won[p] \in Nat /\ lost[p] \in Nat
    <2>1. {c \in rs : Capturer(g, c) = p} \in SUBSET rs /\ {c \in rs : g.cores[c].owner = p} \in SUBSET rs
      OBVIOUS
    <2> QED BY <1>3, <1>4, <1>15, <2>1, FS_Subset, FS_CardinalityType
  <1>19. g.score \in [Players -> Int]
    BY <1>1 DEF GameState
  <1>20. ASSUME NEW p \in Players PROVE score[p] \in Int /\ score[p] = g.score[p] + 2 * won[p] - lost[p]
    <2>1. g.score[p] \in Int
      BY <1>19
    <2> QED BY <1>5, <1>18, <2>1
  <1>21. score \in [Players -> Int]
    BY <1>5, <1>20
  <1>22. Board(h)
    <2>1. h \in GameState
      BY <1>1, <1>7, <1>17, <1>21 DEF GameState
    <2>2. Units(h) = Units(g) /\ Living(h) = Living(g) /\ \A p : LivingOf(h, p) = LivingOf(g, p)
      BY <1>10 DEF Units, Living, LivingOf
    <2>3. \A c \in DOMAIN h.cores : h.cores[c].last <= h.turn
      BY <1>10, <1>16, <1>17 DEF Board
    <2> QED BY <1>10, <2>1, <2>2, <2>3 DEF Board
  <1>23. Course(h) = Course(g)
    BY <1>10 DEF Course
  <1>24. ASSUME NEW c \in rs PROVE Capturer(g, c) \in Players /\ g.cores[c].owner \in Players
    <2>1. PICK on : on = LivingAt(g, g.cores[c].pos)
      OBVIOUS
    <2>2. on # {} /\ on \in SUBSET Units(g)
      BY <1>1, <1>2, <2>1, UnitsAreFinite DEF Razed, LivingAt
    <2>3. on \subseteq Nat
      BY <1>1, <2>2, UnitsAreFinite
    <2>4. Min(on) \in on
      BY <2>2, <2>3, LeastNat DEF Min
    <2>5. Min(on) \in 1 .. Len(g.bots) /\ g.bots \in Seq(UnitState)
      BY <1>1, <2>2, <2>4, UnitsAreFinite DEF GameState
    <2>6. g.bots[Min(on)] \in UnitState
      BY <2>5
    <2>7. g.cores[c] \in CoreState
      BY <1>12, <1>14
    <2> QED BY <2>1, <2>6, <2>7 DEF Capturer, UnitState, CoreState
  <1>25. SumFunctionOnSet(won, Players) = Cardinality(rs)
    <2>1. PICK part : part = [p \in Players |-> {c \in rs : Capturer(g, c) = p}]
      OBVIOUS
    <2>2. \A p \in Players : part[p] \in SUBSET rs /\ won[p] = Cardinality(part[p])
      BY <2>1, <1>3
    <2>3. \A c \in rs : \E p \in Players : c \in part[p]
      BY <2>1, <1>24
    <2>4. \A p, q \in Players : p # q => part[p] \intersect part[q] = {}
      BY <2>1
    <2>5. IsFiniteSet(rs) /\ IsFiniteSet(Players)
      BY <1>15, PlayersAreFinite
    <2> QED BY <2>2, <2>3, <2>4, <2>5, SumOfParts
  <1>26. SumFunctionOnSet(lost, Players) = Cardinality(rs)
    <2>1. PICK part : part = [p \in Players |-> {c \in rs : g.cores[c].owner = p}]
      OBVIOUS
    <2>2. \A p \in Players : part[p] \in SUBSET rs /\ lost[p] = Cardinality(part[p])
      BY <2>1, <1>4
    <2>3. \A c \in rs : \E p \in Players : c \in part[p]
      BY <2>1, <1>24
    <2>4. \A p, q \in Players : p # q => part[p] \intersect part[q] = {}
      BY <2>1
    <2>5. IsFiniteSet(rs) /\ IsFiniteSet(Players)
      BY <1>15, PlayersAreFinite
    <2> QED BY <2>2, <2>3, <2>4, <2>5, SumOfParts
  <1>27. SumFunction(score) = SumFunction(g.score) + Cardinality(rs)
    <2>1. PICK twice : twice = [p \in Players |-> 2 * won[p]]
      OBVIOUS
    <2>2. PICK mid : mid = [p \in Players |-> g.score[p] + twice[p]]
      OBVIOUS
    <2>3. ASSUME NEW p \in Players
          PROVE  /\ won[p] \in Int /\ twice[p] \in Int /\ twice[p] = 2 * won[p]
                 /\ g.score[p] \in Int /\ mid[p] = g.score[p] + twice[p]
                 /\ score[p] \in Int /\ lost[p] \in Int /\ mid[p] = score[p] + lost[p]
      <3>1. g.score[p] \in Int
        BY <1>19
      <3>2. PICK w, l, x : w = won[p] /\ l = lost[p] /\ x = g.score[p]
        OBVIOUS
      <3>3. w \in Nat /\ l \in Nat /\ x \in Int /\ score[p] = x + 2 * w - l
        BY <1>18, <1>20, <3>1, <3>2
      <3>4. twice[p] = 2 * w /\ mid[p] = x + twice[p]
        BY <2>1, <2>2, <3>2
      <3>5. twice[p] \in Int /\ score[p] \in Int /\ mid[p] = score[p] + l
        BY <3>3, <3>4
      <3> QED BY <3>2, <3>3, <3>4, <3>5
    <2>4. SumFunctionOnSet(twice, Players) = 2 * SumFunctionOnSet(won, Players)
      <3>1. PICK two \in Int : two = 2
        OBVIOUS
      <3>2. \A p \in Players : won[p] \in Int /\ twice[p] \in Int /\ twice[p] = two * won[p]
        BY <2>3, <3>1
      <3>3. SumFunctionOnSet(twice, Players) = two * SumFunctionOnSet(won, Players)
        BY <3>2, PlayersAreFinite, SumScale
      <3> QED BY <3>1, <3>3
    <2>5. SumFunctionOnSet(mid, Players) = SumFunctionOnSet(g.score, Players) + SumFunctionOnSet(twice, Players)
      BY <2>3, PlayersAreFinite, SumAdd
    <2>6. SumFunctionOnSet(mid, Players) = SumFunctionOnSet(score, Players) + SumFunctionOnSet(lost, Players)
      BY <2>3, PlayersAreFinite, SumAdd
    <2>7. SumFunctionOnSet(g.score, Players) \in Int /\ SumFunctionOnSet(score, Players) \in Int
      BY <2>3, PlayersAreFinite, SumStep
    <2>8. DOMAIN score = Players /\ DOMAIN g.score = Players
      BY <1>5, <1>19
    <2>9. PICK a, b, r : a = SumFunctionOnSet(g.score, Players) /\ b = SumFunctionOnSet(score, Players)
                          /\ r = Cardinality(rs)
      OBVIOUS
    <2>10. a + 2 * r = b + r
      BY <2>4, <2>5, <2>6, <2>9, <1>25, <1>26
    <2>11. b = a + r
      BY <2>7, <2>9, <2>10, <1>15
    <2> QED BY <2>8, <2>9, <2>11 DEF SumFunction
  <1>28. Cardinality(ActiveCores(g)) = Cardinality(ActiveCores(h)) + Cardinality(rs)
         /\ Cardinality(ActiveCores(h)) \in Nat
    <2>1. ActiveCores(g) = ActiveCores(h) \union rs /\ ActiveCores(h) \intersect rs = {}
      BY <1>10, <1>14, <1>16, <1>17 DEF ActiveCores
    <2>2. IsFiniteSet(ActiveCores(g))
      BY <1>13, <1>14, FS_Subset
    <2> QED BY <2>1, <2>2, CardSplit
  <1>29. ASSUME Ledger(g) PROVE Ledger(h)
    <2>1. PICK a, b, r, n, k : /\ a = Cardinality(ActiveCores(g)) /\ b = Cardinality(ActiveCores(h))
                               /\ r = Cardinality(rs) /\ n = Len(g.cores) /\ k = KillScore * SumFunction(g.kills)
      OBVIOUS
    <2>2. a = b + r /\ b \in Nat /\ r \in Nat /\ n \in Nat
      BY <2>1, <1>11, <1>15, <1>28
    <2>3. SumFunction(g.score) = n + (n - a) + k
      BY <1>29, <2>1 DEF Ledger
    <2>4. k \in Int
      <3>1. g.kills \in [Players -> Nat]
        BY <1>1 DEF GameState
      <3>2. DOMAIN g.kills = Players /\ \A p \in Players : g.kills[p] \in Int
        BY <3>1
      <3>3. SumFunctionOnSet(g.kills, Players) \in Int
        BY <3>2, PlayersAreFinite, SumStep
      <3>4. PICK x \in Int : x = SumFunction(g.kills)
        BY <3>2, <3>3 DEF SumFunction
      <3>5. KillScore * x \in Int
        BY GameConstants
      <3> QED BY <2>1, <3>4, <3>5
    <2>5. SumFunction(score) = n + (n - b) + k
      <3>1. SumFunction(score) = (n + (n - a) + k) + r
        BY <2>1, <2>3, <1>27
      <3> QED BY <2>2, <2>4, <3>1
    <2>6. KillScore * SumFunction(h.kills) = k /\ Len(h.cores) = n /\ SumFunction(h.score) = SumFunction(score)
      BY <2>1, <1>10, <1>17
    <2> QED BY <2>1, <2>5, <2>6 DEF Ledger
  <1> QED BY <1>8, <1>10, <1>22, <1>23, <1>29

\* Collection: every node keeps its shape and nobody loses energy.
LEMMA CollectionBoard ==
  ASSUME NEW g, Board(g)
  PROVE  /\ Board(ExecuteCollection(g))
         /\ Ledger(g) => Ledger(ExecuteCollection(g))
         /\ Course(ExecuteCollection(g)) = Course(g)
         /\ ExecuteCollection(g).bots = g.bots
  <1>1. g \in GameState
    BY DEF Board
  <1>2. PICK near : near = [n \in DOMAIN g.nodes |->
                              Owners(g, {b \in Living(g) : Distance2(g.bots[b].pos, g.nodes[n].pos) <= 2})]
    OBVIOUS
  <1>3. PICK emptied : emptied = {n \in DOMAIN g.nodes : g.nodes[n].full /\ near[n] # {}}
    OBVIOUS
  <1>4. PICK nodes : nodes = [n \in DOMAIN g.nodes |->
                     IF n \in emptied THEN [g.nodes[n] EXCEPT !.full = FALSE, !.tick = 0] ELSE g.nodes[n]]
    OBVIOUS
  <1>5. PICK energy : energy = [p \in Players |-> g.energy[p] + Cardinality({n \in emptied : near[n] = {p}})]
    OBVIOUS
  <1>6. PICK h : h = [g EXCEPT !.nodes = nodes, !.energy = energy]
    OBVIOUS
  <1>7. ExecuteCollection(g) = h
    <2> DEFINE at(n) == Owners(g, {b \in Living(g) : Distance2(g.bots[b].pos, g.nodes[n].pos) <= 2})
               es == {n \in DOMAIN g.nodes : g.nodes[n].full /\ at(n) # {}}
    <2>1. \A n \in DOMAIN g.nodes : near[n] = at(n)
      BY <1>2
    <2> HIDE DEF at
    <2>2. es = emptied
      BY <1>3, <2>1
    <2>3. ASSUME NEW p PROVE {n \in es : at(n) = {p}} = {n \in emptied : near[n] = {p}}
      BY <1>3, <2>1, <2>2
    <2>4. energy = [p \in Players |-> g.energy[p] + Cardinality({n \in es : at(n) = {p}})]
      BY <1>5, <2>3
    <2>5. nodes = [n \in DOMAIN g.nodes |->
                     IF n \in es THEN [g.nodes[n] EXCEPT !.full = FALSE, !.tick = 0] ELSE g.nodes[n]]
      BY <1>4, <2>2
    <2>6. ExecuteCollection(g) =
            [g EXCEPT !.nodes = [n \in DOMAIN g.nodes |->
                     IF n \in es THEN [g.nodes[n] EXCEPT !.full = FALSE, !.tick = 0] ELSE g.nodes[n]],
                      !.energy = [p \in Players |-> g.energy[p] + Cardinality({n \in es : at(n) = {p}})]]
      BY DEF ExecuteCollection, at
    <2> QED BY <1>6, <2>4, <2>5, <2>6
  <1>8. g.nodes \in Seq(NodeState) /\ Len(g.nodes) \in Nat /\ DOMAIN g.nodes = 1 .. Len(g.nodes)
    BY <1>1 DEF GameState
  <1>9. nodes \in Seq(NodeState)
    <2>1. ASSUME NEW n \in DOMAIN g.nodes PROVE nodes[n] \in NodeState
      <3>1. PICK x \in NodeState : x = g.nodes[n]
        BY <1>8
      <3>2. nodes[n] = IF n \in emptied THEN [x EXCEPT !.full = FALSE, !.tick = 0] ELSE x
        BY <1>4, <3>1
      <3>3. 0 \in 0 .. EnergyInterval - 1
        BY GameConstants
      <3> QED BY <3>2, <3>3 DEF NodeState
    <2>2. nodes \in [1 .. Len(g.nodes) -> NodeState]
      BY <1>4, <1>8, <2>1
    <2> QED BY <1>8, <2>2
  <1>10. energy \in [Players -> Nat]
    <2>1. ASSUME NEW p \in Players PROVE energy[p] \in Nat
      <3>1. {n \in emptied : near[n] = {p}} \in SUBSET (1 .. Len(g.nodes))
        BY <1>3, <1>8
      <3>2. IsFiniteSet(1 .. Len(g.nodes))
        BY <1>8, FS_Interval
      <3>3. Cardinality({n \in emptied : near[n] = {p}}) \in Nat
        BY <3>1, <3>2, FS_Subset, FS_CardinalityType
      <3>4. g.energy[p] \in Nat
        BY <1>1 DEF GameState
      <3> QED BY <1>5, <3>3, <3>4
    <2> QED BY <1>5, <2>1
  <1>11. DOMAIN g = {"turn", "bots", "cores", "nodes", "energy", "score", "count", "kills", "dead",
                    "zone", "radius", "dominance", "calm", "lastEnergy", "lastBots"}
    BY <1>1 DEF GameState
  <1>12. /\ h.cores = g.cores /\ h.score = g.score
         /\ h.bots = g.bots /\ h.dead = g.dead /\ h.count = g.count /\ h.kills = g.kills
         /\ h.turn = g.turn /\ h.zone = g.zone /\ h.radius = g.radius /\ h.dominance = g.dominance
    BY <1>6, <1>11
  <1>13. Board(h)
    <2>1. h \in GameState
      BY <1>1, <1>6, <1>9, <1>10 DEF GameState
    <2>2. Units(h) = Units(g) /\ Living(h) = Living(g) /\ \A p : LivingOf(h, p) = LivingOf(g, p)
      BY <1>12 DEF Units, Living, LivingOf
    <2> QED BY <1>12, <2>1, <2>2 DEF Board
  <1>14. Ledger(g) => Ledger(h)
    BY <1>12 DEF Ledger, ActiveCores
  <1>15. Course(h) = Course(g)
    BY <1>12 DEF Course
  <1> QED BY <1>7, <1>12, <1>13, <1>14, <1>15

\* An empty node counts up and is full again before EnergyInterval.
LEMMA EnergyTickBoard ==
  ASSUME NEW g, Board(g)
  PROVE  /\ Board(ExecuteEnergyTick(g))
         /\ Ledger(g) => Ledger(ExecuteEnergyTick(g))
         /\ Course(ExecuteEnergyTick(g)) = Course(g)
         /\ ExecuteEnergyTick(g).bots = g.bots /\ ExecuteEnergyTick(g).cores = g.cores
  <1>1. g \in GameState
    BY DEF Board
  <1> DEFINE tick(n) ==
        IF n.full THEN n
        ELSE IF n.tick + 1 >= EnergyInterval THEN [n EXCEPT !.full = TRUE, !.tick = 0]
        ELSE [n EXCEPT !.tick = n.tick + 1]
  <1>2. PICK nodes : nodes = [n \in DOMAIN g.nodes |-> tick(g.nodes[n])]
    OBVIOUS
  <1>3. PICK h : h = [g EXCEPT !.nodes = nodes]
    OBVIOUS
  <1>4. ExecuteEnergyTick(g) = h
    BY <1>2, <1>3 DEF ExecuteEnergyTick
  <1>5. g.nodes \in Seq(NodeState) /\ Len(g.nodes) \in Nat /\ DOMAIN g.nodes = 1 .. Len(g.nodes)
    BY <1>1 DEF GameState
  <1>6. nodes \in Seq(NodeState)
    <2>1. ASSUME NEW n \in DOMAIN g.nodes PROVE nodes[n] \in NodeState
      <3>1. PICK x \in NodeState : x = g.nodes[n]
        BY <1>5
      <3>2. PICK t : t = x.tick
        OBVIOUS
      <3>3. t \in 0 .. EnergyInterval - 1 /\ EnergyInterval \in Nat /\ 0 \in 0 .. EnergyInterval - 1
        BY <3>2, GameConstants DEF NodeState
      <3>4. t + 1 >= EnergyInterval \/ t + 1 \in 0 .. EnergyInterval - 1
        BY <3>3
      <3>5. nodes[n] = IF x.full THEN x
                       ELSE IF t + 1 >= EnergyInterval THEN [x EXCEPT !.full = TRUE, !.tick = 0]
                       ELSE [x EXCEPT !.tick = t + 1]
        BY <1>2, <3>1, <3>2
      <3>6. PICK u : u = t + 1
        OBVIOUS
      <3>7. CASE x.full
        BY <3>5, <3>7
      <3>8. CASE ~ x.full /\ u >= EnergyInterval
        <4>1. nodes[n] = [x EXCEPT !.full = TRUE, !.tick = 0]
          BY <3>5, <3>6, <3>8
        <4> QED BY <3>3, <4>1 DEF NodeState
      <3>9. CASE ~ x.full /\ ~ (u >= EnergyInterval)
        <4>1. nodes[n] = [x EXCEPT !.tick = u]
          BY <3>5, <3>6, <3>9
        <4>2. u \in 0 .. EnergyInterval - 1
          BY <3>4, <3>6, <3>9
        <4> QED BY <4>1, <4>2 DEF NodeState
      <3> QED BY <3>7, <3>8, <3>9
    <2>2. nodes \in [1 .. Len(g.nodes) -> NodeState]
      BY <1>2, <1>5, <2>1
    <2> QED BY <1>5, <2>2
  <1>7. DOMAIN g = {"turn", "bots", "cores", "nodes", "energy", "score", "count", "kills", "dead",
                    "zone", "radius", "dominance", "calm", "lastEnergy", "lastBots"}
    BY <1>1 DEF GameState
  <1>8. /\ h.cores = g.cores /\ h.score = g.score
         /\ h.bots = g.bots /\ h.dead = g.dead /\ h.count = g.count /\ h.kills = g.kills
         /\ h.turn = g.turn /\ h.zone = g.zone /\ h.radius = g.radius /\ h.dominance = g.dominance
    BY <1>3, <1>7
  <1>9. Board(h)
    <2>1. h \in GameState
      BY <1>1, <1>3, <1>6 DEF GameState
    <2>2. Units(h) = Units(g) /\ Living(h) = Living(g) /\ \A p : LivingOf(h, p) = LivingOf(g, p)
      BY <1>8 DEF Units, Living, LivingOf
    <2> QED BY <1>8, <2>1, <2>2 DEF Board
  <1>10. Ledger(g) => Ledger(h)
    BY <1>8 DEF Ledger, ActiveCores
  <1>11. Course(h) = Course(g)
    BY <1>8 DEF Course
  <1> QED BY <1>4, <1>8, <1>9, <1>10, <1>11

\* Of some cores one was idle for longest, and is the first of those.
LEMMA IdleLongest ==
  ASSUME NEW g \in GameState, NEW cs \in SUBSET DOMAIN g.cores, cs # {}
  PROVE  \E c \in cs : \A d \in cs \ {c} : \/ g.cores[c].last < g.cores[d].last
                                           \/ g.cores[c].last = g.cores[d].last /\ c < d
  <1>1. g.cores \in Seq(CoreState) /\ DOMAIN g.cores = 1 .. Len(g.cores) /\ Len(g.cores) \in Nat
    BY DEF GameState
  <1>2. \A c \in cs : g.cores[c].last \in Nat /\ c \in Nat
    <2>1. ASSUME NEW c \in cs PROVE g.cores[c].last \in Nat /\ c \in Nat
      <3>1. PICK x \in CoreState : x = g.cores[c]
        BY <1>1
      <3>2. c \in 1 .. Len(g.cores)
        BY <1>1
      <3> QED BY <1>1, <3>1, <3>2 DEF CoreState
    <2> QED BY <2>1
  <1>3. PICK lasts : lasts = {g.cores[c].last : c \in cs}
    OBVIOUS
  <1>4. lasts \subseteq Nat /\ lasts # {}
    BY <1>2, <1>3
  <1>5. PICK l \in lasts : \A m \in lasts : l <= m
    BY <1>4, LeastNat
  <1>6. PICK idle : idle = {c \in cs : g.cores[c].last = l}
    OBVIOUS
  <1>7. idle \subseteq Nat /\ idle # {}
    BY <1>2, <1>3, <1>6
  <1>8. PICK c \in idle : \A d \in idle : c <= d
    BY <1>7, LeastNat
  <1>9. c \in cs /\ g.cores[c].last = l
    BY <1>6
  <1>10. ASSUME NEW d \in cs \ {c}
         PROVE  \/ g.cores[c].last < g.cores[d].last
                \/ g.cores[c].last = g.cores[d].last /\ c < d
    <2>1. PICK m : m = g.cores[d].last
      OBVIOUS
    <2>2. l <= m /\ m \in Nat /\ l \in Nat /\ c \in Nat /\ d \in Nat
      BY <1>2, <1>3, <1>4, <1>5, <1>9, <2>1
    <2>3. m = l => c <= d
      BY <1>6, <1>8, <2>1
    <2> QED BY <1>9, <2>1, <2>2, <2>3
  <1> QED BY <1>9, <1>10

\* As many cores as there are can be put in that order.
LEMMA PriorityType ==
  ASSUME NEW g \in GameState, NEW cs \in SUBSET DOMAIN g.cores,
         NEW n \in Nat, n <= Cardinality(cs)
  PROVE  ByPriority(g, cs, n) \in [1 .. n -> cs]
  <1> DEFINE before(c, d) == \/ g.cores[c].last < g.cores[d].last
                             \/ g.cores[c].last = g.cores[d].last /\ c < d
             Ok(s, k) == LET left == cs \ {s[j] : j \in 1 .. k - 1} IN
                         s[k] \in left /\ \A d \in left \ {s[k]} : before(s[k], d)
             Sorted(s, m) == s \in [1 .. m -> cs] /\ \A k \in 1 .. m : Ok(s, k)
             Bad == {m \in Nat : m <= n /\ ~ \E s : Sorted(s, m)}
  <1>1. IsFiniteSet(cs) /\ Cardinality(cs) \in Nat
    <2>1. g.cores \in Seq(CoreState) /\ DOMAIN g.cores = 1 .. Len(g.cores) /\ Len(g.cores) \in Nat
      BY DEF GameState
    <2>2. IsFiniteSet(DOMAIN g.cores)
      BY <2>1, FS_Interval
    <2> QED BY <2>2, FS_Subset, FS_CardinalityType
  <1>2. ASSUME NEW m \in Bad, \A k \in Bad : m <= k PROVE FALSE
    <2>1. CASE m = 0
      <3>1. Sorted([k \in 1 .. 0 |-> 0], 0)
        <4>1. 1 .. 0 = {}
          OBVIOUS
        <4> QED BY <4>1
      <3> QED BY <2>1, <3>1
    <2>2. CASE m # 0
      <3>1. m \in Nat /\ m - 1 \in Nat /\ m <= n
        BY <2>2
      <3>2. m - 1 \notin Bad
        <4> HIDE DEF Bad
        <4>1. ~ (m <= m - 1)
          BY <3>1
        <4> QED BY <1>2, <4>1
      <3>3. PICK s : Sorted(s, m - 1)
        BY <3>1, <3>2
      <3>4. PICK taken : taken = {s[j] : j \in 1 .. m - 1}
        OBVIOUS
      <3>5. PICK c \in cs \ taken : \A d \in (cs \ taken) \ {c} : before(c, d)
        <4>1. cs \ taken # {}
          <5>1. IsFiniteSet(1 .. m - 1) /\ Cardinality(1 .. m - 1) = m - 1
            BY <3>1, FS_Interval
          <5>2. s \in [1 .. m - 1 -> cs]
            BY <3>3
          <5>3. s \in Surjection(1 .. m - 1, taken)
            BY <5>2, <3>4 DEF Surjection
          <5>4. Cardinality(taken) <= m - 1
            BY <5>1, <5>3, FS_Surjection
          <5>5. taken \in SUBSET cs
            BY <5>2, <3>4
          <5>6. cs = taken => FALSE
            BY <5>4, <3>1, <1>1
          <5> QED BY <5>5, <5>6
        <4> QED BY <4>1, IdleLongest
      <3>6. PICK t : t = [k \in 1 .. m |-> IF k < m THEN s[k] ELSE c]
        OBVIOUS
      <3>7. t \in [1 .. m -> cs]
        BY <3>1, <3>3, <3>6
      <3>8. ASSUME NEW k \in 1 .. m PROVE {t[j] : j \in 1 .. k - 1} = {s[j] : j \in 1 .. k - 1}
        <4>1. \A j \in 1 .. k - 1 : t[j] = s[j]
          BY <3>1, <3>6
        <4> QED BY <4>1
      <3>9. ASSUME NEW k \in 1 .. m PROVE Ok(t, k)
        <4> HIDE DEF before
        <4>1. CASE k < m
          <5>1. Ok(s, k) /\ t[k] = s[k]
            BY <3>1, <3>3, <3>6, <4>1
          <5> QED BY <3>8, <5>1
        <4>2. CASE k = m
          <5>1. t[k] = c /\ {t[j] : j \in 1 .. k - 1} = taken
            BY <3>1, <3>4, <3>6, <3>8, <4>2
          <5> QED BY <3>5, <5>1
        <4> QED BY <4>1, <4>2, <3>1
      <3>10. Sorted(t, m)
        <4> HIDE DEF Ok
        <4> QED BY <3>7, <3>9
      <3> QED BY <3>10
    <2> QED BY <2>1, <2>2
  <1>3. Bad = {}
    <2>1. Bad \subseteq Nat
      OBVIOUS
    <2> HIDE DEF Bad
    <2> QED BY <1>2, <2>1, LeastNat
  <1>4. \E s : Sorted(s, n)
    <2>1. n \notin Bad /\ n <= n
      BY <1>3
    <2> HIDE DEF Sorted
    <2> QED BY <2>1
  <1>5. \E s \in [1 .. n -> cs] : \A k \in 1 .. n : Ok(s, k)
    BY <1>4
  <1>6. ByPriority(g, cs, n) = CHOOSE s \in [1 .. n -> cs] : \A k \in 1 .. n : Ok(s, k)
    BY DEF ByPriority
  <1> HIDE DEF Ok
  <1> QED BY <1>5, <1>6

\* A unit outside the storm stands on a core of its owner that spawned this turn.
Sheltered(g) ==
  \A b \in Outside(g) :
    \E c \in DOMAIN g.cores :
      /\ g.cores[c].pos = g.bots[b].pos /\ g.cores[c].owner = g.bots[b].owner
      /\ g.cores[c].last = g.turn

\* One player's spawns are counted and paid for, and happen on cores that say so.
LEMMA SpawnsOfBoard ==
  ASSUME NEW g, Board(g), NEW p \in Players
  PROVE  /\ Board(SpawnsOf(g, p))
         /\ Ledger(g) => Ledger(SpawnsOf(g, p))
         /\ Course(SpawnsOf(g, p)) = Course(g)
         /\ Sheltered(g) => Sheltered(SpawnsOf(g, p))
  <1>1. g \in GameState
    BY DEF Board
  <1>2. PICK cs : cs = Eligible(g, p)
    OBVIOUS
  <1>3. PICK n : n = Min({Cardinality(cs), g.energy[p] \div SpawnCost})
    OBVIOUS
  <1>4. PICK s : s = ByPriority(g, cs, n)
    OBVIOUS
  <1>5. PICK fresh : fresh = [k \in 1 .. n |-> [owner |-> p, pos |-> g.cores[s[k]].pos, alive |-> TRUE]]
    OBVIOUS
  <1>6. PICK bots : bots = g.bots \o fresh
    OBVIOUS
  <1>7. PICK count : count = [g.count EXCEPT ![p] = @ + n]
    OBVIOUS
  <1>8. PICK energy : energy = [g.energy EXCEPT ![p] = @ - n * SpawnCost]
    OBVIOUS
  <1>9. PICK cores : cores = [c \in DOMAIN g.cores |-> IF \E k \in 1 .. n : s[k] = c
                                      THEN [g.cores[c] EXCEPT !.last = g.turn] ELSE g.cores[c]]
    OBVIOUS
  <1>10. PICK h : h = [g EXCEPT !.bots = bots, !.count = count, !.energy = energy, !.cores = cores]
    OBVIOUS
  <1>11. SpawnsOf(g, p) = h
    BY <1>2, <1>3, <1>4, <1>5, <1>6, <1>7, <1>8, <1>9, <1>10 DEF SpawnsOf, SpawnBot
  <1>12. /\ g.cores \in Seq(CoreState) /\ Len(g.cores) \in Nat /\ DOMAIN g.cores = 1 .. Len(g.cores)
         /\ g.bots \in Seq(UnitState) /\ Len(g.bots) \in Nat /\ Units(g) = 1 .. Len(g.bots)
         /\ g.turn \in Nat /\ g.energy \in [Players -> Nat] /\ g.count \in [Players -> Nat]
    <2>1. g.cores \in Seq(CoreState) /\ g.bots \in Seq(UnitState)
      BY <1>1 DEF GameState
    <2>2. g.turn \in Nat /\ g.energy \in [Players -> Nat] /\ g.count \in [Players -> Nat]
      BY <1>1 DEF GameState
    <2>3. Units(g) = 1 .. Len(g.bots)
      BY <1>1, UnitsAreFinite
    <2> QED BY <2>1, <2>2, <2>3
  <1>13. cs \in SUBSET DOMAIN g.cores /\ IsFiniteSet(cs) /\ Cardinality(cs) \in Nat
    <2>1. cs \in SUBSET DOMAIN g.cores
      BY <1>2 DEF Eligible
    <2>2. PICK l \in Nat : DOMAIN g.cores = 1 .. l
      BY <1>12
    <2>3. IsFiniteSet(1 .. l)
      BY <2>2, FS_Interval
    <2> QED BY <2>1, <2>2, <2>3, FS_Subset, FS_CardinalityType
  <1>14. n \in Nat /\ n <= Cardinality(cs) /\ g.energy[p] - n * SpawnCost \in Nat
    <2>1. PICK e \in Nat : e = g.energy[p]
      BY <1>12
    <2>2. PICK d : d = e \div SpawnCost
      OBVIOUS
    <2>3. d \in Nat /\ d * SpawnCost <= e
      BY <2>2, GameConstants
    <2>4. n \in {Cardinality(cs), d} /\ n <= Cardinality(cs) /\ n <= d
      BY <1>3, <1>13, <2>1, <2>2, <2>3, MinOfTwo
    <2>5. n \in Nat
      BY <1>13, <2>3, <2>4
    <2>6. n * SpawnCost <= d * SpawnCost /\ n * SpawnCost \in Nat /\ d * SpawnCost \in Nat
      BY <2>3, <2>4, <2>5, GameConstants
    <2> QED BY <2>1, <2>3, <2>4, <2>5, <2>6
  <1>15. s \in [1 .. n -> cs]
    BY <1>1, <1>4, <1>13, <1>14, PriorityType
  <1>16. ASSUME NEW k \in 1 .. n
         PROVE  /\ s[k] \in DOMAIN g.cores /\ g.cores[s[k]].owner = p
                /\ g.cores[s[k]].pos \in Positions \ Walls
    <2>1. s[k] \in cs
      BY <1>15
    <2>2. s[k] \in DOMAIN g.cores /\ g.cores[s[k]].owner = p
      BY <1>2, <2>1 DEF Eligible
    <2>3. PICK x \in CoreState : x = g.cores[s[k]]
      BY <1>12, <2>2
    <2> QED BY <2>2, <2>3 DEF CoreState
  <1>17. fresh \in Seq(UnitState) /\ Len(fresh) = n
    <2>1. \A k \in 1 .. n : fresh[k] \in UnitState
      BY <1>5, <1>16 DEF UnitState
    <2>2. fresh \in [1 .. n -> UnitState]
      BY <1>5, <2>1
    <2> QED BY <1>14, <2>2
  <1>18. /\ bots \in Seq(UnitState) /\ Len(bots) = Len(g.bots) + n /\ DOMAIN bots = 1 .. Len(g.bots) + n
         /\ \A b \in 1 .. Len(g.bots) : bots[b] = g.bots[b]
         /\ \A k \in 1 .. n : bots[Len(g.bots) + k] = fresh[k]
    <2>1. bots \in Seq(UnitState) /\ Len(bots) = Len(g.bots) + n
      BY <1>6, <1>12, <1>14, <1>17, ConcatProperties
    <2>2. \A b \in 1 .. Len(g.bots) : bots[b] = g.bots[b]
      BY <1>6, <1>12, <1>14, <1>17, ConcatProperties
    <2>3. ASSUME NEW k \in 1 .. n PROVE bots[Len(g.bots) + k] = fresh[k]
      <3>1. Len(g.bots) + k \in 1 .. Len(g.bots) + n /\ Len(g.bots) + k > Len(g.bots)
            /\ (Len(g.bots) + k) - Len(g.bots) = k
        BY <1>12, <1>14
      <3> QED BY <1>6, <1>12, <1>14, <1>17, <3>1, ConcatProperties
    <2> QED BY <2>1, <2>2, <2>3
  <1>19. \A b \in DOMAIN bots : b \in Units(g) \/ \E k \in 1 .. n : b = Len(g.bots) + k
    <2>1. ASSUME NEW b \in DOMAIN bots, b \notin Units(g) PROVE b - Len(g.bots) \in 1 .. n
      BY <1>12, <1>14, <1>18, <2>1
    <2>2. \A b \in DOMAIN bots : b = Len(g.bots) + (b - Len(g.bots))
      BY <1>12, <1>18
    <2> QED BY <2>1, <2>2
  <1>20. DOMAIN g = {"turn", "bots", "cores", "nodes", "energy", "score", "count", "kills", "dead",
                    "zone", "radius", "dominance", "calm", "lastEnergy", "lastBots"}
    BY <1>1 DEF GameState
  <1>21. /\ h.bots = bots /\ h.count = count /\ h.energy = energy /\ h.cores = cores
         /\ h.dead = g.dead /\ h.kills = g.kills /\ h.score = g.score
         /\ h.turn = g.turn /\ h.zone = g.zone /\ h.radius = g.radius /\ h.dominance = g.dominance
    BY <1>10, <1>20
  <1>22. ASSUME NEW c \in DOMAIN g.cores
         PROVE  /\ cores[c] \in CoreState /\ cores[c].pos = g.cores[c].pos /\ cores[c].owner = g.cores[c].owner
                /\ cores[c].active = g.cores[c].active
                /\ cores[c].last = IF \E k \in 1 .. n : s[k] = c THEN g.turn ELSE g.cores[c].last
    <2>1. PICK x \in CoreState : x = g.cores[c]
      BY <1>12
    <2>2. CASE \E k \in 1 .. n : s[k] = c
      <3>1. cores[c] = [x EXCEPT !.last = g.turn]
        BY <1>9, <2>1, <2>2
      <3> QED BY <1>12, <2>1, <2>2, <3>1 DEF CoreState
    <2>3. CASE ~ \E k \in 1 .. n : s[k] = c
      <3>1. cores[c] = x
        BY <1>9, <2>1, <2>3
      <3> QED BY <2>1, <2>3, <3>1 DEF CoreState
    <2> QED BY <2>2, <2>3
  <1>23. cores \in Seq(CoreState) /\ Len(cores) = Len(g.cores) /\ DOMAIN cores = DOMAIN g.cores
    <2>1. cores \in [1 .. Len(g.cores) -> CoreState]
      <3>1. \A c \in 1 .. Len(g.cores) : cores[c] \in CoreState
        BY <1>12, <1>22
      <3>2. DOMAIN cores = 1 .. Len(g.cores) /\ cores = [c \in DOMAIN cores |-> cores[c]]
        BY <1>9, <1>12
      <3> QED BY <3>1, <3>2
    <2>2. cores \in Seq(CoreState)
      <3>1. PICK m \in Nat : m = Len(g.cores)
        BY <1>12
      <3> QED BY <2>1, <3>1
    <2> QED BY <1>12, <2>1, <2>2
  <1>24. energy \in [Players -> Nat] /\ count \in [Players -> Nat]
    BY <1>7, <1>8, <1>12, <1>14
  <1>25. h \in GameState
    BY <1>1, <1>10, <1>18, <1>23, <1>24 DEF GameState
  <1>26. Units(h) = 1 .. Len(g.bots) + n /\ Units(g) \subseteq Units(h)
    BY <1>12, <1>14, <1>18, <1>21 DEF Units
  <1>27. ASSUME NEW q \in Players PROVE h.count[q] = Cardinality(LivingOf(h, q))
    <2>1. g.count[q] = Cardinality(LivingOf(g, q)) /\ g.count[q] \in Nat
      BY <1>12 DEF Board
    <2>2. \A b \in Units(g) : h.bots[b] = g.bots[b]
      BY <1>12, <1>18, <1>21
    <2>3. \A b \in Units(h) : b \in Units(g) \/ (h.bots[b].owner = p /\ h.bots[b].alive)
      <3>1. ASSUME NEW b \in Units(h), b \notin Units(g) PROVE h.bots[b].owner = p /\ h.bots[b].alive
        <4>1. PICK k \in 1 .. n : b = Len(g.bots) + k
          BY <1>18, <1>19, <1>26, <3>1
        <4>2. h.bots[b] = fresh[k]
          BY <1>18, <1>21, <4>1
        <4> QED BY <1>5, <4>2
      <3> QED BY <3>1
    <2>4. CASE q # p
      <3>1. LivingOf(h, q) = LivingOf(g, q)
        BY <1>26, <2>2, <2>3, <2>4 DEF LivingOf, Living
      <3> QED BY <1>7, <1>12, <1>21, <2>1, <2>4, <3>1
    <2>5. CASE q = p
      <3>1. PICK new : new = (Len(g.bots) + 1) .. (Len(g.bots) + n)
        OBVIOUS
      <3>2. \A b : b \in new <=> b \in Units(h) /\ b \notin Units(g)
        BY <1>12, <1>14, <1>26, <3>1
      <3>3. LivingOf(h, p) = LivingOf(g, p) \union new
        BY <1>26, <2>2, <2>3, <3>2 DEF LivingOf, Living
      <3>4. LivingOf(g, p) \intersect new = {}
        BY <3>2 DEF LivingOf, Living
      <3>5. Cardinality(new) = n
        <4>1. Len(g.bots) + 1 \in Int /\ Len(g.bots) + n \in Int
          BY <1>12, <1>14
        <4>2. PICK a, b : a = Len(g.bots) + 1 /\ b = Len(g.bots) + n
          OBVIOUS
        <4>3. Cardinality(a .. b) = IF a > b THEN 0 ELSE b - a + 1
          BY <4>1, <4>2, FS_Interval
        <4>4. (IF a > b THEN 0 ELSE b - a + 1) = n
          <5>1. PICK l \in Nat : l = Len(g.bots)
            BY <1>12
          <5>2. a = l + 1 /\ b = l + n /\ n \in Nat
            BY <1>14, <4>2, <5>1
          <5> QED BY <5>2
        <4> QED BY <3>1, <4>2, <4>3, <4>4
      <3>6. IsFiniteSet(LivingOf(h, p))
        BY <1>25, UnitsAreFinite
      <3>7. Cardinality(LivingOf(h, p)) = Cardinality(LivingOf(g, p)) + n
        BY <3>3, <3>4, <3>5, <3>6, CardSplit
      <3> QED BY <1>7, <1>12, <1>21, <2>1, <2>5, <3>7
    <2> QED BY <2>4, <2>5
  <1>28. Board(h)
    <2>1. h.dead \subseteq Units(h)
      BY <1>21, <1>26 DEF Board
    <2>2. ASSUME NEW c \in DOMAIN h.cores PROVE h.cores[c].last <= h.turn
      <3>1. c \in DOMAIN g.cores /\ g.cores[c].last <= g.turn
        BY <1>21, <1>23, <2>2 DEF Board
      <3>2. cores[c].last = g.turn \/ cores[c].last = g.cores[c].last
        BY <1>22, <3>1
      <3> QED BY <1>12, <1>21, <3>1, <3>2
    <2> QED BY <1>25, <1>27, <2>1, <2>2 DEF Board
  <1>29. ActiveCores(h) = ActiveCores(g)
    BY <1>21, <1>22, <1>23 DEF ActiveCores
  <1>30. Ledger(g) => Ledger(h)
    BY <1>21, <1>23, <1>29 DEF Ledger
  <1>31. Course(h) = Course(g)
    BY <1>21 DEF Course
  <1>32. ASSUME Sheltered(g), NEW b \in Outside(h)
         PROVE  \E c \in DOMAIN h.cores :
                  /\ h.cores[c].pos = h.bots[b].pos /\ h.cores[c].owner = h.bots[b].owner
                  /\ h.cores[c].last = h.turn
    <2>1. b \in Units(h) /\ b \in Living(h) /\ Distance2(h.bots[b].pos, ZoneCenter) > h.radius * h.radius
      BY DEF Outside, Living
    <2>2. CASE b \in Units(g)
      <3>1. h.bots[b] = g.bots[b]
        BY <1>12, <1>18, <1>21, <2>2
      <3>2. b \in Outside(g)
        BY <1>21, <2>1, <2>2, <3>1 DEF Outside, Living
      <3>3. PICK c \in DOMAIN g.cores : /\ g.cores[c].pos = g.bots[b].pos /\ g.cores[c].owner = g.bots[b].owner
                                        /\ g.cores[c].last = g.turn
        BY <1>32, <3>2 DEF Sheltered
      <3> QED BY <1>21, <1>22, <1>23, <3>1, <3>3
    <2>3. CASE b \notin Units(g)
      <3>1. PICK k \in 1 .. n : b = Len(g.bots) + k
        BY <1>18, <1>19, <1>26, <2>1, <2>3
      <3>2. h.bots[b] = fresh[k]
        BY <1>18, <1>21, <3>1
      <3>3. h.bots[b].pos = g.cores[s[k]].pos /\ h.bots[b].owner = p
        BY <1>5, <3>2
      <3>4. s[k] \in DOMAIN g.cores /\ g.cores[s[k]].owner = p
        BY <1>16
      <3>5. cores[s[k]].last = g.turn /\ cores[s[k]].pos = g.cores[s[k]].pos /\ cores[s[k]].owner = p
        BY <1>22, <3>4
      <3> QED BY <1>21, <1>23, <3>3, <3>4, <3>5
    <2> QED BY <2>2, <2>3
  <1>33. Sheltered(g) => Sheltered(h)
    BY <1>32 DEF Sheltered
  <1> QED BY <1>11, <1>28, <1>30, <1>31, <1>33

\* The players spawn one after the other, and each finds a sound board.
LEMMA SpawnsBoard ==
  ASSUME NEW g, Board(g)
  PROVE  /\ Board(ExecuteSpawns(g))
         /\ Ledger(g) => Ledger(ExecuteSpawns(g))
         /\ Course(ExecuteSpawns(g)) = Course(g)
         /\ Sheltered(g) => Sheltered(ExecuteSpawns(g))
  <1> DEFINE step(f, i) == IF i = 0 THEN g ELSE SpawnsOf(f[i - 1], i - 1)
             Sol(f, n) == f = [i \in 0 .. n |-> step(f, i)]
             Bad == {n \in Nat : ~ \E f : Sol(f, n)}
  <1>1. ASSUME NEW n \in Bad, \A m \in Bad : n <= m PROVE FALSE
    <2>1. CASE n = 0
      <3>1. Sol([i \in 0 .. 0 |-> g], 0)
        <4>1. \A i \in 0 .. 0 : i = 0
          OBVIOUS
        <4> QED BY <4>1
      <3> QED BY <2>1, <3>1
    <2>2. CASE n # 0
      <3>1. n \in Nat /\ n - 1 \in Nat
        BY <2>2
      <3>2. n - 1 \notin Bad
        <4> HIDE DEF Bad
        <4>1. ~ (n <= n - 1)
          BY <3>1
        <4> QED BY <1>1, <4>1
      <3>3. PICK f : Sol(f, n - 1)
        BY <3>1, <3>2
      <3>4. PICK h : h = [i \in 0 .. n |-> IF i < n THEN f[i] ELSE SpawnsOf(f[n - 1], n - 1)]
        OBVIOUS
      <3>5. ASSUME NEW i \in 0 .. n PROVE h[i] = step(h, i)
        <4>1. CASE i < n
          <5>1. i \in 0 .. n - 1
            BY <3>1, <4>1
          <5>2. h[i] = f[i] /\ f[i] = step(f, i)
            BY <3>3, <3>4, <4>1, <5>1
          <5>3. i # 0 => h[i - 1] = f[i - 1]
            <6>1. i # 0 => i - 1 \in 0 .. n /\ i - 1 < n
              BY <3>1, <4>1
            <6> QED BY <3>4, <6>1
          <5> QED BY <5>2, <5>3
        <4>2. CASE i = n
          <5>1. h[n] = SpawnsOf(f[n - 1], n - 1)
            BY <3>1, <3>4
          <5>2. h[n - 1] = f[n - 1]
            BY <3>1, <3>4
          <5> QED BY <2>2, <4>2, <5>1, <5>2
        <4> QED BY <3>1, <4>1, <4>2
      <3>6. Sol(h, n)
        <4>1. h = [i \in 0 .. n |-> h[i]]
          BY <3>4
        <4> HIDE DEF step
        <4> QED BY <3>5, <4>1
      <3> QED BY <3>6
    <2> QED BY <2>1, <2>2
  <1>2. PICK after : after = CHOOSE f : Sol(f, NumPlayers)
    OBVIOUS
  <1>3. Sol(after, NumPlayers)
    <2>1. Bad \subseteq Nat
      OBVIOUS
    <2>2. Bad = {}
      <3> HIDE DEF Bad
      <3> QED BY <1>1, <2>1, LeastNat
    <2>3. NumPlayers \in Nat
      BY GameConstants
    <2> HIDE DEF Sol
    <2>4. \E f : Sol(f, NumPlayers)
      BY <2>2, <2>3
    <2> QED BY <1>2, <2>4
  <1>4. ExecuteSpawns(g) = after[NumPlayers]
    BY <1>2 DEF ExecuteSpawns
  <1> DEFINE Kept(h) == /\ Board(h)
                        /\ Ledger(g) => Ledger(h)
                        /\ Course(h) = Course(g)
                        /\ Sheltered(g) => Sheltered(h)
             Worse == {i \in 0 .. NumPlayers : ~ Kept(after[i])}
  <1>5. ASSUME NEW i \in Worse, \A j \in Worse : i <= j PROVE FALSE
    <2>1. after[i] = step(after, i)
      BY <1>3
    <2>2. CASE i = 0
      <3>1. after[i] = g
        BY <2>1, <2>2
      <3> QED BY <3>1
    <2>3. CASE i # 0
      <3>1. i - 1 \in 0 .. NumPlayers /\ i - 1 \in Players /\ ~ (i <= i - 1)
        BY <2>3, GameConstants DEF Players
      <3>2. i - 1 \notin Worse
        <4> HIDE DEF Worse
        <4> QED BY <1>5, <3>1
      <3>3. PICK h : h = after[i - 1]
        OBVIOUS
      <3>4. Kept(h)
        BY <3>1, <3>2, <3>3
      <3>5. after[i] = SpawnsOf(h, i - 1)
        BY <2>1, <2>3, <3>3
      <3>6. Kept(SpawnsOf(h, i - 1))
        BY <3>1, <3>4, SpawnsOfBoard
      <3> QED BY <3>5, <3>6
    <2> QED BY <2>2, <2>3
  <1>6. Kept(after[NumPlayers])
    <2>1. Worse \subseteq Nat
      BY GameConstants
    <2>2. Worse = {}
      <3> HIDE DEF Worse
      <3> QED BY <1>5, <2>1, LeastNat
    <2>3. NumPlayers \in 0 .. NumPlayers
      BY GameConstants
    <2> HIDE DEF Kept
    <2> QED BY <2>2, <2>3
  <1> QED BY <1>4, <1>6

-----------------------------------------------------------------------------
(***************************************************************************)
(* The end of a match.                                                     *)
(***************************************************************************)

\* What a result may be read off: the board without the scores.
Stage(g) == <<g.turn, g.bots, g.cores, g.zone, g.radius>>

\* No two players are counted as dominant.
OneRuns(g) == \A p, q \in Players : p # q => g.dominance[p] = 0 \/ g.dominance[q] = 0

\* Two players cannot each hold 80% of the units.
LEMMA OnlyOneDominates ==
  ASSUME NEW g \in GameState, Living(g) # {}, NEW p \in Players, NEW q \in Players, p # q,
         Dominates(g, p), Dominates(g, q)
  PROVE  FALSE
  <1>1. PICK U : U = LivingOf(g, p) \union LivingOf(g, q)
    OBVIOUS
  <1>2. U \in SUBSET Living(g) /\ LivingOf(g, p) \intersect LivingOf(g, q) = {}
    BY <1>1 DEF LivingOf
  <1>3. IsFiniteSet(U) /\ IsFiniteSet(Living(g)) /\ Cardinality(Living(g)) \in Nat
    BY <1>2, UnitsAreFinite
  <1>4. PICK a, b, n : a = Cardinality(LivingOf(g, p)) /\ b = Cardinality(LivingOf(g, q))
                       /\ n = Cardinality(Living(g))
    OBVIOUS
  <1>5. a \in Nat /\ b \in Nat /\ Cardinality(U) = a + b
    BY <1>1, <1>2, <1>3, <1>4, CardSplit
  <1>6. a + b <= n /\ n \in Nat
    BY <1>2, <1>3, <1>4, <1>5, FS_Subset
  <1>7. n # 0
    BY <1>3, <1>4, FS_EmptySet
  <1>8. 5 * a >= 4 * n /\ 5 * b >= 4 * n
    BY <1>4 DEF Dominates
  <1> QED BY <1>5, <1>6, <1>7, <1>8

\* CountDominance counts for one player at most, and for a player who dominates.
LEMMA DominanceBoard ==
  ASSUME NEW g, Board(g), Living(g) # {}
  PROVE  /\ Board(CountDominance(g))
         /\ Ledger(g) => Ledger(CountDominance(g))
         /\ Stage(CountDominance(g)) = Stage(g)
         /\ OneRuns(CountDominance(g))
         /\ \A p \in Players : CountDominance(g).dominance[p] # 0 => Dominates(CountDominance(g), p)
  <1>1. g \in GameState
    BY DEF Board
  <1>2. PICK dominance : dominance = [p \in Players |-> IF Dominates(g, p) THEN g.dominance[p] + 1 ELSE 0]
    OBVIOUS
  <1>3. PICK h : h = [g EXCEPT !.dominance = dominance]
    OBVIOUS
  <1>4. CountDominance(g) = h
    BY <1>2, <1>3 DEF CountDominance
  <1>5. DOMAIN g = {"turn", "bots", "cores", "nodes", "energy", "score", "count", "kills", "dead",
                    "zone", "radius", "dominance", "calm", "lastEnergy", "lastBots"}
    BY <1>1 DEF GameState
  <1>6. /\ h.dominance = dominance /\ h.cores = g.cores /\ h.score = g.score
        /\ h.bots = g.bots /\ h.dead = g.dead /\ h.count = g.count /\ h.kills = g.kills
        /\ h.turn = g.turn /\ h.zone = g.zone /\ h.radius = g.radius
    BY <1>3, <1>5
  <1>7. dominance \in [Players -> Nat]
    <2>1. g.dominance \in [Players -> Nat]
      BY <1>1 DEF GameState
    <2> QED BY <1>2, <2>1
  <1>8. Units(h) = Units(g) /\ Living(h) = Living(g) /\ \A p : LivingOf(h, p) = LivingOf(g, p)
    BY <1>6 DEF Units, Living, LivingOf
  <1>9. Board(h)
    <2>1. h \in GameState
      BY <1>1, <1>3, <1>7 DEF GameState
    <2> QED BY <1>6, <1>8, <2>1 DEF Board
  <1>10. Ledger(g) => Ledger(h)
    BY <1>6 DEF Ledger, ActiveCores
  <1>11. Stage(h) = Stage(g)
    BY <1>6 DEF Stage
  <1>12. \A p \in Players : Dominates(h, p) = Dominates(g, p)
    BY <1>8 DEF Dominates
  <1>13. \A p \in Players : dominance[p] # 0 => Dominates(g, p)
    BY <1>2
  <1>14. OneRuns(h)
    <2>1. ASSUME NEW p \in Players, NEW q \in Players, p # q, dominance[p] # 0, dominance[q] # 0
          PROVE  FALSE
      BY <1>1, <1>13, <2>1, OnlyOneDominates
    <2> QED BY <1>6, <2>1 DEF OneRuns
  <1> QED BY <1>4, <1>6, <1>9, <1>10, <1>11, <1>12, <1>13, <1>14

\* CountStalemate looks at the board and changes only what it compares it with.
LEMMA StalemateBoard ==
  ASSUME NEW g, Board(g)
  PROVE  /\ Board(CountStalemate(g))
         /\ Ledger(g) => Ledger(CountStalemate(g))
         /\ Stage(CountStalemate(g)) = Stage(g)
         /\ CountStalemate(g).dominance = g.dominance
  <1>1. g \in GameState
    BY DEF Board
  <1>2. PICK held : held = SumFunction(g.energy)
    OBVIOUS
  <1>3. PICK units : units = Cardinality(Living(g))
    OBVIOUS
  <1>4. held \in Int /\ units \in Nat
    <2>1. g.energy \in [Players -> Nat]
      BY <1>1 DEF GameState
    <2>2. DOMAIN g.energy = Players /\ \A p \in Players : g.energy[p] \in Int
      BY <2>1
    <2>3. SumFunctionOnSet(g.energy, Players) \in Int
      BY <2>2, PlayersAreFinite, SumStep
    <2>4. held \in Int
      BY <1>2, <2>2, <2>3 DEF SumFunction
    <2> QED BY <2>4, <1>1, <1>3, UnitsAreFinite
  <1>5. PICK h : h = CountStalemate(g)
    OBVIOUS
  <1>6. \/ h = [g EXCEPT !.calm = 0, !.lastEnergy = held, !.lastBots = units]
        \/ h = [g EXCEPT !.calm = g.calm + 1]
    BY <1>2, <1>3, <1>5 DEF CountStalemate
  <1>7. DOMAIN g = {"turn", "bots", "cores", "nodes", "energy", "score", "count", "kills", "dead",
                    "zone", "radius", "dominance", "calm", "lastEnergy", "lastBots"}
    BY <1>1 DEF GameState
  <1>8. /\ h.dominance = g.dominance /\ h.cores = g.cores /\ h.score = g.score
        /\ h.bots = g.bots /\ h.dead = g.dead /\ h.count = g.count /\ h.kills = g.kills
        /\ h.turn = g.turn /\ h.zone = g.zone /\ h.radius = g.radius
    BY <1>6, <1>7
  <1>9. h \in GameState
    <2>1. g.calm + 1 \in Nat
      BY <1>1 DEF GameState
    <2>2. CASE h = [g EXCEPT !.calm = 0, !.lastEnergy = held, !.lastBots = units]
      BY <1>1, <1>4, <2>2 DEF GameState
    <2>3. CASE h = [g EXCEPT !.calm = g.calm + 1]
      BY <1>1, <2>1, <2>3 DEF GameState
    <2> QED BY <1>6, <2>2, <2>3
  <1>10. Board(h)
    <2>1. Units(h) = Units(g) /\ Living(h) = Living(g) /\ \A p : LivingOf(h, p) = LivingOf(g, p)
      BY <1>8 DEF Units, Living, LivingOf
    <2> QED BY <1>8, <1>9, <2>1 DEF Board
  <1>11. Ledger(g) => Ledger(h)
    BY <1>8 DEF Ledger, ActiveCores
  <1>12. Stage(h) = Stage(g)
    BY <1>8 DEF Stage
  <1> QED BY <1>5, <1>8, <1>10, <1>11, <1>12

\* The player FindWinnerByScore settles on is beaten by nobody.
LEMMA WinnerUnbeaten ==
  ASSUME NEW g \in GameState
  PROVE  /\ FindWinnerByScore(g) \in Players
         /\ \A p \in Players : ~ Beats(g, p, FindWinnerByScore(g))
  <1> DEFINE step(f, i) == IF i = 0 THEN 0 ELSE IF Beats(g, i, f[i - 1]) THEN i ELSE f[i - 1]
             Sol(f, n) == f = [i \in 0 .. n |-> step(f, i)]
             Bad == {n \in Nat : ~ \E f : Sol(f, n)}
  <1>1. ASSUME NEW n \in Bad, \A m \in Bad : n <= m PROVE FALSE
    <2>1. CASE n = 0
      <3>1. Sol([i \in 0 .. 0 |-> 0], 0)
        <4>1. \A i \in 0 .. 0 : i = 0
          OBVIOUS
        <4> QED BY <4>1
      <3> QED BY <2>1, <3>1
    <2>2. CASE n # 0
      <3>1. n \in Nat /\ n - 1 \in Nat
        BY <2>2
      <3>2. n - 1 \notin Bad
        <4> HIDE DEF Bad
        <4>1. ~ (n <= n - 1)
          BY <3>1
        <4> QED BY <1>1, <4>1
      <3>3. PICK f : Sol(f, n - 1)
        BY <3>1, <3>2
      <3>4. PICK h : h = [i \in 0 .. n |-> IF i < n THEN f[i] ELSE IF Beats(g, n, f[n - 1]) THEN n ELSE f[n - 1]]
        OBVIOUS
      <3>5. ASSUME NEW i \in 0 .. n PROVE h[i] = step(h, i)
        <4>1. CASE i < n
          <5>1. i \in 0 .. n - 1
            BY <3>1, <4>1
          <5>2. h[i] = f[i] /\ f[i] = step(f, i)
            BY <3>3, <3>4, <4>1, <5>1
          <5>3. i # 0 => h[i - 1] = f[i - 1]
            <6>1. i # 0 => i - 1 \in 0 .. n /\ i - 1 < n
              BY <3>1, <4>1
            <6> QED BY <3>4, <6>1
          <5> QED BY <5>2, <5>3
        <4>2. CASE i = n
          <5>1. h[n] = IF Beats(g, n, f[n - 1]) THEN n ELSE f[n - 1]
            BY <3>1, <3>4
          <5>2. h[n - 1] = f[n - 1]
            BY <3>1, <3>4
          <5> QED BY <2>2, <4>2, <5>1, <5>2
        <4> QED BY <3>1, <4>1, <4>2
      <3>6. Sol(h, n)
        <4>1. h = [i \in 0 .. n |-> h[i]]
          BY <3>4
        <4> HIDE DEF step
        <4> QED BY <3>5, <4>1
      <3> QED BY <3>6
    <2> QED BY <2>1, <2>2
  <1>2. PICK last : last = NumPlayers - 1
    OBVIOUS
  <1>3. last \in Nat /\ Players = 0 .. last
    BY <1>2, GameConstants DEF Players
  <1>4. PICK best : best = CHOOSE f : Sol(f, last)
    OBVIOUS
  <1>5. Sol(best, last)
    <2>1. Bad \subseteq Nat
      OBVIOUS
    <2>2. Bad = {}
      <3> HIDE DEF Bad
      <3> QED BY <1>1, <2>1, LeastNat
    <2> HIDE DEF Sol
    <2>3. \E f : Sol(f, last)
      BY <1>3, <2>2
    <2> QED BY <1>4, <2>3
  <1>6. FindWinnerByScore(g) = best[last]
    BY <1>2, <1>3, <1>4 DEF FindWinnerByScore
  <1>7. /\ \A p \in Players : g.score[p] \in Int /\ g.energy[p] \in Int
        /\ \A p \in Players : Cardinality(LivingOf(g, p)) \in Int
    <2>1. g.score \in [Players -> Int] /\ g.energy \in [Players -> Nat]
      BY DEF GameState
    <2>2. ASSUME NEW p \in Players PROVE Cardinality(LivingOf(g, p)) \in Int
      <3>1. LivingOf(g, p) \in SUBSET Units(g)
        BY UnitsAreFinite
      <3>2. Cardinality(LivingOf(g, p)) \in Nat
        BY <3>1, UnitsAreFinite
      <3> QED BY <3>2
    <2>3. \A p \in Players : g.energy[p] \in Int
      BY <2>1
    <2> QED BY <2>1, <2>2, <2>3
  <1>8. ASSUME NEW i \in Players, NEW b \in Players, NEW j \in Players, Beats(g, i, b), ~ Beats(g, j, b)
        PROVE  ~ Beats(g, j, i)
    <2>1. PICK si, sb, sj, ei, eb, ej, ni, nb, nj :
            /\ si = g.score[i] /\ sb = g.score[b] /\ sj = g.score[j]
            /\ ei = g.energy[i] /\ eb = g.energy[b] /\ ej = g.energy[j]
            /\ ni = Cardinality(LivingOf(g, i)) /\ nb = Cardinality(LivingOf(g, b))
            /\ nj = Cardinality(LivingOf(g, j))
      OBVIOUS
    <2>2. /\ si \in Int /\ sb \in Int /\ sj \in Int
          /\ ei \in Int /\ eb \in Int /\ ej \in Int
          /\ ni \in Int /\ nb \in Int /\ nj \in Int
      BY <1>7, <2>1
    <2>3. Beats(g, i, b) = (si > sb \/ (si = sb /\ ei > eb) \/ (si = sb /\ ei = eb /\ ni > nb))
      BY <2>1 DEF Beats
    <2>4. Beats(g, j, b) = (sj > sb \/ (sj = sb /\ ej > eb) \/ (sj = sb /\ ej = eb /\ nj > nb))
      BY <2>1 DEF Beats
    <2>5. Beats(g, j, i) = (sj > si \/ (sj = si /\ ej > ei) \/ (sj = si /\ ej = ei /\ nj > ni))
      BY <2>1 DEF Beats
    <2>6. si > sb \/ (si = sb /\ ei > eb) \/ (si = sb /\ ei = eb /\ ni > nb)
      BY <1>8, <2>3
    <2>7. ~ (sj > sb \/ (sj = sb /\ ej > eb) \/ (sj = sb /\ ej = eb /\ nj > nb))
      BY <1>8, <2>4
    <2>8. ~ (sj > si \/ (sj = si /\ ej > ei) \/ (sj = si /\ ej = ei /\ nj > ni))
      BY <2>2, <2>6, <2>7
    <2> QED BY <2>5, <2>8
  <1>9. \A i \in Players : ~ Beats(g, i, i)
    BY <1>7 DEF Beats
  <1> DEFINE Good(i) == best[i] \in 0 .. i /\ \A j \in 0 .. i : ~ Beats(g, j, best[i])
             Worse == {i \in 0 .. last : ~ Good(i)}
  <1>10. ASSUME NEW i \in Worse, \A j \in Worse : i <= j PROVE FALSE
    <2>1. best[i] = step(best, i) /\ i \in 0 .. last /\ i \in Nat
      BY <1>3, <1>5
    <2>2. CASE i = 0
      <3>1. best[i] = 0
        BY <2>1, <2>2
      <3>2. 0 \in Players /\ 0 .. 0 = {0}
        BY <1>3
      <3>3. Good(0)
        BY <1>9, <2>2, <3>1, <3>2
      <3> QED BY <2>2, <3>3
    <2>3. CASE i # 0
      <3>1. i - 1 \in 0 .. last /\ ~ (i <= i - 1) /\ 0 .. i = (0 .. i - 1) \union {i}
        BY <1>3, <2>1, <2>3
      <3>2. i - 1 \notin Worse
        <4> HIDE DEF Worse
        <4> QED BY <1>10, <3>1
      <3>3. PICK b : b = best[i - 1]
        OBVIOUS
      <3>4. b \in 0 .. i - 1 /\ \A j \in 0 .. i - 1 : ~ Beats(g, j, b)
        BY <3>1, <3>2, <3>3
      <3>5. best[i] = IF Beats(g, i, b) THEN i ELSE b
        BY <2>1, <2>3, <3>3
      <3>6. b \in Players /\ i \in Players /\ \A j \in 0 .. i - 1 : j \in Players
        BY <1>3, <2>1, <3>4
      <3>7. best[i] \in 0 .. i
        BY <3>1, <3>4, <3>5
      <3>8. ASSUME NEW j \in 0 .. i PROVE ~ Beats(g, j, best[i])
        <4>1. j \in 0 .. i - 1 \/ j = i
          BY <3>1
        <4> HIDE DEF step, Sol
        <4>2. CASE Beats(g, i, b)
          BY <1>8, <1>9, <3>4, <3>5, <3>6, <4>1, <4>2
        <4>3. CASE ~ Beats(g, i, b)
          BY <3>4, <3>5, <4>1, <4>3
        <4> QED BY <4>2, <4>3
      <3>9. Good(i)
        BY <3>7, <3>8
      <3> QED BY <3>9
    <2> QED BY <2>2, <2>3
  <1>11. Good(last)
    <2>1. Worse \subseteq Nat
      BY <1>3
    <2>2. Worse = {}
      <3> HIDE DEF Worse
      <3> QED BY <1>10, <2>1, LeastNat
    <2>3. last \in 0 .. last
      BY <1>3
    <2> HIDE DEF Good
    <2> QED BY <2>2, <2>3
  <1> QED BY <1>3, <1>6, <1>11

\* A sum with a single term other than zero.
LEMMA SumOfPoint ==
  ASSUME NEW S, IsFiniteSet(S), NEW w \in S, NEW k \in Int, NEW d,
         \A x \in S : d[x] = IF x = w THEN k ELSE 0
  PROVE  SumFunctionOnSet(d, S) = k
  <1> DEFINE Bad == {T \in SUBSET S : SumFunctionOnSet(d, T) # IF w \in T THEN k ELSE 0}
  <1> SUFFICES ASSUME Bad # {} PROVE FALSE
    OBVIOUS
  <1>1. PICK T \in Bad : T # {} => Chosen(T) \in T /\ T \ {Chosen(T)} \notin Bad
    <2>1. Bad \in SUBSET SUBSET S
      OBVIOUS
    <2> HIDE DEF Bad
    <2> QED BY <2>1, SmallestSet
  <1>2. ASSUME NEW U \in SUBSET S
        PROVE  /\ U = {} => SumFunctionOnSet(d, U) = 0
               /\ U # {} => SumFunctionOnSet(d, U) = d[Chosen(U)] + SumFunctionOnSet(d, U \ {Chosen(U)})
    <2>1. IsFiniteSet(U) /\ \A x \in U : d[x] \in Int
      BY FS_Subset
    <2> QED BY <2>1, SumStep
  <1>3. T \in SUBSET S /\ T # {}
    BY <1>2
  <1>4. PICK U : U = T \ {Chosen(T)}
    OBVIOUS
  <1>5. SumFunctionOnSet(d, U) = IF w \in U THEN k ELSE 0
    BY <1>1, <1>3, <1>4
  <1>6. SumFunctionOnSet(d, T) = d[Chosen(T)] + (IF w \in U THEN k ELSE 0)
    BY <1>2, <1>3, <1>4, <1>5
  <1>7. Chosen(T) \in S /\ Chosen(T) \in T
    BY <1>1, <1>3
  <1>8. CASE Chosen(T) = w
    <2>1. w \notin U /\ w \in T /\ d[Chosen(T)] = k
      BY <1>4, <1>7, <1>8
    <2>2. SumFunctionOnSet(d, T) = k
      BY <1>6, <2>1
    <2> QED BY <2>1, <2>2
  <1>9. CASE Chosen(T) # w
    <2>1. (w \in U) = (w \in T) /\ d[Chosen(T)] = 0
      BY <1>4, <1>7, <1>9
    <2>2. SumFunctionOnSet(d, T) = IF w \in T THEN k ELSE 0
      BY <1>6, <2>1
    <2> QED BY <2>2
  <1> QED BY <1>8, <1>9

\* ScoreLedger and ResultJustified of a game state and a result.
Books(g, r) ==
  SumFunction(g.score) =
    Len(g.cores) + (Len(g.cores) - Cardinality(ActiveCores(g))) + KillScore * SumFunction(g.kills)
    + IF r.reason = "elimination"
      THEN 2 * Cardinality({c \in ActiveCores(g) : g.cores[c].owner # r.winner}) ELSE 0

Justified(g, r) ==
  CASE r.reason = "elimination" -> LivingPlayers(g) = {r.winner}
    [] r.reason = "draw"        -> Living(g) = {}
    [] r.reason = "dominance"   -> Dominates(g, r.winner)
    [] r.reason \in {"stalemate", "turns"} -> \A p \in Players : ~ Beats(g, p, r.winner)
    [] OTHER -> Cardinality(LivingPlayers(g)) > 1

\* The numbers of a ledger are integers.
LEMMA LedgerTerms ==
  ASSUME NEW g \in GameState
  PROVE  /\ Len(g.cores) \in Nat /\ Cardinality(ActiveCores(g)) \in Nat
         /\ KillScore * SumFunction(g.kills) \in Int /\ SumFunction(g.score) \in Int
         /\ \A C \in SUBSET ActiveCores(g) : Cardinality(C) \in Nat
  <1>1. g.cores \in Seq(CoreState)
    BY DEF GameState
  <1>2. ActiveCores(g) \in SUBSET (1 .. Len(g.cores)) /\ Len(g.cores) \in Nat
    BY <1>1 DEF ActiveCores
  <1>3. IsFiniteSet(1 .. Len(g.cores))
    BY <1>2, FS_Interval
  <1>4. \A C \in SUBSET ActiveCores(g) : Cardinality(C) \in Nat
    BY <1>2, <1>3, FS_Subset, FS_CardinalityType
  <1>5. g.kills \in [Players -> Nat] /\ g.score \in [Players -> Int]
    BY DEF GameState
  <1>6. \A p \in Players : g.kills[p] \in Int
    BY <1>5
  <1>7. \A p \in Players : g.score[p] \in Int
    BY <1>5
  <1>8. SumFunctionOnSet(g.kills, Players) \in Int
    BY <1>6, PlayersAreFinite, SumStep
  <1>9. SumFunctionOnSet(g.score, Players) \in Int
    BY <1>7, PlayersAreFinite, SumStep
  <1>10. SumFunction(g.kills) \in Int /\ SumFunction(g.score) \in Int
    BY <1>5, <1>8, <1>9 DEF SumFunction
  <1>11. KillScore * SumFunction(g.kills) \in Int
    BY <1>10, GameConstants
  <1> QED BY <1>2, <1>4, <1>10, <1>11

\* A ledger is in order with any result that brings no bonus.
LEMMA LedgerBooks ==
  ASSUME NEW g \in GameState, Ledger(g), NEW r, r.reason # "elimination"
  PROVE  Books(g, r)
  <1>1. PICK n, a, k : n = Len(g.cores) /\ a = Cardinality(ActiveCores(g)) /\ k = KillScore * SumFunction(g.kills)
    OBVIOUS
  <1>2. n \in Nat /\ a \in Nat /\ k \in Int
    BY <1>1, LedgerTerms
  <1>3. SumFunction(g.score) = n + (n - a) + k
    BY <1>1 DEF Ledger
  <1>4. SumFunction(g.score) = n + (n - a) + k + 0
    BY <1>2, <1>3
  <1> QED BY <1>1, <1>4 DEF Books

\* The survivor's bonus is two points for each core it did not raze.
LEMMA EliminationBoard ==
  ASSUME NEW g, Board(g), Ledger(g), NEW w \in Players
  PROVE  /\ Board(Elimination(g, w).g)
         /\ Stage(Elimination(g, w).g) = Stage(g)
         /\ Elimination(g, w).g.dominance = g.dominance
         /\ Elimination(g, w).result = [winner |-> w, reason |-> "elimination"]
         /\ Books(Elimination(g, w).g, Elimination(g, w).result)
  <1>1. g \in GameState
    BY DEF Board
  <1>2. PICK left : left = {c \in ActiveCores(g) : g.cores[c].owner # w}
    OBVIOUS
  <1>3. left = {c \in DOMAIN g.cores : g.cores[c].active /\ g.cores[c].owner # w}
    BY <1>2 DEF ActiveCores
  <1>4. PICK bonus : bonus = 2 * Cardinality(left)
    OBVIOUS
  <1>5. bonus \in Int
    <2>1. left \in SUBSET ActiveCores(g)
      BY <1>2
    <2>2. Cardinality(left) \in Nat
      BY <1>1, <2>1, LedgerTerms
    <2> QED BY <1>4, <2>2
  <1>6. PICK score : score = [g.score EXCEPT ![w] = @ + bonus]
    OBVIOUS
  <1>7. PICK h : h = [g EXCEPT !.score = score]
    OBVIOUS
  <1>8. Elimination(g, w) = [g |-> h, result |-> [winner |-> w, reason |-> "elimination"]]
    BY <1>3, <1>4, <1>6, <1>7 DEF Elimination, End
  <1>9. DOMAIN g = {"turn", "bots", "cores", "nodes", "energy", "score", "count", "kills", "dead",
                    "zone", "radius", "dominance", "calm", "lastEnergy", "lastBots"}
    BY <1>1 DEF GameState
  <1>10. /\ h.score = score /\ h.cores = g.cores /\ h.dominance = g.dominance
         /\ h.bots = g.bots /\ h.dead = g.dead /\ h.count = g.count /\ h.kills = g.kills
         /\ h.turn = g.turn /\ h.zone = g.zone /\ h.radius = g.radius
    BY <1>7, <1>9
  <1>11. PICK d : d = [p \in Players |-> IF p = w THEN bonus ELSE 0]
    OBVIOUS
  <1>12. \A p \in Players : g.score[p] \in Int /\ d[p] \in Int /\ score[p] = g.score[p] + d[p]
    <2>1. g.score \in [Players -> Int]
      BY <1>1 DEF GameState
    <2>2. ASSUME NEW p \in Players
          PROVE  g.score[p] \in Int /\ d[p] \in Int /\ score[p] = g.score[p] + d[p]
      <3>1. g.score[p] \in Int
        BY <2>1
      <3>2. d[p] = IF p = w THEN bonus ELSE 0
        BY <1>11
      <3>3. score[p] = IF p = w THEN g.score[p] + bonus ELSE g.score[p]
        BY <1>6, <2>1
      <3> QED BY <1>5, <3>1, <3>2, <3>3
    <2> QED BY <2>2
  <1>13. score \in [Players -> Int]
    <2>1. g.score \in [Players -> Int]
      BY <1>1 DEF GameState
    <2>2. DOMAIN score = Players /\ score = [p \in Players |-> score[p]]
      BY <1>6, <2>1
    <2>3. \A p \in Players : score[p] \in Int
      BY <1>12
    <2> QED BY <2>2, <2>3
  <1>14. Board(h)
    <2>1. h \in GameState
      BY <1>1, <1>7, <1>13 DEF GameState
    <2>2. Units(h) = Units(g) /\ Living(h) = Living(g) /\ \A p : LivingOf(h, p) = LivingOf(g, p)
      BY <1>10 DEF Units, Living, LivingOf
    <2> QED BY <1>10, <2>1, <2>2 DEF Board
  <1>15. SumFunction(score) = SumFunction(g.score) + bonus
    <2>1. SumFunctionOnSet(score, Players) = SumFunctionOnSet(g.score, Players) + SumFunctionOnSet(d, Players)
      BY <1>12, PlayersAreFinite, SumAdd
    <2>2. \A p \in Players : d[p] = IF p = w THEN bonus ELSE 0
      BY <1>11
    <2>3. SumFunctionOnSet(d, Players) = bonus
      BY <1>5, <2>2, PlayersAreFinite, SumOfPoint
    <2>4. DOMAIN score = Players /\ DOMAIN g.score = Players
      BY <1>1, <1>13 DEF GameState
    <2> QED BY <2>1, <2>3, <2>4 DEF SumFunction
  <1>16. ActiveCores(h) = ActiveCores(g)
    BY <1>10 DEF ActiveCores
  <1>17. PICK n, a, k : n = Len(g.cores) /\ a = Cardinality(ActiveCores(g)) /\ k = KillScore * SumFunction(g.kills)
    OBVIOUS
  <1>18. n \in Nat /\ a \in Nat /\ k \in Int
    BY <1>1, <1>17, LedgerTerms
  <1>19. SumFunction(h.score) = n + (n - a) + k + bonus
    BY <1>10, <1>15, <1>17 DEF Ledger
  <1>20. PICK r : r = [winner |-> w, reason |-> "elimination"]
    OBVIOUS
  <1>21. {c \in ActiveCores(h) : h.cores[c].owner # r.winner} = left
    BY <1>2, <1>10, <1>16, <1>20
  <1>22. Books(h, r)
    <2>1. r.reason = "elimination"
      BY <1>20
    <2> QED BY <1>4, <1>10, <1>16, <1>17, <1>19, <1>21, <2>1 DEF Books
  <1>23. Stage(h) = Stage(g)
    BY <1>10 DEF Stage
  <1> QED BY <1>8, <1>10, <1>14, <1>20, <1>22, <1>23

\* The players with living units are players, and there are finitely many.
LEMMA SurvivorsAreFinite ==
  ASSUME NEW g \in GameState
  PROVE  /\ LivingPlayers(g) \in SUBSET Players
         /\ IsFiniteSet(LivingPlayers(g)) /\ Cardinality(LivingPlayers(g)) \in Nat
         /\ Living(g) = {} <=> LivingPlayers(g) = {}
  <1>1. Units(g) = 1 .. Len(g.bots) /\ Living(g) \in SUBSET Units(g)
    BY UnitsAreFinite
  <1>2. \A b \in Units(g) : g.bots[b].owner \in Players
    <2>1. ASSUME NEW b \in Units(g) PROVE g.bots[b].owner \in Players
      <3>1. PICK u \in UnitState : u = g.bots[b]
        BY <1>1 DEF GameState
      <3> QED BY <3>1 DEF UnitState
    <2> QED BY <2>1
  <1>3. LivingPlayers(g) \in SUBSET Players
    BY <1>1, <1>2 DEF LivingPlayers
  <1>4. IsFiniteSet(LivingPlayers(g)) /\ Cardinality(LivingPlayers(g)) \in Nat
    BY <1>3, PlayersAreFinite, FS_Subset, FS_CardinalityType
  <1>5. Living(g) = {} <=> LivingPlayers(g) = {}
    BY DEF LivingPlayers
  <1> QED BY <1>3, <1>4, <1>5

\* checkWinConditions: whatever it decides, the board bears it out.
LEMMA WinConditionsBoard ==
  ASSUME NEW g, Board(g), Ledger(g), OneRuns(g), NEW e, e = CheckWinConditions(g)
  PROVE  /\ Board(e.g) /\ Stage(e.g) = Stage(g) /\ OneRuns(e.g)
         /\ Books(e.g, e.result) /\ Justified(e.g, e.result)
         /\ g.turn >= MaxTurns => e.result # NoResult
  <1>1. g \in GameState
    BY DEF Board
  <1>2. /\ LivingPlayers(g) \in SUBSET Players /\ IsFiniteSet(LivingPlayers(g))
        /\ Cardinality(LivingPlayers(g)) \in Nat /\ (Living(g) = {} <=> LivingPlayers(g) = {})
    BY <1>1, SurvivorsAreFinite
  <1>3. PICK d : d = CountDominance(g)
    OBVIOUS
  <1>4. PICK dominant : dominant = {p \in Players : d.dominance[p] >= DominanceLimit}
    OBVIOUS
  <1>5. PICK s : s = CountStalemate(d)
    OBVIOUS
  <1>6. PICK n : n = Cardinality(LivingPlayers(g))
    OBVIOUS
  <1>7. e = CASE n = 1 -> Elimination(g, CHOOSE p \in LivingPlayers(g) : TRUE)
       [] LivingPlayers(g) = {}   -> End(g, -1, "draw")
       [] n > 1 /\ dominant # {} -> End(d, Min(dominant), "dominance")
       [] OTHER -> IF s.calm >= StalemateLimit THEN End(s, FindWinnerByScore(s), "stalemate")
                   ELSE IF s.turn >= MaxTurns  THEN End(s, FindWinnerByScore(s), "turns")
                   ELSE [g |-> s, result |-> NoResult]
    BY <1>3, <1>4, <1>5, <1>6 DEF CheckWinConditions
  <1>8. n \in Nat /\ (n = 0 <=> LivingPlayers(g) = {})
    BY <1>2, <1>6, FS_EmptySet
  <1>9. CASE n = 1
    <2>1. PICK w : LivingPlayers(g) = {w}
      BY <1>2, <1>6, <1>9, FS_Singleton
    <2>2. w \in Players /\ w = CHOOSE p \in LivingPlayers(g) : TRUE
      BY <1>2, <2>1
    <2>3. e = Elimination(g, w)
      <3>1. LivingPlayers(g) # {} /\ ~ (n > 1)
        BY <1>9, <2>1
      <3> QED BY <1>7, <1>9, <2>2, <3>1
    <2>4. /\ Board(e.g) /\ Stage(e.g) = Stage(g) /\ e.g.dominance = g.dominance
          /\ e.result = [winner |-> w, reason |-> "elimination"] /\ Books(e.g, e.result)
      <3>1. PICK f : f = Elimination(g, w)
        OBVIOUS
      <3>2. /\ Board(f.g) /\ Stage(f.g) = Stage(g) /\ f.g.dominance = g.dominance
            /\ f.result = [winner |-> w, reason |-> "elimination"]
        BY <2>2, <3>1, EliminationBoard
      <3>3. Books(f.g, f.result)
        BY <2>2, <3>1, EliminationBoard
      <3> QED BY <2>3, <3>1, <3>2, <3>3
    <2>5. LivingPlayers(e.g) = {w}
      BY <2>1, <2>4 DEF Stage, LivingPlayers, Living, Units
    <2>6. e.result.reason = "elimination" /\ e.result.winner = w
      BY <2>4
    <2>7. Justified(e.g, e.result)
      BY <2>5, <2>6 DEF Justified
    <2>8. e.result # NoResult
      <3>1. NoResult.reason = "none"
        BY DEF NoResult
      <3> QED BY <2>6, <3>1
    <2> QED BY <2>4, <2>7, <2>8 DEF OneRuns
  <1>10. CASE n = 0
    <2>1. e = End(g, -1, "draw")
      BY <1>7, <1>8, <1>10
    <2>2. e.g = g /\ e.result.reason = "draw"
      BY <2>1 DEF End
    <2>3. Justified(e.g, e.result)
      BY <1>2, <1>8, <1>10, <2>2 DEF Justified
    <2>4. Books(e.g, e.result)
      <3>1. e.result.reason # "elimination"
        BY <2>2
      <3> QED BY <1>1, <2>2, <3>1, LedgerBooks
    <2>5. e.result # NoResult
      <3>1. NoResult.reason = "none"
        BY DEF NoResult
      <3> QED BY <2>2, <3>1
    <2> QED BY <2>2, <2>3, <2>4, <2>5
  <1>11. CASE n > 1
    <2>1. LivingPlayers(g) # {} /\ Living(g) # {} /\ n # 1
      BY <1>2, <1>8, <1>11
    <2>2. /\ Board(d) /\ Ledger(d) /\ Stage(d) = Stage(g) /\ OneRuns(d)
          /\ \A p \in Players : d.dominance[p] # 0 => Dominates(d, p)
      BY <1>3, <2>1, DominanceBoard
    <2>3. Board(s) /\ Ledger(s) /\ Stage(s) = Stage(d) /\ s.dominance = d.dominance
      BY <1>5, <2>2, StalemateBoard
    <2>4. d \in GameState /\ s \in GameState
      BY <2>2, <2>3 DEF Board
    <2>5. CASE dominant # {}
      <3>1. e = End(d, Min(dominant), "dominance")
        BY <1>7, <1>11, <2>1, <2>5
      <3>2. PICK w : w = Min(dominant)
        OBVIOUS
      <3>3. w \in dominant
        <4>1. dominant \subseteq Nat
          BY <1>4, PlayersAreFinite
        <4>2. \E x \in dominant : \A y \in dominant : x <= y
          BY <2>5, <4>1, LeastNat
        <4> QED BY <3>2, <4>2 DEF Min
      <3>4. Dominates(d, w)
        <4>1. w \in Players /\ d.dominance[w] >= DominanceLimit
          BY <1>4, <3>3
        <4>2. d.dominance[w] # 0
          BY <4>1, GameConstants
        <4> QED BY <2>2, <4>1, <4>2
      <3>5. e.g = d /\ e.result.reason = "dominance" /\ e.result.winner = w
        BY <3>1, <3>2 DEF End
      <3>6. Justified(e.g, e.result)
        BY <3>4, <3>5 DEF Justified
      <3>7. Books(e.g, e.result)
        <4>1. e.result.reason # "elimination"
          BY <3>5
        <4> QED BY <2>2, <2>4, <3>5, <4>1, LedgerBooks
      <3>8. e.result # NoResult
        <4>1. NoResult.reason = "none"
          BY DEF NoResult
        <4> QED BY <3>5, <4>1
      <3> QED BY <2>2, <3>5, <3>6, <3>7, <3>8
    <2>6. CASE dominant = {}
      <3>1. \/ e = End(s, FindWinnerByScore(s), "stalemate")
            \/ e = End(s, FindWinnerByScore(s), "turns")
            \/ ~ (s.turn >= MaxTurns) /\ e = [g |-> s, result |-> NoResult]
        BY <1>7, <2>1, <2>6
      <3>2. e.g = s
        BY <3>1 DEF End
      <3>3. Stage(s) = Stage(g) /\ OneRuns(s)
        BY <2>2, <2>3 DEF OneRuns
      <3>4. CASE e = End(s, FindWinnerByScore(s), "stalemate") \/ e = End(s, FindWinnerByScore(s), "turns")
        <4>1. e.result.reason \in {"stalemate", "turns"} /\ e.result.winner = FindWinnerByScore(s)
          BY <3>4 DEF End
        <4>2. Justified(s, e.result)
          BY <2>4, <4>1, WinnerUnbeaten DEF Justified
        <4>3. e.result.reason # "elimination"
          BY <4>1
        <4>4. Books(s, e.result)
          BY <2>3, <2>4, <4>3, LedgerBooks
        <4>5. e.result # NoResult
          <5>1. NoResult.reason = "none"
            BY DEF NoResult
          <5> QED BY <4>1, <5>1
        <4> QED BY <2>3, <3>2, <3>3, <4>2, <4>4, <4>5
      <3>5. CASE ~ (s.turn >= MaxTurns) /\ e = [g |-> s, result |-> NoResult]
        <4>1. e.result = NoResult /\ NoResult.reason = "none"
          BY <3>5 DEF NoResult
        <4>2. LivingPlayers(s) = LivingPlayers(g) /\ s.turn = g.turn
          BY <3>3 DEF Stage, LivingPlayers, Living, Units
        <4>3. Justified(s, e.result)
          BY <1>6, <1>11, <4>1, <4>2 DEF Justified
        <4>4. Books(s, e.result)
          BY <2>3, <2>4, <4>1, LedgerBooks
        <4> QED BY <2>3, <3>2, <3>3, <3>5, <4>2, <4>3, <4>4
      <3> QED BY <3>1, <3>4, <3>5
    <2> QED BY <2>5, <2>6
  <1> QED BY <1>8, <1>9, <1>10, <1>11

-----------------------------------------------------------------------------
(***************************************************************************)
(* The orders, and the turn as a whole.                                    *)
(***************************************************************************)

\* An accepted order is a direction.
LEMMA OrdersAreDirections ==
  ASSUME NEW g, NEW a \in Orders(g), NEW p \in Players, NEW t \in DOMAIN a[p]
  PROVE  a[p][t] \in Dirs
  <1> DEFINE slots == UNION {{q} \X OwnTiles(g, q) : q \in Players \ Silent}
             given(f) == [q \in Players |->
                            LET tiles == {u \in OwnTiles(g, q) : <<q, u>> \in slots /\ f[<<q, u>>] # "stay"}
                            IN [u \in tiles |-> f[<<q, u>>]]]
  <1>1. Orders(g) = {given(f) : f \in [slots -> Dirs \union {"stay"}]}
    BY DEF Orders
  <1>2. PICK f \in [slots -> Dirs \union {"stay"}] : a = given(f)
    <2> HIDE DEF given, slots
    <2> QED BY <1>1
  <1>3. a[p] = [u \in {u \in OwnTiles(g, p) : <<p, u>> \in slots /\ f[<<p, u>>] # "stay"} |-> f[<<p, u>>]]
    BY <1>2
  <1>4. <<p, t>> \in slots /\ f[<<p, t>>] # "stay" /\ a[p][t] = f[<<p, t>>]
    BY <1>3
  <1> QED BY <1>2, <1>4

\* So is what SubmitMove hands to a unit.
LEMMA SubmissionsAreDirections ==
  ASSUME NEW g, NEW moves \in Submissions(g), NEW b \in DOMAIN moves
  PROVE  moves[b] \in Dirs
  <1>1. PICK a \in Orders(g), order \in SetToSeqs(Players) : moves = SubmitMoves(g, a, order)
    BY DEF Submissions
  <1>2. \A i \in 1 .. NumPlayers : order[i] \in Players
    BY <1>1, PlayersAreFinite DEF SetToSeqs
  <1>3. PICK bidders : bidders = {i \in 1 .. NumPlayers :
          g.bots[b].pos \in DOMAIN a[order[i]] \intersect OwnTiles(g, order[i])}
    OBVIOUS
  <1>4. bidders # {} /\ moves[b] = a[order[Max(bidders)]][g.bots[b].pos]
    BY <1>1, <1>3 DEF SubmitMoves
  <1>5. Max(bidders) \in bidders
    <2>1. bidders \in SUBSET (1 .. NumPlayers) /\ NumPlayers \in Nat
      BY <1>3, GameConstants
    <2>2. bidders \subseteq Nat /\ IsFiniteSet(1 .. NumPlayers)
      BY <2>1, FS_Interval
    <2>3. IsFiniteSet(bidders)
      BY <2>1, <2>2, FS_Subset
    <2>4. \E x \in bidders : \A y \in bidders : x >= y
      BY <1>4, <2>2, <2>3, GreatestNat
    <2> QED BY <2>4 DEF Max
  <1>6. PICK i : i = Max(bidders)
    OBVIOUS
  <1>7. order[i] \in Players /\ g.bots[b].pos \in DOMAIN a[order[i]]
    BY <1>2, <1>3, <1>5, <1>6
  <1> QED BY <1>4, <1>6, <1>7, OrdersAreDirections

\* Clearing the dead and starting the storm leave a sound board sound.
LEMMA RequestBoard ==
  ASSUME NEW g, Board(g)
  PROVE  /\ Board(Request(g))
         /\ Ledger(g) => Ledger(Request(g))
         /\ RadiusKept(g) => RadiusKept(Request(g))
         /\ Request(g).turn = g.turn /\ Request(g).dominance = g.dominance
  <1>1. g \in GameState
    BY DEF Board
  <1>2. PICK radius : radius = InitialZoneRadius
    OBVIOUS
  <1>3. radius \in Int
    <2>1. Rows \div 2 \in Int /\ Cols \div 2 \in Int
      BY GameConstants
    <2>2. PICK m : m = Min({Rows \div 2, Cols \div 2})
      OBVIOUS
    <2>3. m \in Int
      BY <2>1, <2>2, MinOfTwo
    <2>4. PICK k : k = (m * 90) \div 100
      OBVIOUS
    <2>5. k \in Int
      BY <2>3, <2>4
    <2>6. radius = Max({k, 7})
      BY <1>2, <2>2, <2>4 DEF InitialZoneRadius
    <2>7. Max({k, 7}) \in {k, 7}
      BY <2>5, MaxOfTwo
    <2> QED BY <2>5, <2>6, <2>7
  <1>4. PICK h : h = Request(g)
    OBVIOUS
  <1>5. \/ h = [g EXCEPT !.dead = {}]
        \/ h = [g EXCEPT !.zone = TRUE, !.radius = radius, !.dead = {}]
    <2>1. ActivateZone(g) = g \/ ActivateZone(g) = [g EXCEPT !.zone = TRUE, !.radius = radius]
      BY <1>2 DEF ActivateZone
    <2>2. h = [ActivateZone(g) EXCEPT !.dead = {}]
      BY <1>4 DEF Request
    <2>3. CASE ActivateZone(g) = g
      BY <2>2, <2>3
    <2>4. CASE ActivateZone(g) = [g EXCEPT !.zone = TRUE, !.radius = radius]
      BY <2>2, <2>4, <1>1 DEF GameState
    <2> QED BY <2>1, <2>3, <2>4
  <1>6. DOMAIN g = {"turn", "bots", "cores", "nodes", "energy", "score", "count", "kills", "dead",
                    "zone", "radius", "dominance", "calm", "lastEnergy", "lastBots"}
    BY <1>1 DEF GameState
  <1>7. /\ h.dead = {} /\ h.score = g.score /\ h.cores = g.cores /\ h.dominance = g.dominance
        /\ h.bots = g.bots /\ h.count = g.count /\ h.kills = g.kills /\ h.turn = g.turn
    BY <1>5, <1>6
  <1>8. h \in GameState
    BY <1>1, <1>3, <1>5 DEF GameState
  <1>9. Board(h)
    <2>1. Units(h) = Units(g) /\ Living(h) = Living(g) /\ \A p : LivingOf(h, p) = LivingOf(g, p)
      BY <1>7 DEF Units, Living, LivingOf
    <2> QED BY <1>7, <1>8, <2>1 DEF Board
  <1>10. Ledger(g) => Ledger(h)
    BY <1>7 DEF Ledger, ActiveCores
  <1>11. RadiusKept(g) => RadiusKept(h)
    <2>1. (h.zone = g.zone /\ h.radius = g.radius) \/ h.radius = radius
      BY <1>5, <1>6
    <2> QED BY <1>2, <2>1 DEF RadiusKept
  <1> QED BY <1>4, <1>7, <1>9, <1>10, <1>11

\* The clock of a turn: no core spawned later than now.
LEMMA ClockBoard ==
  ASSUME NEW g, Board(g), NEW h, h = [g EXCEPT !.turn = @ + 1]
  PROVE  /\ Board(h) /\ (Ledger(g) => Ledger(h)) /\ (RadiusKept(g) => RadiusKept(h))
         /\ h.turn = g.turn + 1 /\ h.dominance = g.dominance
  <1>1. g \in GameState
    BY DEF Board
  <1>2. PICK now : now = g.turn + 1
    OBVIOUS
  <1>3. g.turn \in Nat /\ now \in Nat
    BY <1>1, <1>2 DEF GameState
  <1>4. DOMAIN g = {"turn", "bots", "cores", "nodes", "energy", "score", "count", "kills", "dead",
                    "zone", "radius", "dominance", "calm", "lastEnergy", "lastBots"}
    BY <1>1 DEF GameState
  <1>5. /\ h.dead = g.dead /\ h.score = g.score /\ h.cores = g.cores /\ h.dominance = g.dominance
        /\ h.bots = g.bots /\ h.count = g.count /\ h.kills = g.kills /\ h.turn = now
        /\ h.zone = g.zone /\ h.radius = g.radius
    BY <1>2, <1>4
  <1>6. h \in GameState
    BY <1>1, <1>2, <1>3 DEF GameState
  <1>7. \A c \in DOMAIN h.cores : h.cores[c].last <= h.turn
    <2>1. ASSUME NEW c \in DOMAIN g.cores PROVE g.cores[c].last <= now
      <3>1. g.cores \in Seq(CoreState)
        BY <1>1 DEF GameState
      <3>2. PICK x \in CoreState : x = g.cores[c]
        BY <3>1
      <3>3. x.last \in Nat /\ x.last <= g.turn
        BY <3>2 DEF CoreState, Board
      <3> QED BY <1>2, <1>3, <3>2, <3>3
    <2> QED BY <1>5, <2>1
  <1>8. Board(h)
    <2>1. Units(h) = Units(g) /\ Living(h) = Living(g) /\ \A p : LivingOf(h, p) = LivingOf(g, p)
      BY <1>5 DEF Units, Living, LivingOf
    <2> QED BY <1>5, <1>6, <1>7, <2>1 DEF Board
  <1>9. Ledger(g) => Ledger(h)
    BY <1>5 DEF Ledger, ActiveCores
  <1>10. RadiusKept(g) => RadiusKept(h)
    BY <1>5 DEF RadiusKept
  <1> QED BY <1>2, <1>5, <1>8, <1>9, <1>10

\* A turn is its phases, one after the other.
LEMMA TurnPhases ==
  ASSUME NEW g, NEW submissions, NEW e \in ExecuteTurn(g, submissions)
  PROVE  \E m \in submissions :
           e = CheckWinConditions(ExecuteEnergyTick(ExecuteSpawns(ExecuteCollection(
                 ExecuteCaptures(ExecuteZone(ExecuteCombat(
                   ExecuteMoves([g EXCEPT !.turn = @ + 1], m))))))))
  <1> DEFINE moved == {ExecuteMoves([g EXCEPT !.turn = @ + 1], m) : m \in submissions}
             fought == {ExecuteCombat(h) : h \in moved}
             zoned == {ExecuteZone(h) : h \in fought}
             captured == {ExecuteCaptures(h) : h \in zoned}
             collected == {ExecuteCollection(h) : h \in captured}
             spawned == {ExecuteSpawns(h) : h \in collected}
             ticked == {ExecuteEnergyTick(h) : h \in spawned}
  <1>1. ExecuteTurn(g, submissions) = {CheckWinConditions(h) : h \in ticked}
    BY DEF ExecuteTurn, After
  <1>2. PICK g8 \in ticked : e = CheckWinConditions(g8)
    <2> HIDE DEF ticked
    <2> QED BY <1>1
  <1>3. PICK g7 \in spawned : g8 = ExecuteEnergyTick(g7)
    <2> HIDE DEF spawned
    <2> QED OBVIOUS
  <1>4. PICK g6 \in collected : g7 = ExecuteSpawns(g6)
    <2> HIDE DEF collected
    <2> QED OBVIOUS
  <1>5. PICK g5 \in captured : g6 = ExecuteCollection(g5)
    <2> HIDE DEF captured
    <2> QED OBVIOUS
  <1>6. PICK g4 \in zoned : g5 = ExecuteCaptures(g4)
    <2> HIDE DEF zoned
    <2> QED OBVIOUS
  <1>7. PICK g3 \in fought : g4 = ExecuteZone(g3)
    <2> HIDE DEF fought
    <2> QED OBVIOUS
  <1>8. PICK g2 \in moved : g3 = ExecuteCombat(g2)
    <2> HIDE DEF moved
    <2> QED OBVIOUS
  <1>9. PICK m \in submissions : g2 = ExecuteMoves([g EXCEPT !.turn = @ + 1], m)
    OBVIOUS
  <1> QED BY <1>2, <1>3, <1>4, <1>5, <1>6, <1>7, <1>8, <1>9

\* The inductive invariant, of a game state and a result.
Sound(g, r) ==
  /\ Board(g)
  /\ Books(g, r)
  /\ RadiusKept(g)
  /\ ZoneEnabled /\ g.zone => Sheltered(g)
  /\ OneRuns(g)
  /\ Justified(g, r)
  /\ g.turn <= MaxTurns
  /\ g.turn = MaxTurns => r # NoResult

\* Before the storm starts, and inside it, nobody needs shelter.
LEMMA StageSheltered ==
  ASSUME NEW g, NEW h, h.bots = g.bots, h.radius = g.radius, Outside(g) = {}
  PROVE  Outside(h) = {} /\ Sheltered(h)
BY DEF Outside, Living, Units, Sheltered

\* ExecuteTurn, from the request to the result.
LEMMA TurnSound ==
  ASSUME NEW g, Sound(g, NoResult), g.turn < MaxTurns,
         NEW e \in ExecuteTurn(Request(g), Submissions(Request(g)))
  PROVE  Sound(e.g, e.result)
  <1>1. PICK q : q = Request(g)
    OBVIOUS
  <1>2. Board(g) /\ RadiusKept(g) /\ OneRuns(g) /\ g \in GameState /\ Books(g, NoResult)
    BY DEF Sound, Board
  <1>3. Ledger(g)
    <2>1. PICK n, a, k : n = Len(g.cores) /\ a = Cardinality(ActiveCores(g)) /\ k = KillScore * SumFunction(g.kills)
      OBVIOUS
    <2>2. n \in Nat /\ a \in Nat /\ k \in Int
      BY <1>2, <2>1, LedgerTerms
    <2>3. NoResult.reason # "elimination"
      BY DEF NoResult
    <2>4. SumFunction(g.score) = n + (n - a) + k + 0
      BY <1>2, <2>1, <2>3 DEF Books
    <2>5. SumFunction(g.score) = n + (n - a) + k
      BY <2>2, <2>4
    <2> QED BY <2>1, <2>5 DEF Ledger
  <1>4. Board(q) /\ Ledger(q) /\ RadiusKept(q) /\ q.turn = g.turn /\ q.dominance = g.dominance
    BY <1>1, <1>2, <1>3, RequestBoard
  <1>5. PICK m \in Submissions(q) :
           e = CheckWinConditions(ExecuteEnergyTick(ExecuteSpawns(ExecuteCollection(
                 ExecuteCaptures(ExecuteZone(ExecuteCombat(
                   ExecuteMoves([q EXCEPT !.turn = @ + 1], m))))))))
    BY <1>1, TurnPhases
  <1>6. PICK g1 : g1 = [q EXCEPT !.turn = @ + 1]
    OBVIOUS
  <1>7. PICK g2 : g2 = ExecuteMoves(g1, m)
    OBVIOUS
  <1>8. PICK g3 : g3 = ExecuteCombat(g2)
    OBVIOUS
  <1>9. PICK g4 : g4 = ExecuteZone(g3)
    OBVIOUS
  <1>10. PICK g5 : g5 = ExecuteCaptures(g4)
    OBVIOUS
  <1>11. PICK g6 : g6 = ExecuteCollection(g5)
    OBVIOUS
  <1>12. PICK g7 : g7 = ExecuteSpawns(g6)
    OBVIOUS
  <1>13. PICK g8 : g8 = ExecuteEnergyTick(g7)
    OBVIOUS
  <1>14. e = CheckWinConditions(g8)
    BY <1>5, <1>6, <1>7, <1>8, <1>9, <1>10, <1>11, <1>12, <1>13
  <1>15. Board(g1) /\ Ledger(g1) /\ RadiusKept(g1) /\ g1.turn = g.turn + 1 /\ g1.dominance = g.dominance
    BY <1>4, <1>6, ClockBoard
  <1>16. Board(g2) /\ Ledger(g2) /\ RadiusKept(g2) /\ g2.turn = g1.turn /\ g2.dominance = g1.dominance
    <2>1. \A b \in DOMAIN m : m[b] \in Dirs
      BY SubmissionsAreDirections
    <2>2. Board(g2) /\ BesidesUnits(g2) = BesidesUnits(g1)
      BY <1>7, <1>15, <2>1, MovesBoard
    <2>3. /\ g2.turn = g1.turn /\ g2.dominance = g1.dominance /\ g2.zone = g1.zone /\ g2.radius = g1.radius
          /\ g2.cores = g1.cores /\ g2.score = g1.score /\ g2.kills = g1.kills
      BY <2>2 DEF BesidesUnits
    <2>4. Ledger(g2)
      BY <1>15, <2>3 DEF Ledger, ActiveCores
    <2>5. RadiusKept(g2)
      BY <1>15, <2>3 DEF RadiusKept
    <2> QED BY <2>2, <2>3, <2>4, <2>5
  <1>17. Board(g3) /\ Ledger(g3) /\ Course(g3) = Course(g2)
    BY <1>8, <1>16, CombatBoard
  <1>18. RadiusKept(g3) /\ g3.turn = g2.turn /\ g3.dominance = g2.dominance
    BY <1>16, <1>17 DEF Course, RadiusKept
  <1>19. /\ Board(g4) /\ Ledger(g4) /\ RadiusKept(g4)
         /\ ZoneEnabled /\ g4.zone => Outside(g4) = {}
         /\ <<g4.turn, g4.zone, g4.dominance>> = <<g3.turn, g3.zone, g3.dominance>>
    BY <1>9, <1>17, <1>18, ZoneBoard
  <1>20. Board(g5) /\ Ledger(g5) /\ Course(g5) = Course(g4) /\ g5.bots = g4.bots
    BY <1>10, <1>19, CapturesBoard
  <1>21. Board(g6) /\ Ledger(g6) /\ Course(g6) = Course(g5) /\ g6.bots = g5.bots
    BY <1>11, <1>20, CollectionBoard
  <1>22. /\ Board(g7) /\ Ledger(g7) /\ Course(g7) = Course(g6)
         /\ Sheltered(g6) => Sheltered(g7)
    BY <1>12, <1>21, SpawnsBoard
  <1>23. Board(g8) /\ Ledger(g8) /\ Course(g8) = Course(g7) /\ g8.bots = g7.bots /\ g8.cores = g7.cores
    BY <1>13, <1>22, EnergyTickBoard
  <1>24. Course(g8) = Course(g4) /\ Course(g6) = Course(g4) /\ g6.bots = g4.bots
    BY <1>20, <1>21, <1>22, <1>23
  <1>25. /\ g8.turn = g4.turn /\ g8.zone = g4.zone /\ g8.radius = g4.radius /\ g8.dominance = g4.dominance
         /\ g6.radius = g4.radius /\ g8.turn = g7.turn /\ g8.radius = g7.radius
    BY <1>23, <1>24 DEF Course
  <1>26. ASSUME ZoneEnabled, g8.zone PROVE Sheltered(g8)
    <2>1. Outside(g4) = {}
      BY <1>19, <1>25, <1>26
    <2>2. Sheltered(g6)
      BY <1>24, <1>25, <2>1, StageSheltered
    <2>3. Sheltered(g7)
      BY <1>22, <2>2
    <2> QED BY <1>23, <1>25, <2>3 DEF Sheltered, Outside, Living, Units
  <1>27. RadiusKept(g8)
    BY <1>19, <1>25 DEF RadiusKept
  <1>28. OneRuns(g8)
    <2>1. g8.dominance = g.dominance
      BY <1>15, <1>16, <1>18, <1>19, <1>25
    <2> QED BY <1>2, <2>1 DEF OneRuns
  <1>29. g8.turn = g.turn + 1 /\ g.turn \in Nat
    <2>1. g8.turn = g.turn + 1
      BY <1>15, <1>16, <1>18, <1>19, <1>25
    <2> QED BY <1>2, <2>1 DEF GameState
  <1>30. /\ Board(e.g) /\ Stage(e.g) = Stage(g8) /\ OneRuns(e.g)
         /\ Books(e.g, e.result) /\ Justified(e.g, e.result)
         /\ g8.turn >= MaxTurns => e.result # NoResult
    BY <1>14, <1>23, <1>28, WinConditionsBoard
  <1>31. /\ e.g.turn = g8.turn /\ e.g.bots = g8.bots /\ e.g.cores = g8.cores
         /\ e.g.zone = g8.zone /\ e.g.radius = g8.radius
    BY <1>30 DEF Stage
  <1>32. ZoneEnabled /\ e.g.zone => Sheltered(e.g)
    BY <1>26, <1>31 DEF Sheltered, Outside, Living, Units
  <1>33. RadiusKept(e.g)
    BY <1>27, <1>31 DEF RadiusKept
  <1>34. e.g.turn <= MaxTurns /\ (e.g.turn = MaxTurns => e.result # NoResult)
    BY <1>29, <1>30, <1>31, GameConstants
  <1> QED BY <1>30, <1>32, <1>33, <1>34 DEF Sound

\* The match starts on a sound board: one unit and one point for each core.
LEMMA InitSound ==
  ASSUME Init
  PROVE  Sound(gs, NoResult)
  <1>1. PICK n : n = Len(CoreMap)
    OBVIOUS
  <1>2. n \in Nat /\ DOMAIN CoreMap = 1 .. n
    BY <1>1, GameConstants
  <1>3. ASSUME NEW c \in 1 .. n PROVE CoreMap[c].owner \in Players /\ CoreMap[c].pos \in Positions \ Walls
    <2>1. PICK X : X = [owner : Players, pos : Positions \ Walls]
      OBVIOUS
    <2>2. CoreMap \in Seq(X)
      BY <2>1, GameConstants
    <2>3. PICK x \in X : x = CoreMap[c]
      BY <1>1, <2>2
    <2> QED BY <2>1, <2>3
  <1>4. PICK part : part = [p \in Players |-> {c \in 1 .. n : CoreMap[c].owner = p}]
    OBVIOUS
  <1>5. PICK size : size = [p \in Players |-> Cardinality(part[p])]
    OBVIOUS
  <1>6. IsFiniteSet(1 .. n) /\ Cardinality(1 .. n) = n
    BY <1>2, FS_Interval
  <1>7. \A p \in Players : part[p] \in SUBSET (1 .. n) /\ size[p] = Cardinality(part[p]) /\ size[p] \in Nat
    BY <1>4, <1>5, <1>6, FS_Subset, FS_CardinalityType
  <1>8. PICK none : none = [p \in Players |-> 0]
    OBVIOUS
  <1>9. PICK bots : bots = [c \in 1 .. n |-> [owner |-> CoreMap[c].owner, pos |-> CoreMap[c].pos, alive |-> TRUE]]
    OBVIOUS
  <1>10. PICK cores : cores = [c \in 1 .. n |->
           [owner |-> CoreMap[c].owner, pos |-> CoreMap[c].pos, active |-> TRUE, last |-> 0]]
    OBVIOUS
  <1>11. PICK nodes : nodes = [k \in DOMAIN NodeMap |->
           [pos |-> NodeMap[k].pos, full |-> NodeMap[k].full, tick |-> 0]]
    OBVIOUS
  <1>12. PICK radius : radius = Min({Rows, Cols}) \div 2
    OBVIOUS
  <1>13. gs = [turn |-> 0, bots |-> bots, cores |-> cores, nodes |-> nodes, energy |-> none,
               score |-> size, count |-> size, kills |-> none, dead |-> {}, zone |-> FALSE,
               radius |-> radius, dominance |-> none, calm |-> 0, lastEnergy |-> 0, lastBots |-> 0]
    <2>1. size = [p \in Players |-> Cardinality({c \in DOMAIN CoreMap : CoreMap[c].owner = p})]
      BY <1>2, <1>4, <1>5
    <2> QED BY <1>2, <1>8, <1>9, <1>10, <1>11, <1>12, <2>1 DEF Init, SpawnBot
  <1>14. \A c \in 1 .. n : bots[c] \in UnitState /\ cores[c] \in CoreState
    <2>1. ASSUME NEW c \in 1 .. n PROVE bots[c] \in UnitState /\ cores[c] \in CoreState
      <3>1. PICK o \in Players, pos \in Positions \ Walls : o = CoreMap[c].owner /\ pos = CoreMap[c].pos
        BY <1>3
      <3>2. bots[c] = [owner |-> o, pos |-> pos, alive |-> TRUE]
        BY <1>9, <3>1
      <3>3. cores[c] = [owner |-> o, pos |-> pos, active |-> TRUE, last |-> 0]
        BY <1>10, <3>1
      <3> QED BY <3>2, <3>3 DEF UnitState, CoreState
    <2> QED BY <2>1
  <1>15. bots \in Seq(UnitState) /\ cores \in Seq(CoreState) /\ Len(cores) = n
    <2>1. bots \in [1 .. n -> UnitState] /\ cores \in [1 .. n -> CoreState]
      BY <1>9, <1>10, <1>14
    <2>2. bots \in Seq(UnitState) /\ cores \in Seq(CoreState)
      BY <1>2, <2>1
    <2>3. DOMAIN cores = 1 .. n
      BY <1>10
    <2> QED BY <1>2, <2>2, <2>3
  <1>16. nodes \in Seq(NodeState)
    <2>1. PICK l : l = Len(NodeMap)
      OBVIOUS
    <2>2. l \in Nat /\ DOMAIN NodeMap = 1 .. l
      BY <2>1, GameConstants
    <2>3. ASSUME NEW k \in 1 .. l PROVE nodes[k] \in NodeState
      <3> DEFINE X == [pos : Positions, full : BOOLEAN]
      <3>4. NodeMap \in Seq(X)
        BY GameConstants
      <3>1. PICK x \in X : x = NodeMap[k]
        <4> HIDE DEF X
        <4> QED BY <2>1, <3>4
      <3>2. nodes[k] = [pos |-> x.pos, full |-> x.full, tick |-> 0]
        BY <1>11, <2>2, <3>1
      <3>3. 0 \in 0 .. EnergyInterval - 1
        BY GameConstants
      <3> QED BY <3>1, <3>2, <3>3 DEF NodeState
    <2>4. nodes \in [1 .. l -> NodeState]
      BY <1>11, <2>2, <2>3
    <2> QED BY <2>2, <2>4
  <1>17. radius \in Int
    <2>1. PICK m : m = Min({Rows, Cols})
      OBVIOUS
    <2>2. Rows \in Int /\ Cols \in Int
      BY GameConstants
    <2>3. m \in {Rows, Cols}
      BY <2>1, <2>2, MinOfTwo
    <2> QED BY <1>12, <2>1, <2>2, <2>3
  <1>18. none \in [Players -> Nat] /\ size \in [Players -> Nat] /\ size \in [Players -> Int]
    BY <1>5, <1>7, <1>8
  <1>19. gs \in GameState
    BY <1>13, <1>15, <1>16, <1>17, <1>18 DEF GameState
  <1>20. /\ gs.bots = bots /\ gs.cores = cores /\ gs.count = size /\ gs.score = size /\ gs.kills = none
         /\ gs.dead = {} /\ gs.turn = 0 /\ gs.zone = FALSE /\ gs.dominance = none
    BY <1>13
  <1>21. Units(gs) = 1 .. n /\ Living(gs) = 1 .. n /\ \A c \in 1 .. n : gs.bots[c].owner = CoreMap[c].owner
    <2>1. Units(gs) = 1 .. n
      BY <1>9, <1>20 DEF Units
    <2>2. \A c \in 1 .. n : gs.bots[c].alive /\ gs.bots[c].owner = CoreMap[c].owner
      BY <1>9, <1>20
    <2> QED BY <2>1, <2>2 DEF Living
  <1>22. Board(gs)
    <2>1. ASSUME NEW p \in Players PROVE gs.count[p] = Cardinality(LivingOf(gs, p))
      <3>1. LivingOf(gs, p) = part[p]
        BY <1>4, <1>21 DEF LivingOf
      <3> QED BY <1>7, <1>20, <3>1
    <2>2. ASSUME NEW c \in DOMAIN gs.cores PROVE gs.cores[c].last <= gs.turn
      BY <1>10, <1>20
    <2> QED BY <1>19, <1>20, <2>1, <2>2 DEF Board
  <1>23. Ledger(gs)
    <2>1. SumFunctionOnSet(size, Players) = n
      <3>1. \A p \in Players : part[p] \in SUBSET (1 .. n) /\ size[p] = Cardinality(part[p])
        BY <1>7
      <3>2. \A c \in 1 .. n : \E p \in Players : c \in part[p]
        BY <1>3, <1>4
      <3>3. \A p, q \in Players : p # q => part[p] \intersect part[q] = {}
        BY <1>4
      <3>4. PICK C : C = 1 .. n
        OBVIOUS
      <3>5. \A p \in Players : part[p] \in SUBSET C /\ size[p] = Cardinality(part[p])
        BY <3>1, <3>4
      <3>6. \A c \in C : \E p \in Players : c \in part[p]
        BY <3>2, <3>4
      <3>7. IsFiniteSet(C) /\ Cardinality(C) = n
        BY <1>6, <3>4
      <3>8. IsFiniteSet(C) /\ IsFiniteSet(Players)
        BY <3>7, PlayersAreFinite
      <3>9. SumFunctionOnSet(size, Players) = Cardinality(C)
        BY <3>3, <3>5, <3>6, <3>8, SumOfParts
      <3> QED BY <3>7, <3>9
    <2>2. SumFunctionOnSet(none, Players) = 0
      <3>1. 0 \in Players
        BY GameConstants DEF Players
      <3>2. PICK zero \in Int : zero = 0
        OBVIOUS
      <3>3. \A p \in Players : none[p] = IF p = 0 THEN zero ELSE 0
        BY <1>8, <3>2
      <3>4. SumFunctionOnSet(none, Players) = zero
        BY <3>1, <3>3, PlayersAreFinite, SumOfPoint
      <3> QED BY <3>2, <3>4
    <2>3. ActiveCores(gs) = 1 .. n
      BY <1>10, <1>20 DEF ActiveCores
    <2>4. DOMAIN size = Players /\ DOMAIN none = Players
      BY <1>5, <1>8
    <2>5. SumFunction(gs.score) = n /\ SumFunction(gs.kills) = 0
      BY <1>20, <2>1, <2>2, <2>4 DEF SumFunction
    <2>6. KillScore * 0 = 0 /\ n = n + (n - n) + 0
      BY <1>2, GameConstants
    <2>7. Len(gs.cores) = n /\ Cardinality(ActiveCores(gs)) = n
      BY <1>6, <1>15, <1>20, <2>3
    <2> QED BY <2>5, <2>6, <2>7 DEF Ledger
  <1>24. NoResult.reason = "none"
    BY DEF NoResult
  <1>25. Books(gs, NoResult)
    BY <1>19, <1>23, <1>24, LedgerBooks
  <1>26. Justified(gs, NoResult)
    <2>1. LivingPlayers(gs) = Players
      <3>1. \A p \in Players : \E c \in 1 .. n : CoreMap[c].owner = p
        BY <1>2, GameConstants
      <3> QED BY <1>3, <1>21, <3>1 DEF LivingPlayers
    <2>2. Cardinality(LivingPlayers(gs)) > 1
      BY <2>1, PlayersAreFinite, GameConstants
    <2> QED BY <1>24, <2>2 DEF Justified
  <1>27. OneRuns(gs)
    BY <1>8, <1>20 DEF OneRuns
  <1>28. RadiusKept(gs) /\ (ZoneEnabled /\ gs.zone => Sheltered(gs))
    BY <1>20 DEF RadiusKept
  <1>29. gs.turn <= MaxTurns /\ gs.turn # MaxTurns
    BY <1>20, GameConstants
  <1> QED BY <1>22, <1>25, <1>26, <1>27, <1>28, <1>29 DEF Sound

\* The invariant that a turn keeps: the board, the books and the result agree.
TurnInv == Sound(gs, result)

\* Every turn keeps it: the phases one after the other, then the result.
LEMMA TurnInvariance == Spec => []TurnInv
  <1>1. Init => TurnInv
    <2>1. ASSUME Init PROVE TurnInv
      <3>1. result = NoResult
        BY <2>1 DEF Init
      <3>2. Sound(gs, NoResult)
        BY <2>1, InitSound
      <3> QED BY <3>1, <3>2 DEF TurnInv
    <2> QED BY <2>1
  <1>2. TurnInv /\ [Next]_vars => TurnInv'
    <2> SUFFICES ASSUME TurnInv, [Next]_vars PROVE TurnInv'
      OBVIOUS
    <2>1. CASE RunTurn
      <3>1. result = NoResult /\ gs.turn < MaxTurns
        BY <2>1 DEF RunTurn
      <3>2. PICK e \in ExecuteTurn(Request(gs), Submissions(Request(gs))) : gs' = e.g /\ result' = e.result
        BY <2>1 DEF RunTurn
      <3>3. Sound(gs, NoResult)
        BY <3>1 DEF TurnInv
      <3>4. Sound(e.g, e.result)
        BY <3>1, <3>3, TurnSound
      <3>5. TurnInv' <=> Sound(gs', result')
        BY DEF TurnInv, Sound, Board, Books, RadiusKept, Sheltered, OneRuns, Justified,
               Units, LivingOf, Living, ActiveCores, Outside, LivingPlayers, Dominates, Beats
      <3> QED BY <3>2, <3>4, <3>5
    <2>2. CASE UNCHANGED vars
      BY <2>2 DEF vars, TurnInv, Sound, Board, Books, RadiusKept, Sheltered, OneRuns, Justified,
               Units, LivingOf, Living, ActiveCores, Outside, LivingPlayers, Dominates, Beats
    <2> QED BY <2>1, <2>2 DEF Next
  <1> QED BY <1>1, <1>2, PTL DEF Spec

\* On every board, for any number of players, units, cores and energy nodes,
\* after every turn of ExecuteTurn: the game state keeps its type, BotCount is
\* the number of living units, and a unit outside the storm has just spawned.
THEOREM BoardSoundness == Spec => []BoardIsSound
  <1>1. TurnInv => BoardIsSound
    <2> SUFFICES ASSUME TurnInv PROVE BoardIsSound
      OBVIOUS
    <2>1. /\ Board(gs) /\ RadiusKept(gs) /\ (ZoneEnabled /\ gs.zone => Sheltered(gs))
          /\ gs.turn <= MaxTurns /\ (gs.turn = MaxTurns => result # NoResult)
      BY DEF TurnInv, Sound
    <2>2. gs \in GameState
      BY <2>1 DEF Board
    <2>3. gs.turn \in 0 .. MaxTurns
      BY <2>1, <2>2, GameConstants DEF GameState
    <2>4. gs.bots \in Seq([owner : Players, pos : Positions \ Walls, alive : BOOLEAN])
      BY <2>2 DEF GameState, UnitState
    <2>5. ASSUME NEW c \in DOMAIN gs.cores PROVE gs.cores[c].last \in 0 .. gs.turn
      <3>1. gs.cores \in Seq(CoreState) /\ gs.turn \in Nat
        BY <2>2 DEF GameState
      <3>2. PICK x \in CoreState : x = gs.cores[c]
        BY <3>1
      <3>3. x.last \in Nat /\ x.last <= gs.turn
        BY <2>1, <3>2 DEF CoreState, Board
      <3> QED BY <3>1, <3>2, <3>3
    <2>6. ASSUME NEW n \in DOMAIN gs.nodes PROVE gs.nodes[n].tick \in 0 .. EnergyInterval - 1
      <3>1. gs.nodes \in Seq(NodeState)
        BY <2>2 DEF GameState
      <3>2. PICK x \in NodeState : x = gs.nodes[n]
        BY <3>1
      <3> QED BY <3>2 DEF NodeState
    <2>7. /\ gs.energy \in [Players -> Nat] /\ gs.score \in [Players -> Int] /\ gs.count \in [Players -> Nat]
      BY <2>2 DEF GameState
    <2>8. gs.dead \subseteq Units(gs) /\ UnitCounts
      BY <2>1 DEF Board, UnitCounts
    <2>9. TypeOK
      BY <2>1, <2>3, <2>4, <2>5, <2>6, <2>7, <2>8 DEF TypeOK
    <2>10. StormClears
      BY <2>1 DEF StormClears, RadiusKept, Sheltered
    <2> QED BY <2>8, <2>9, <2>10 DEF BoardIsSound
  <1> QED BY <1>1, TurnInvariance, PTL

\* The scores of all players together are accounted for, core by core and kill
\* by kill, whatever the phases paid to whom (captures, combat, elimination).
THEOREM LedgerBalances == Spec => []ScoreLedger
  <1>1. TurnInv => ScoreLedger
    BY DEF TurnInv, Sound, Books, ScoreLedger, ActiveCores
  <1> QED BY <1>1, TurnInvariance, PTL

\* A result is what the board says: checkWinConditions names the sole survivor,
\* a player with 80% of the units or a player nobody beats, and no two players
\* are counted as dominant at once.
THEOREM OutcomesJustified == Spec => []OutcomeJustified
  <1>1. TurnInv => ResultJustified
    BY DEF TurnInv, Sound, Justified, ResultJustified
  <1>2. TurnInv => OneDominates
    BY DEF TurnInv, Sound, OneRuns, OneDominates
  <1>3. TurnInv => OutcomeJustified
    BY <1>1, <1>2 DEF OutcomeJustified
  <1> QED BY <1>3, TurnInvariance, PTL

=============================================================================
