---------------------------- MODULE LedgerProofs ----------------------------
(***************************************************************************)
(* The shadow ledger, and the offline runtime that keeps one, for any      *)
(* instruments, keys, quotes, fixture, limits and number of faults.        *)
(*                                                                         *)
(* The ledger first: sums over finite sets, the types of a ledger, the     *)
(* loop of observe_quote over the orders one turn at a time, what each     *)
(* call leaves, and the two invariants of LedgerSpec.  Then the runtime:   *)
(* a ledger fed by the replay, the room the risk rules leave, and an       *)
(* inductive invariant that says, at every await, how far the journal, the *)
(* snapshot and the process have come.  Last the clock, which a restart    *)
(* has to find between two groups of the fixture.                          *)
(*                                                                         *)
(* The provers have no induction over data, so the loop and the sums go by *)
(* a least counterexample (LeastNumber).                                   *)
(***************************************************************************)
EXTENDS ShadowLedger, OfflineRuntime, FiniteSetTheorems, WellFoundedInduction,
        SequenceTheorems, TLAPS

-----------------------------------------------------------------------------
\* Sums over finite sets

\* Every nonempty set of numbers has a least one: induction, for want of an induction rule.
LEMMA LeastNumber ==
    ASSUME NEW S \in SUBSET Nat, S # {}
    PROVE  \E x \in S : \A y \in S : x <= y
  <1>1. PICK x \in S : \A y \in S : ~(<<y, x>> \in OpToRel(<, Nat))
    BY NatLessThanWellFounded, WFMin
  <1>2. \A y \in S : ~(y < x)
    BY <1>1, Zenon DEF OpToRel
  <1>. QED  BY <1>2

\* A measure of the parts of D: the weight of a part is that of any of its elements and
\* of the rest.
Measure(f, D, m) ==
    /\ m \in [SUBSET D -> Int] /\ m[{}] = 0
    /\ \A s \in SUBSET D : \A x \in s : m[s] = f[x] + m[s \ {x}]

LEMMA MeasureGrows ==
    ASSUME NEW D, NEW x, x \notin D, NEW f, f[x] \in Int, \A y \in D : f[y] \in Int,
           NEW m, Measure(f, D, m)
    PROVE  \E n : Measure(f, D \union {x}, n)
  <1> DEFINE n == [s \in SUBSET (D \union {x}) |->
                     IF x \in s THEN f[x] + m[s \ {x}] ELSE m[s]]
  <1>1. \A s \in SUBSET (D \union {x}) : s \ {x} \in SUBSET D /\ (x \notin s => s \in SUBSET D)
    OBVIOUS
  <1>2. n \in [SUBSET (D \union {x}) -> Int]
    BY <1>1 DEF Measure
  <1>3. n[{}] = 0
    BY DEF Measure
  <1>4. ASSUME NEW s \in SUBSET (D \union {x}), NEW y \in s
        PROVE  n[s] = f[y] + n[s \ {y}]
    <2>0. s \ {y} \in SUBSET (D \union {x}) /\ f[y] \in Int
      OBVIOUS
    <2>1. CASE y = x
      BY <2>0, <2>1
    <2>2. CASE y # x /\ x \in s
      <3>1. s \ {x} \in SUBSET D /\ y \in s \ {x} /\ (s \ {x}) \ {y} = (s \ {y}) \ {x}
            /\ (s \ {x}) \ {y} \in SUBSET D
        BY <2>2
      <3>2. m[s \ {x}] = f[y] + m[(s \ {x}) \ {y}] /\ m[(s \ {x}) \ {y}] \in Int
        BY <3>1 DEF Measure
      <3>3. n[s] = f[x] + m[s \ {x}] /\ n[s \ {y}] = f[x] + m[(s \ {y}) \ {x}]
        BY <2>0, <2>2
      <3>4. m[(s \ {y}) \ {x}] = m[(s \ {x}) \ {y}] /\ f[x] \in Int /\ f[y] \in Int
        BY <2>0, <3>1
      <3> DEFINE u == m[(s \ {x}) \ {y}]
                 v == n[s]
                 w == n[s \ {y}]
      <3>5. v = f[x] + (f[y] + u) /\ w = f[x] + u /\ u \in Int
        BY <3>2, <3>3, <3>4
      <3> HIDE DEF n, u, v, w
      <3>6. v = f[y] + w
        BY <3>4, <3>5
      <3>. QED  BY <3>6 DEF v, w
    <2>3. CASE y # x /\ x \notin s
      <3>1. s \in SUBSET D /\ s \ {y} \in SUBSET D /\ x \notin s \ {y}
        BY <2>3
      <3>. QED  BY <2>0, <2>3, <3>1 DEF Measure
    <2>. QED  BY <2>1, <2>2, <2>3
  <1> HIDE DEF n
  <1>5. Measure(f, D \union {x}, n)
    BY <1>2, <1>3, <1>4 DEF Measure
  <1>. QED  BY <1>5

\* Every function from a finite set to the integers has one.
LEMMA MeasureExists ==
    ASSUME NEW D, IsFiniteSet(D), NEW f \in [D -> Int]
    PROVE  \E m : Measure(f, D, m)
  <1> DEFINE Bad == {c \in Nat : \E s \in SUBSET D : Cardinality(s) = c /\ ~\E m : Measure(f, s, m)}
  <1>1. SUFFICES Bad = {}
    <2>1. Cardinality(D) \in Nat
      BY FS_CardinalityType
    <2>2. Cardinality(D) \notin Bad
      BY <1>1
    <2>. QED  BY <2>1, <2>2
  <1>2. SUFFICES ASSUME Bad # {} PROVE FALSE
    OBVIOUS
  <1>3. PICK c \in Bad : \A d \in Bad : c <= d
    <2>1. Bad \in SUBSET Nat
      OBVIOUS
    <2> HIDE DEF Bad
    <2>. QED  BY <1>2, <2>1, LeastNumber
  <1>4. PICK s \in SUBSET D : Cardinality(s) = c /\ ~\E m : Measure(f, s, m)
    BY <1>3
  <1>5. IsFiniteSet(s)
    BY FS_Subset
  <1>6. CASE s = {}
    <2> DEFINE m == [t \in {{}} |-> 0]
    <2>1. SUBSET {} = {{}}
      OBVIOUS
    <2>2. m \in [SUBSET {} -> Int] /\ m[{}] = 0
      BY <2>1
    <2>3. Measure(f, {}, m)
      BY <2>2 DEF Measure
    <2>. QED  BY <1>4, <1>6, <2>3
  <1>7. CASE s # {}
    <2>1. PICK x \in s : TRUE
      BY <1>7
    <2>2. /\ s \ {x} \in SUBSET D /\ x \notin s \ {x} /\ (s \ {x}) \union {x} = s
      OBVIOUS
    <2>3. Cardinality(s \ {x}) = c - 1 /\ Cardinality(s \ {x}) \in Nat
      BY <1>4, <1>5, <2>1, FS_RemoveElement, FS_CardinalityType
    <2>4. c - 1 \notin Bad
      BY <1>3, <2>3
    <2>5. \E m : Measure(f, s \ {x}, m)
      BY <2>2, <2>3, <2>4
    <2>6. f[x] \in Int /\ \A y \in s \ {x} : f[y] \in Int
      OBVIOUS
    <2>. QED  BY <1>4, <2>2, <2>5, <2>6, MeasureGrows
  <1>. QED  BY <1>6, <1>7

\* Total, a fold that takes the elements in an arbitrary order, is that measure.
LEMMA TotalIsMeasure ==
    ASSUME NEW D, IsFiniteSet(D), NEW f \in [D -> Int], NEW m, Measure(f, D, m)
    PROVE  Total(f) = m[D]
  <1> DEFINE Pick(s) == CHOOSE x \in s : TRUE
             Part(g) == g = [s \in SUBSET D |-> IF s = {} THEN 0 ELSE f[Pick(s)] + g[s \ {Pick(s)}]]
             iter == CHOOSE g : Part(g)
  <1>1. Total(f) = iter[D]
    BY DEF Total, MapThenSumSet, MapThenFoldSet
  <1>2. \A s \in SUBSET D : s # {} => Pick(s) \in s
    OBVIOUS
  <1> HIDE DEF Pick
  <1>3. Part(m)
    <2>1. \A s \in SUBSET D : m[s] = IF s = {} THEN 0 ELSE f[Pick(s)] + m[s \ {Pick(s)}]
      BY <1>2 DEF Measure
    <2>2. m = [s \in SUBSET D |-> m[s]]
      BY DEF Measure
    <2>. QED  BY <2>1, <2>2, Zenon
  <1>4. Part(iter)
    BY <1>3, Zenon
  <1> HIDE DEF iter
  <1>5. \A s \in SUBSET D : iter[s] = IF s = {} THEN 0 ELSE f[Pick(s)] + iter[s \ {Pick(s)}]
    BY <1>4
  <1> DEFINE Bad == {c \in Nat : \E s \in SUBSET D : Cardinality(s) = c /\ iter[s] # m[s]}
  <1>6. SUFFICES Bad = {}
    <2>1. Cardinality(D) \in Nat /\ D \in SUBSET D
      BY FS_CardinalityType
    <2>2. Cardinality(D) \notin Bad
      BY <1>6
    <2>. QED  BY <1>1, <2>1, <2>2
  <1>7. SUFFICES ASSUME Bad # {} PROVE FALSE
    OBVIOUS
  <1>8. PICK c \in Bad : \A d \in Bad : c <= d
    <2>1. Bad \in SUBSET Nat
      OBVIOUS
    <2> HIDE DEF Bad
    <2>. QED  BY <1>7, <2>1, LeastNumber
  <1>9. PICK s \in SUBSET D : Cardinality(s) = c /\ iter[s] # m[s]
    BY <1>8
  <1>10. s # {}
    BY <1>5, <1>9 DEF Measure
  <1>11. Pick(s) \in s /\ s \ {Pick(s)} \in SUBSET D
    BY <1>2, <1>10
  <1>12. Cardinality(s \ {Pick(s)}) = c - 1 /\ Cardinality(s \ {Pick(s)}) \in Nat
    BY <1>9, <1>11, FS_Subset, FS_RemoveElement, FS_CardinalityType
  <1>13. c - 1 \notin Bad
    BY <1>8, <1>12
  <1>14. iter[s \ {Pick(s)}] = m[s \ {Pick(s)}]
    BY <1>11, <1>12, <1>13
  <1>. QED  BY <1>5, <1>9, <1>10, <1>11, <1>14 DEF Measure

LEMMA TotalEmpty ==
    ASSUME NEW f \in [{} -> Int] PROVE Total(f) = 0
  <1>1. IsFiniteSet({})
    BY FS_EmptySet
  <1>2. PICK m : Measure(f, {}, m)
    BY <1>1, MeasureExists
  <1>. QED  BY <1>1, <1>2, TotalIsMeasure DEF Measure

\* One term of a sum, and the rest.
LEMMA TotalRemove ==
    ASSUME NEW D, IsFiniteSet(D), NEW f \in [D -> Int], NEW x \in D
    PROVE  /\ Total(f) \in Int /\ Total([y \in D \ {x} |-> f[y]]) \in Int
           /\ Total(f) = f[x] + Total([y \in D \ {x} |-> f[y]])
  <1> DEFINE E == D \ {x}
             g == [y \in E |-> f[y]]
  <1>1. PICK m : Measure(f, D, m)
    BY MeasureExists
  <1>2. Total(f) = m[D]
    BY <1>1, TotalIsMeasure
  <1>3. IsFiniteSet(E) /\ E \in SUBSET D /\ D \in SUBSET D
    BY FS_Subset
  <1>4. g \in [E -> Int]
    OBVIOUS
  <1> DEFINE n == [s \in SUBSET E |-> m[s]]
  <1>5. Measure(g, E, n)
    <2>1. \A s \in SUBSET E : s \in SUBSET D /\ n[s] = m[s] /\ \A y \in s : g[y] = f[y]
      OBVIOUS
    <2>2. n \in [SUBSET E -> Int] /\ n[{}] = 0
      BY <1>1, <2>1 DEF Measure
    <2>3. ASSUME NEW s \in SUBSET E, NEW y \in s PROVE n[s] = g[y] + n[s \ {y}]
      <3>1. s \ {y} \in SUBSET E
        OBVIOUS
      <3> HIDE DEF n, g
      <3>. QED  BY <1>1, <2>1, <3>1 DEF Measure
    <2> HIDE DEF n, g
    <2>. QED  BY <2>2, <2>3 DEF Measure
  <1>6. Total(g) = m[E]
    <2>1. Total(g) = n[E]
      <3> HIDE DEF g, n, E
      <3>. QED  BY <1>3, <1>4, <1>5, TotalIsMeasure
    <2>. QED  BY <2>1
  <1>7. m[D] = f[x] + m[E] /\ m[D] \in Int /\ m[E] \in Int
    BY <1>1, <1>3 DEF Measure
  <1>. QED  BY <1>2, <1>6, <1>7

LEMMA TotalType ==
    ASSUME NEW D, IsFiniteSet(D), NEW f \in [D -> Int]
    PROVE  Total(f) \in Int
  <1>1. CASE D = {}
    <2>1. f \in [{} -> Int]
      BY <1>1
    <2>2. Total(f) = 0
      BY <2>1, TotalEmpty, Zenon
    <2>. QED  BY <2>2
  <1>2. CASE D # {}
    BY <1>2, TotalRemove
  <1>. QED  BY <1>1, <1>2

LEMMA TotalUpdate ==
    ASSUME NEW D, IsFiniteSet(D), NEW f \in [D -> Int], NEW g \in [D -> Int], NEW x \in D,
           \A y \in D \ {x} : g[y] = f[y]
    PROVE  Total(g) = Total(f) - f[x] + g[x]
  <1>1. [y \in D \ {x} |-> f[y]] = [y \in D \ {x} |-> g[y]]
    OBVIOUS
  <1>2. /\ Total(f) = f[x] + Total([y \in D \ {x} |-> f[y]])
        /\ Total(g) = g[x] + Total([y \in D \ {x} |-> g[y]])
        /\ Total(f) \in Int /\ Total(g) \in Int /\ Total([y \in D \ {x} |-> f[y]]) \in Int
    BY TotalRemove
  <1>3. f[x] \in Int /\ g[x] \in Int
    OBVIOUS
  <1>. QED  BY <1>1, <1>2, <1>3

LEMMA TotalExtend ==
    ASSUME NEW E, IsFiniteSet(E), NEW x \in E, NEW g \in [E -> Int],
           NEW D, x \notin D, \A y \in D : y \in E, \A y \in E : y = x \/ y \in D,
           NEW f \in [D -> Int], \A y \in D : g[y] = f[y]
    PROVE  Total(g) = Total(f) + g[x]
  <1>1. E \ {x} = D
    OBVIOUS
  <1>2. [y \in E \ {x} |-> g[y]] = f
    BY <1>1
  <1>3. Total(g) = g[x] + Total(f) /\ Total(f) \in Int
    BY <1>2, TotalRemove
  <1>. QED  BY <1>3

\* Sums compare as their terms do.
LEMMA TotalMonotone ==
    ASSUME NEW D, IsFiniteSet(D), NEW f \in [D -> Int], NEW g \in [D -> Int],
           \A x \in D : f[x] <= g[x]
    PROVE  Total(f) <= Total(g)
  <1>1. PICK m : Measure(f, D, m)
    BY MeasureExists
  <1>2. PICK n : Measure(g, D, n)
    BY MeasureExists
  <1>3. Total(f) = m[D] /\ Total(g) = n[D]
    BY <1>1, <1>2, TotalIsMeasure
  <1> DEFINE Bad == {c \in Nat : \E s \in SUBSET D : Cardinality(s) = c /\ ~(m[s] <= n[s])}
  <1>4. SUFFICES Bad = {}
    <2>1. Cardinality(D) \in Nat /\ D \in SUBSET D
      BY FS_CardinalityType
    <2>2. Cardinality(D) \notin Bad
      BY <1>4
    <2>. QED  BY <1>3, <2>1, <2>2
  <1>5. SUFFICES ASSUME Bad # {} PROVE FALSE
    OBVIOUS
  <1>6. PICK c \in Bad : \A d \in Bad : c <= d
    <2>1. Bad \in SUBSET Nat
      OBVIOUS
    <2> HIDE DEF Bad
    <2>. QED  BY <1>5, <2>1, LeastNumber
  <1>7. PICK s \in SUBSET D : Cardinality(s) = c /\ ~(m[s] <= n[s])
    BY <1>6
  <1>8. PICK x \in s : TRUE
    <2>1. m[{}] = 0 /\ n[{}] = 0
      BY <1>1, <1>2 DEF Measure
    <2>2. m[{}] <= n[{}]
      BY <2>1
    <2>3. s # {}
      BY <1>7, <2>2
    <2>. QED  BY <2>3
  <1>9. s \ {x} \in SUBSET D /\ x \in D
    OBVIOUS
  <1>10. Cardinality(s \ {x}) = c - 1 /\ Cardinality(s \ {x}) \in Nat
    BY <1>7, <1>8, FS_Subset, FS_RemoveElement, FS_CardinalityType
  <1>11. m[s \ {x}] <= n[s \ {x}]
    <2>1. c - 1 \notin Bad
      BY <1>6, <1>10
    <2>. QED  BY <1>9, <1>10, <2>1
  <1>12. /\ m[s] = f[x] + m[s \ {x}] /\ n[s] = g[x] + n[s \ {x}]
         /\ m[s \ {x}] \in Int /\ n[s \ {x}] \in Int
    BY <1>1, <1>2, <1>8, <1>9 DEF Measure
  <1>13. f[x] \in Int /\ g[x] \in Int /\ f[x] <= g[x]
    BY <1>9
  <1>. QED  BY <1>7, <1>11, <1>12, <1>13

LEMMA TotalZero ==
    ASSUME NEW D, IsFiniteSet(D), NEW f \in [D -> Int], \A x \in D : f[x] = 0
    PROVE  Total(f) = 0
  <1> DEFINE m == [s \in SUBSET D |-> 0]
  <1>1. Measure(f, D, m)
    BY DEF Measure
  <1>2. m[D] = 0
    OBVIOUS
  <1> HIDE DEF m
  <1>. QED  BY <1>1, <1>2, TotalIsMeasure

\* A sum of what is not negative is no less than any of its terms.
LEMMA TotalNonnegative ==
    ASSUME NEW D, IsFiniteSet(D), NEW f \in [D -> Int], \A x \in D : 0 <= f[x]
    PROVE  Total(f) \in Nat /\ \A x \in D : f[x] <= Total(f)
  <1>1. ASSUME NEW E, IsFiniteSet(E), NEW g \in [E -> Int], \A x \in E : 0 <= g[x]
        PROVE  Total(g) \in Nat
    <2> DEFINE z == [x \in E |-> 0]
    <2>1. z \in [E -> Int] /\ \A x \in E : z[x] = 0
      OBVIOUS
    <2> HIDE DEF z
    <2>2. Total(z) = 0
      BY <1>1, <2>1, TotalZero
    <2>3. Total(z) <= Total(g) /\ Total(g) \in Int
      BY <1>1, <2>1, TotalMonotone, TotalType
    <2>. QED  BY <2>2, <2>3
  <1>2. ASSUME NEW x \in D PROVE f[x] <= Total(f)
    <2> DEFINE g == [y \in D \ {x} |-> f[y]]
    <2>1. IsFiniteSet(D \ {x}) /\ g \in [D \ {x} -> Int] /\ \A y \in D \ {x} : 0 <= g[y]
      BY FS_Subset
    <2>2. Total(f) = f[x] + Total(g)
      BY TotalRemove
    <2> HIDE DEF g
    <2>3. Total(g) \in Nat
      BY <1>1, <2>1
    <2>. QED  BY <2>2, <2>3
  <1>. QED  BY <1>1, <1>2

\* Sums add up term by term.
LEMMA TotalAdd ==
    ASSUME NEW D, IsFiniteSet(D), NEW f \in [D -> Int], NEW g \in [D -> Int],
           NEW h \in [D -> Int], \A x \in D : h[x] = f[x] + g[x]
    PROVE  Total(h) = Total(f) + Total(g)
  <1>1. PICK m : Measure(f, D, m)
    BY MeasureExists
  <1>2. PICK n : Measure(g, D, n)
    BY MeasureExists
  <1> DEFINE u == [s \in SUBSET D |-> m[s] + n[s]]
  <1>3. Measure(h, D, u)
    <2>1. m \in [SUBSET D -> Int] /\ n \in [SUBSET D -> Int] /\ m[{}] = 0 /\ n[{}] = 0
      BY <1>1, <1>2 DEF Measure
    <2>2. u \in [SUBSET D -> Int] /\ u[{}] = 0
      BY <2>1
    <2>3. ASSUME NEW s \in SUBSET D, NEW x \in s
          PROVE  u[s] = h[x] + u[s \ {x}]
      <3>1. s \ {x} \in SUBSET D /\ x \in D
        OBVIOUS
      <3>2. /\ m[s] = f[x] + m[s \ {x}] /\ n[s] = g[x] + n[s \ {x}]
            /\ m[s \ {x}] \in Int /\ n[s \ {x}] \in Int
        BY <1>1, <1>2, <2>1, <3>1 DEF Measure
      <3>3. f[x] \in Int /\ g[x] \in Int /\ h[x] = f[x] + g[x]
        BY <3>1
      <3>4. u[s] = m[s] + n[s] /\ u[s \ {x}] = m[s \ {x}] + n[s \ {x}]
        BY <3>1
      <3> HIDE DEF u
      <3>. QED  BY <3>2, <3>3, <3>4
    <2> HIDE DEF u
    <2>. QED  BY <2>2, <2>3 DEF Measure
  <1>4. u[D] = m[D] + n[D]
    OBVIOUS
  <1> HIDE DEF u
  <1>5. Total(f) = m[D] /\ Total(g) = n[D] /\ Total(h) = u[D]
    BY <1>1, <1>2, <1>3, TotalIsMeasure
  <1>. QED  BY <1>4, <1>5

\* Terms that are 0 may be left out of a sum.
LEMMA TotalOn ==
    ASSUME NEW D, IsFiniteSet(D), NEW E, E \subseteq D,
           NEW f \in [D -> Int], \A x \in D \ E : f[x] = 0,
           NEW g \in [E -> Int], \A x \in E : g[x] = f[x]
    PROVE  Total(f) = Total(g)
  <1>1. IsFiniteSet(E)
    BY FS_Subset
  <1>2. PICK n : Measure(g, E, n)
    BY <1>1, MeasureExists
  <1> DEFINE m == [s \in SUBSET D |-> n[s \cap E]]
  <1>3. Measure(f, D, m)
    <2>1. \A s \in SUBSET D : s \cap E \in SUBSET E
      OBVIOUS
    <2>2. m \in [SUBSET D -> Int]
      BY <1>2, <2>1 DEF Measure
    <2>3. m[{}] = 0
      <3>1. {} \cap E = {}
        OBVIOUS
      <3>. QED  BY <1>2, <3>1 DEF Measure
    <2>4. ASSUME NEW s \in SUBSET D, NEW x \in s
          PROVE  m[s] = f[x] + m[s \ {x}]
      <3>1. s \ {x} \in SUBSET D /\ x \in D /\ s \cap E \in SUBSET E
        OBVIOUS
      <3>2. m[s] = n[s \cap E] /\ m[s \ {x}] = n[(s \ {x}) \cap E]
        BY <3>1
      <3> HIDE DEF m
      <3>3. n[s \cap E] \in Int
        BY <1>2, <3>1 DEF Measure
      <3>4. CASE x \in E
        <4>1. (s \ {x}) \cap E = (s \cap E) \ {x} /\ x \in s \cap E /\ g[x] = f[x]
          BY <3>4
        <4>2. n[s \cap E] = g[x] + n[(s \cap E) \ {x}]
          BY <1>2, <3>1, <4>1 DEF Measure
        <4>. QED  BY <3>2, <4>1, <4>2
      <3>5. CASE x \notin E
        <4>1. (s \ {x}) \cap E = s \cap E /\ f[x] = 0
          BY <3>1, <3>5
        <4>. QED  BY <3>2, <3>3, <4>1
      <3>. QED  BY <3>4, <3>5
    <2> HIDE DEF m
    <2>. QED  BY <2>2, <2>3, <2>4 DEF Measure
  <1>4. m[D] = n[E]
    <2>1. D \cap E = E
      OBVIOUS
    <2>. QED  BY <2>1
  <1> HIDE DEF m
  <1>5. Total(f) = m[D] /\ Total(g) = n[E]
    BY <1>1, <1>2, <1>3, TotalIsMeasure
  <1>. QED  BY <1>4, <1>5

-----------------------------------------------------------------------------
\* The types of a ledger, and what its orders set aside

\* The types of what a ledger keeps.
OrderType ==
    [key : Keys, side : Sides, inst : Instruments, qty : Nat \ {0}, limit : Nat,
     filled : Nat, at : Nat,
     st : {"OPEN", "PARTIAL", "FILLED", "CANCELED", "REJECTED", "EXPIRED"}]
PositionType == [qty : Nat, avg : Nat, realized : Int]
FillType ==
    [order : Nat \ {0}, key : Keys, quote : Nat \ {0}, inst : Instruments, side : Sides,
     at : Nat, price : Nat, qty : Nat \ {0}]
LedgerType ==
    [cash : Int, orders : Seq(OrderType), keys : [Keys -> Nat],
     pos : [Instruments -> PositionType], quotes : [Instruments -> Quotes \cup {NoQuote}],
     entries : SUBSET (Int \X Nat), fills : Seq(FillType), realized : Int,
     closed : [Instruments -> Int], deposits : Int]

SetAside(orders) == Total([k \in DOMAIN orders |-> cash_set_aside(orders[k])])
Committed(orders, i) == Total([k \in DOMAIN orders |-> contracts_set_aside(orders[k], i)])

\* An order is filled to its quantity at most, and to all of it when it is FILLED.
OrderSound(o) == o.filled <= o.qty /\ (o.st = "FILLED" => o.filled = o.qty)

\* What the accounts of a ledger owe its orders: the cash of the working buys and the
\* contracts of the working sales.
Covers(cash, pos, orders) ==
    /\ SetAside(orders) <= cash
    /\ \A i \in Instruments : Committed(orders, i) <= pos[i].qty

PositionsSound(pos) == \A i \in Instruments : pos[i].qty = 0 => pos[i] = NoPosition

\* The accounts of a ledger at any time between two calls.
Sound(L) ==
    /\ L \in LedgerType
    /\ \A k \in DOMAIN L.orders : OrderSound(L.orders[k])
    /\ Covers(L.cash, L.pos, L.orders)
    /\ PositionsSound(L.pos)

LEMMA ProductMonotone ==
    ASSUME NEW a \in Nat, NEW b \in Nat, NEW c \in Nat, a <= b
    PROVE  a * c <= b * c /\ c * a <= c * b /\ a * c \in Nat /\ b * c \in Nat
  OBVIOUS

LEMMA MinOfTwo ==
    ASSUME NEW a \in Int, NEW b \in Int
    PROVE  Min({a, b}) \in {a, b} /\ Min({a, b}) <= a /\ Min({a, b}) <= b
  <1>1. \E x \in {a, b} : \A y \in {a, b} : x <= y
    OBVIOUS
  <1>. QED  BY <1>1, Zenon DEF Min

LEMMA MaxOfTwo ==
    ASSUME NEW a \in Int, NEW b \in Int
    PROVE  Max({a, b}) \in {a, b} /\ Max({a, b}) >= a /\ Max({a, b}) >= b
  <1>1. \E x \in {a, b} : \A y \in {a, b} : x >= y
    OBVIOUS
  <1>. QED  BY <1>1, Zenon DEF Max

LEMMA OrderOf ==
    ASSUME NEW orders \in Seq(OrderType), NEW k \in DOMAIN orders
    PROVE  orders[k] \in OrderType /\ k \in Nat \ {0} /\ k <= Len(orders)
  OBVIOUS

LEMMA SetAsideType ==
    ASSUME NEW o \in OrderType, OrderSound(o)
    PROVE  /\ Remaining(o) \in Nat /\ cash_set_aside(o) \in Nat
           /\ \A i \in Instruments : contracts_set_aside(o, i) \in Nat
  <1>1. Remaining(o) \in Nat /\ o.limit \in Nat
    BY DEF OrderType, OrderSound, Remaining
  <1>2. Remaining(o) * o.limit \in Nat
    BY <1>1
  <1>. QED  BY <1>1, <1>2 DEF cash_set_aside, contracts_set_aside

LEMMA FiniteOrders ==
    ASSUME NEW orders \in Seq(OrderType)
    PROVE  IsFiniteSet(DOMAIN orders)
  <1>1. DOMAIN orders = 1..Len(orders) /\ Len(orders) \in Nat
    OBVIOUS
  <1>. QED  BY <1>1, FS_Interval

LEMMA AsideFunctions ==
    ASSUME NEW orders \in Seq(OrderType), \A k \in DOMAIN orders : OrderSound(orders[k])
    PROVE  /\ [k \in DOMAIN orders |-> cash_set_aside(orders[k])] \in [DOMAIN orders -> Int]
           /\ \A k \in DOMAIN orders : 0 <= cash_set_aside(orders[k])
           /\ \A i \in Instruments :
                /\ [k \in DOMAIN orders |-> contracts_set_aside(orders[k], i)]
                     \in [DOMAIN orders -> Int]
                /\ \A k \in DOMAIN orders : 0 <= contracts_set_aside(orders[k], i)
  BY SetAsideType, OrderOf

\* What all the orders set aside covers what one of them does.
LEMMA AsideTotals ==
    ASSUME NEW orders \in Seq(OrderType), \A k \in DOMAIN orders : OrderSound(orders[k])
    PROVE  /\ SetAside(orders) \in Nat
           /\ \A k \in DOMAIN orders : cash_set_aside(orders[k]) <= SetAside(orders)
           /\ \A i \in Instruments :
                /\ Committed(orders, i) \in Nat
                /\ \A k \in DOMAIN orders :
                      contracts_set_aside(orders[k], i) <= Committed(orders, i)
  <1> DEFINE f == [k \in DOMAIN orders |-> cash_set_aside(orders[k])]
             g(i) == [k \in DOMAIN orders |-> contracts_set_aside(orders[k], i)]
  <1>1. f \in [DOMAIN orders -> Int] /\ \A k \in DOMAIN orders : 0 <= f[k]
    BY AsideFunctions
  <1>2. \A i \in Instruments : g(i) \in [DOMAIN orders -> Int] /\ \A k \in DOMAIN orders : 0 <= g(i)[k]
    BY AsideFunctions
  <1>3. \A k \in DOMAIN orders : f[k] = cash_set_aside(orders[k])
    OBVIOUS
  <1>4. \A i \in Instruments : \A k \in DOMAIN orders : g(i)[k] = contracts_set_aside(orders[k], i)
    OBVIOUS
  <1>5. SetAside(orders) = Total(f) /\ \A i \in Instruments : Committed(orders, i) = Total(g(i))
    BY DEF SetAside, Committed
  <1> HIDE DEF f, g
  <1>6. Total(f) \in Nat /\ \A k \in DOMAIN orders : f[k] <= Total(f)
    BY <1>1, FiniteOrders, TotalNonnegative
  <1>7. \A i \in Instruments : Total(g(i)) \in Nat /\ \A k \in DOMAIN orders : g(i)[k] <= Total(g(i))
    BY <1>2, FiniteOrders, TotalNonnegative
  <1>. QED  BY <1>3, <1>4, <1>5, <1>6, <1>7

\* Orders that set aside no more, one by one, set aside no more in all.
LEMMA AsideShrinks ==
    ASSUME NEW a \in Seq(OrderType), \A k \in DOMAIN a : OrderSound(a[k]),
           NEW b \in Seq(OrderType), \A k \in DOMAIN b : OrderSound(b[k]),
           DOMAIN a = DOMAIN b,
           \A k \in DOMAIN a : /\ cash_set_aside(b[k]) <= cash_set_aside(a[k])
                               /\ \A i \in Instruments :
                                     contracts_set_aside(b[k], i) <= contracts_set_aside(a[k], i)
    PROVE  /\ SetAside(b) <= SetAside(a)
           /\ \A i \in Instruments : Committed(b, i) <= Committed(a, i)
  <1> DEFINE f(s) == [k \in DOMAIN s |-> cash_set_aside(s[k])]
             g(s, i) == [k \in DOMAIN s |-> contracts_set_aside(s[k], i)]
             D == DOMAIN a
  <1>1. f(a) \in [D -> Int] /\ f(b) \in [D -> Int] /\ \A k \in D : f(b)[k] <= f(a)[k]
    BY AsideFunctions
  <1>2. \A i \in Instruments : /\ g(a, i) \in [D -> Int] /\ g(b, i) \in [D -> Int]
                               /\ \A k \in D : g(b, i)[k] <= g(a, i)[k]
    BY AsideFunctions
  <1>3. /\ SetAside(a) = Total(f(a)) /\ SetAside(b) = Total(f(b))
        /\ \A i \in Instruments : Committed(a, i) = Total(g(a, i)) /\ Committed(b, i) = Total(g(b, i))
    BY DEF SetAside, Committed
  <1>4. IsFiniteSet(D)
    BY FiniteOrders
  <1> HIDE DEF f, g, D
  <1>5. Total(f(b)) <= Total(f(a))
    BY <1>1, <1>4, TotalMonotone
  <1>6. \A i \in Instruments : Total(g(b, i)) <= Total(g(a, i))
    BY <1>2, <1>4, TotalMonotone
  <1>. QED  BY <1>3, <1>5, <1>6

\* One order changes.
LEMMA AsideUpdate ==
    ASSUME NEW a \in Seq(OrderType), \A k \in DOMAIN a : OrderSound(a[k]),
           NEW b \in Seq(OrderType), \A k \in DOMAIN b : OrderSound(b[k]),
           DOMAIN a = DOMAIN b, NEW n \in DOMAIN a,
           \A k \in DOMAIN a \ {n} : b[k] = a[k]
    PROVE  /\ SetAside(b) = SetAside(a) - cash_set_aside(a[n]) + cash_set_aside(b[n])
           /\ \A i \in Instruments :
                Committed(b, i) = Committed(a, i) - contracts_set_aside(a[n], i)
                                    + contracts_set_aside(b[n], i)
  <1> DEFINE f(s) == [k \in DOMAIN s |-> cash_set_aside(s[k])]
             g(s, i) == [k \in DOMAIN s |-> contracts_set_aside(s[k], i)]
             D == DOMAIN a
  <1>1. /\ f(a) \in [D -> Int] /\ f(b) \in [D -> Int] /\ \A k \in D \ {n} : f(b)[k] = f(a)[k]
        /\ f(a)[n] = cash_set_aside(a[n]) /\ f(b)[n] = cash_set_aside(b[n])
    BY AsideFunctions
  <1>2. \A i \in Instruments :
          /\ g(a, i) \in [D -> Int] /\ g(b, i) \in [D -> Int]
          /\ \A k \in D \ {n} : g(b, i)[k] = g(a, i)[k]
          /\ g(a, i)[n] = contracts_set_aside(a[n], i) /\ g(b, i)[n] = contracts_set_aside(b[n], i)
    BY AsideFunctions
  <1>3. /\ SetAside(a) = Total(f(a)) /\ SetAside(b) = Total(f(b))
        /\ \A i \in Instruments : Committed(a, i) = Total(g(a, i)) /\ Committed(b, i) = Total(g(b, i))
    BY DEF SetAside, Committed
  <1>4. IsFiniteSet(D) /\ n \in D
    BY FiniteOrders
  <1> HIDE DEF f, g, D
  <1>5. Total(f(b)) = Total(f(a)) - f(a)[n] + f(b)[n]
    BY <1>1, <1>4, TotalUpdate
  <1>6. ASSUME NEW i \in Instruments
        PROVE  Total(g(b, i)) = Total(g(a, i)) - g(a, i)[n] + g(b, i)[n]
    <2> DEFINE x == g(a, i)
               y == g(b, i)
    <2>1. x \in [D -> Int] /\ y \in [D -> Int] /\ \A k \in D \ {n} : y[k] = x[k]
      BY <1>2
    <2> HIDE DEF x, y
    <2>2. Total(y) = Total(x) - x[n] + y[n]
      BY <1>4, <2>1, TotalUpdate
    <2>. QED  BY <2>2 DEF x, y
  <1>. QED  BY <1>1, <1>2, <1>3, <1>5, <1>6

\* One order is added.
LEMMA AsideAppend ==
    ASSUME NEW a \in Seq(OrderType), \A k \in DOMAIN a : OrderSound(a[k]),
           NEW o \in OrderType, OrderSound(o)
    PROVE  /\ SetAside(Append(a, o)) = SetAside(a) + cash_set_aside(o)
           /\ \A i \in Instruments :
                Committed(Append(a, o), i) = Committed(a, i) + contracts_set_aside(o, i)
  <1> DEFINE b == Append(a, o)
             n == Len(a) + 1
             D == DOMAIN a
             E == DOMAIN b
             f(s) == [k \in DOMAIN s |-> cash_set_aside(s[k])]
             g(s, i) == [k \in DOMAIN s |-> contracts_set_aside(s[k], i)]
  <1>1. /\ b \in Seq(OrderType) /\ n \notin D /\ n \in E
        /\ \A k \in D : k \in E /\ b[k] = a[k]
        /\ \A k \in E : k = n \/ k \in D
        /\ b[n] = o
    BY AppendProperties
  <1>2. \A k \in E : OrderSound(b[k])
    BY <1>1
  <1>3. /\ f(a) \in [D -> Int] /\ f(b) \in [E -> Int] /\ \A k \in D : f(b)[k] = f(a)[k]
        /\ f(b)[n] = cash_set_aside(o)
    <2> HIDE DEF b, n
    <2>. QED  BY <1>1, <1>2, AsideFunctions
  <1>4. \A i \in Instruments :
          /\ g(a, i) \in [D -> Int] /\ g(b, i) \in [E -> Int]
          /\ \A k \in D : g(b, i)[k] = g(a, i)[k]
          /\ g(b, i)[n] = contracts_set_aside(o, i)
    <2> HIDE DEF b, n
    <2>. QED  BY <1>1, <1>2, AsideFunctions
  <1>5. /\ SetAside(a) = Total(f(a)) /\ SetAside(b) = Total(f(b))
        /\ \A i \in Instruments : Committed(a, i) = Total(g(a, i)) /\ Committed(b, i) = Total(g(b, i))
    BY DEF SetAside, Committed
  <1>6. IsFiniteSet(E)
    BY <1>1, FiniteOrders
  <1> HIDE DEF f, g, D, E, b, n
  <1>7. ASSUME NEW x \in [D -> Int], NEW y \in [E -> Int], \A k \in D : y[k] = x[k]
        PROVE  Total(y) = Total(x) + y[n]
    <2>1. n \in E /\ n \notin D /\ (\A k \in D : k \in E) /\ (\A k \in E : k = n \/ k \in D)
      BY <1>1
    <2>. QED  BY <1>6, <1>7, <2>1, TotalExtend
  <1>8. /\ Total(f(b)) = Total(f(a)) + f(b)[n]
        /\ \A i \in Instruments : Total(g(b, i)) = Total(g(a, i)) + g(b, i)[n]
    BY <1>3, <1>4, <1>7
  <1>. QED  BY <1>3, <1>4, <1>5, <1>8 DEF b

-----------------------------------------------------------------------------
\* The loop of observe_quote over the orders

RiskOf(pos, orders) == Total([i \in Instruments |-> pos[i].avg * pos[i].qty]) + SetAside(orders)

Start(L) ==
    [cash |-> L.cash, pos |-> L.pos, realized |-> L.realized,
     closed |-> L.closed, fills |-> L.fills, raised |-> FALSE]

AccountsType ==
    [cash : Int, pos : [Instruments -> PositionType], realized : Int,
     closed : [Instruments -> Int], fills : Seq(FillType), raised : BOOLEAN]

\* The orders of the ledger once the first k had their turn.
Turned(L, q, t, hits, k) ==
    [j \in DOMAIN L.orders |->
        IF j <= k THEN fill_order(L.orders[j], fill_quantity(L, j, q, t, hits))
        ELSE L.orders[j]]

\* The loop over the orders is a sequence of turns.
LEMMA AccountsLoop ==
    ASSUME NEW L, NEW q, NEW t, NEW hits, Len(L.orders) \in Nat
    PROVE  \E h : /\ h[0] = Start(L)
                  /\ \A k \in 1..Len(L.orders) :
                        h[k] = apply_fill(h[k - 1], fill_of(L, k, q, t, hits))
                  /\ accounts(L, q, t, hits) = h[Len(L.orders)]
  <1> DEFINE n == Len(L.orders)
             Turn(k, acc) == apply_fill(acc, fill_of(L, k, q, t, hits))
             Runs(m, h) == h = [k \in 0..m |-> IF k = 0 THEN Start(L) ELSE Turn(k, h[k - 1])]
             Bad == {m \in 0..n : ~\E h : Runs(m, h)}
             after == CHOOSE h : Runs(n, h)
  <1>1. accounts(L, q, t, hits) = after[n]
    BY DEF accounts, Start
  <1>2. n \in Nat
    OBVIOUS
  <1> HIDE DEF n, Turn
  <1>3. Bad = {}
    <2>1. SUFFICES ASSUME Bad # {} PROVE FALSE
      OBVIOUS
    <2>2. PICK m \in Bad : \A d \in Bad : m <= d
      <3>1. Bad \in SUBSET Nat
        BY <1>2
      <3> HIDE DEF Bad
      <3>. QED  BY <2>1, <3>1, LeastNumber
    <2>3. m \in 0..n /\ m \in Nat /\ ~\E h : Runs(m, h)
      BY <1>2, <2>2
    <2>4. m # 0
      <3> DEFINE h == [k \in 0..0 |-> Start(L)]
      <3>1. h = [k \in 0..0 |-> IF k = 0 THEN Start(L) ELSE Turn(k, h[k - 1])]
        OBVIOUS
      <3>2. Runs(0, h)
        BY <3>1, Zenon
      <3> HIDE DEF Runs
      <3>. QED  BY <2>3, <3>2
    <2>5. m - 1 \in 0..n
      BY <1>2, <2>3, <2>4
    <2>6. m - 1 \notin Bad
      <3>1. m - 1 \in Bad => m <= m - 1
        BY <2>2
      <3>2. ~(m <= m - 1)
        BY <2>3
      <3>. QED  BY <3>1, <3>2
    <2>7. PICK h : Runs(m - 1, h)
      BY <2>5, <2>6
    <2>8. \A k \in 0..(m - 1) : h[k] = IF k = 0 THEN Start(L) ELSE Turn(k, h[k - 1])
      BY <2>7
    <2> DEFINE g == [k \in 0..m |-> IF k = m THEN Turn(m, h[m - 1]) ELSE h[k]]
    <2>9. \A k \in 0..m : g[k] = IF k = 0 THEN Start(L) ELSE Turn(k, g[k - 1])
      <3> SUFFICES ASSUME NEW k \in 0..m
                   PROVE  g[k] = IF k = 0 THEN Start(L) ELSE Turn(k, g[k - 1])
        OBVIOUS
      <3>1. CASE k = 0
        <4>1. k \in 0..(m - 1) /\ k # m
          BY <2>3, <2>4, <3>1
        <4>. QED  BY <2>8, <3>1, <4>1
      <3>2. CASE k = m
        <4>1. m - 1 \in 0..m /\ m - 1 # m
          BY <2>3, <2>4
        <4>2. g[m - 1] = h[m - 1]
          BY <4>1
        <4>. QED  BY <2>4, <3>2, <4>2
      <3>3. CASE k # 0 /\ k # m
        <4>1. k \in 0..(m - 1) /\ k - 1 \in 0..m /\ k - 1 # m
          BY <2>3, <3>3
        <4>2. g[k] = h[k] /\ g[k - 1] = h[k - 1]
          BY <3>3, <4>1
        <4>. QED  BY <2>8, <3>3, <4>1, <4>2
      <3>. QED  BY <3>1, <3>2, <3>3
    <2>10. g = [k \in 0..m |-> g[k]]
      OBVIOUS
    <2> HIDE DEF g
    <2>11. Runs(m, g)
      BY <2>9, <2>10, Zenon
    <2> HIDE DEF Runs
    <2>. QED  BY <2>3, <2>11
  <1>4. \E h : Runs(n, h)
    <2>1. n \in 0..n /\ n \notin Bad
      BY <1>2, <1>3
    <2>. QED  BY <2>1
  <1>5. Runs(n, after)
    BY <1>4, Zenon
  <1> HIDE DEF after
  <1>6. \A k \in 0..n : after[k] = IF k = 0 THEN Start(L) ELSE Turn(k, after[k - 1])
    BY <1>5
  <1>7. /\ after[0] = Start(L)
        /\ \A k \in 1..n : after[k] = Turn(k, after[k - 1])
    BY <1>2, <1>6
  <1>. QED  BY <1>1, <1>7 DEF Turn, n

\* What one order can be given by a quote.
LEMMA FillFacts ==
    ASSUME NEW L, Sound(L), NEW q \in Quotes, NEW t \in Nat, NEW hits,
           NEW k \in DOMAIN L.orders
    PROVE  /\ fill_quantity(L, k, q, t, hits) \in Nat
           /\ executable_price(L.orders[k], q) \in Nat
           /\ fill_quantity(L, k, q, t, hits) <= Remaining(L.orders[k])
           /\ fill_quantity(L, k, q, t, hits) > 0 =>
                /\ L.orders[k].inst = q.inst /\ L.orders[k].st \in OpenStates
                /\ q.eff > L.orders[k].at
                /\ L.orders[k].side = "BUY" =>
                      executable_price(L.orders[k], q) <= L.orders[k].limit
  <1> DEFINE o == L.orders[k]
             size == IF q.size = NoSize THEN 1 ELSE Max({1, q.size \div 2})
  <1>1. o \in OrderType /\ OrderSound(o)
    BY OrderOf DEF Sound, LedgerType
  <1>2. Remaining(o) \in Nat
    BY <1>1, SetAsideType
  <1>3. q.ask \in Nat /\ q.bid \in Nat /\ q.size \in Nat \cup {NoSize}
    BY DEF Quotes
  <1>4. executable_price(o, q) \in Nat
    BY <1>3 DEF executable_price
  <1>5. size \in Nat
    <2>1. CASE q.size = NoSize
      BY <2>1
    <2>2. CASE q.size \in Nat
      <3> DEFINE half == q.size \div 2
      <3>1. half \in Int /\ 1 \in Int
        BY <2>2
      <3> HIDE DEF half
      <3>2. Max({1, half}) \in {1, half} /\ Max({1, half}) >= 1
        BY <3>1, MaxOfTwo
      <3> USE DEF half
      <3>. QED  BY <3>1, <3>2
    <2>. QED  BY <1>3, <2>1, <2>2
  <1> HIDE DEF size
  <1>6. Min({Remaining(o), size}) \in Nat /\ Min({Remaining(o), size}) <= Remaining(o)
    BY <1>2, <1>5, MinOfTwo
  <1>7. /\ evaluate(o, q, hits) \in Nat /\ evaluate(o, q, hits) <= Remaining(o)
        /\ evaluate(o, q, hits) > 0 => improved(o, q) \/ touched(o, q)
    BY <1>2, <1>6 DEF evaluate, size
  <1>8. o.side = "BUY" /\ (improved(o, q) \/ touched(o, q)) => executable_price(o, q) <= o.limit
    <2>1. o.limit \in Nat
      BY <1>1 DEF OrderType
    <2>. QED  BY <1>3, <2>1 DEF improved, touched, executable_price
  <1> HIDE DEF o
  <1>9. /\ fill_quantity(L, k, q, t, hits) \in {0, evaluate(o, q, hits)}
        /\ fill_quantity(L, k, q, t, hits) # 0 =>
              o.inst = q.inst /\ o.st \in OpenStates /\ q.eff > o.at
    BY DEF fill_quantity, o
  <1>. QED  BY <1>2, <1>4, <1>7, <1>8, <1>9 DEF o

\* What a fill changes in its order.
LEMMA FilledOrder ==
    ASSUME NEW o \in OrderType, OrderSound(o), NEW n \in Nat, n <= Remaining(o)
    PROVE  /\ fill_order(o, n) \in OrderType /\ OrderSound(fill_order(o, n))
           /\ fill_order(o, n).inst = o.inst /\ fill_order(o, n).side = o.side
           /\ fill_order(o, n).key = o.key /\ fill_order(o, n).at = o.at
           /\ fill_order(o, n).filled = o.filled + n
           /\ n = 0 => fill_order(o, n) = o
           /\ n # 0 => fill_order(o, n).st \in {"FILLED", "PARTIAL"}
           /\ o.st \in OpenStates =>
                /\ cash_set_aside(fill_order(o, n))
                     = cash_set_aside(o) - (IF o.side = "BUY" THEN n * o.limit ELSE 0)
                /\ \A i \in Instruments :
                     contracts_set_aside(fill_order(o, n), i)
                       = contracts_set_aside(o, i)
                           - (IF o.side = "SELL" /\ o.inst = i THEN n ELSE 0)
  <1> DEFINE p == fill_order(o, n)
  <1>1. CASE n = 0
    <2>1. p = o
      BY <1>1 DEF fill_order
    <2>2. o.limit \in Nat /\ n * o.limit = 0 /\ o.filled \in Nat
      BY <1>1 DEF OrderType
    <2>3. cash_set_aside(o) \in Nat /\ \A i \in Instruments : contracts_set_aside(o, i) \in Nat
      BY SetAsideType
    <2>. QED  BY <1>1, <2>1, <2>2, <2>3
  <1>2. CASE n # 0
    <2>1. p = [o EXCEPT !.filled = o.filled + n,
                        !.st = IF o.filled + n = o.qty THEN "FILLED" ELSE "PARTIAL"]
      BY <1>2 DEF fill_order
    <2>2. o.filled \in Nat /\ o.qty \in Nat /\ o.limit \in Nat /\ o.filled + n <= o.qty
      BY DEF OrderType, Remaining
    <2> DEFINE st == IF o.filled + n = o.qty THEN "FILLED" ELSE "PARTIAL"
               filled == o.filled + n
    <2>a. st \in {"FILLED", "PARTIAL"} /\ filled \in Nat /\ (st = "FILLED" => filled = o.qty)
      BY <2>2
    <2>b. p = [o EXCEPT !.filled = filled, !.st = st]
      BY <2>1
    <2> HIDE DEF p, st, filled
    <2>3. /\ p \in OrderType
          /\ p.filled = filled /\ p.qty = o.qty /\ p.limit = o.limit /\ p.side = o.side
          /\ p.inst = o.inst /\ p.key = o.key /\ p.at = o.at
          /\ p.st = st
      BY <2>a, <2>b DEF OrderType
    <2>c. p.filled = o.filled + n
      BY <2>3 DEF filled
    <2>4. OrderSound(p)
      BY <2>2, <2>3, <2>a, <2>c DEF OrderSound
    <2>5. Remaining(p) = Remaining(o) - n /\ Remaining(o) \in Nat /\ Remaining(p) \in Nat
      BY <2>2, <2>3, <2>c DEF Remaining
    <2>6. Remaining(p) * p.limit = Remaining(o) * o.limit - n * o.limit
          /\ Remaining(o) * o.limit \in Nat /\ n * o.limit \in Nat
      BY <2>2, <2>3, <2>5
    <2>7. p.st = "FILLED" => Remaining(p) = 0 /\ Remaining(p) * p.limit = 0
      <3>1. p.st = "FILLED" => p.filled = p.qty
        BY <2>3, <2>a
      <3>2. p.filled = p.qty => Remaining(p) = 0
        BY <2>2, <2>3, <2>c DEF Remaining
      <3>3. Remaining(p) = 0 => Remaining(p) * p.limit = 0
        BY <2>2, <2>3
      <3>. QED  BY <3>1, <3>2, <3>3
    <2>8. p.st = "FILLED" \/ p.st \in OpenStates
      BY <2>3, <2>a DEF OpenStates
    <2>9. o.side \in {"BUY", "SELL"} /\ "FILLED" \notin OpenStates
      BY DEF OrderType, Sides, OpenStates
    <2>10. ASSUME o.st \in OpenStates
           PROVE  cash_set_aside(p) = cash_set_aside(o) - (IF o.side = "BUY" THEN n * o.limit ELSE 0)
      BY <2>3, <2>6, <2>7, <2>8, <2>9, <2>10 DEF cash_set_aside, working
    <2>11. ASSUME o.st \in OpenStates, NEW i \in Instruments
           PROVE  contracts_set_aside(p, i) = contracts_set_aside(o, i)
                           - (IF o.side = "SELL" /\ o.inst = i THEN n ELSE 0)
      BY <2>3, <2>5, <2>7, <2>8, <2>9, <2>11 DEF contracts_set_aside, working
    <2>. QED  BY <1>2, <2>3, <2>4, <2>10, <2>11, <2>a, <2>c DEF p
  <1>. QED  BY <1>1, <1>2

-----------------------------------------------------------------------------
\* One turn of the loop

\* An instrument that is held or that a working buy bids for.
Exposed(pos, orders, i) ==
    pos[i].qty > 0 \/ \E k \in DOMAIN orders : working(orders[k], "BUY") /\ orders[k].inst = i

\* The accounts once the first k orders had their turn.
BooksInLoop(L, q, t, hits, k, acc) ==
    /\ acc \in AccountsType /\ ~acc.raised
    /\ Covers(acc.cash, acc.pos, Turned(L, q, t, hits, k))
    /\ PositionsSound(acc.pos)
    /\ RiskOf(acc.pos, Turned(L, q, t, hits, k)) <= RiskOf(L.pos, L.orders)
    /\ \A i \in Instruments : acc.pos[i].qty > 0 => Exposed(L.pos, L.orders, i)
    /\ \A i \in Instruments \ {q.inst} : acc.pos[i] = L.pos[i]

FillsInLoop(L, q, t, hits, k, acc) ==
    /\ Len(L.fills) <= Len(acc.fills)
    /\ \A j \in DOMAIN L.fills : acc.fills[j] = L.fills[j]
    /\ \A j \in DOMAIN acc.fills \ DOMAIN L.fills :
          /\ acc.fills[j].order \in 1..k
          /\ acc.fills[j] = fill_of(L, acc.fills[j].order, q, t, hits)
    /\ \A i, j \in DOMAIN acc.fills \ DOMAIN L.fills :
          acc.fills[i].order = acc.fills[j].order => i = j

LEMMA TurnedFacts ==
    ASSUME NEW L, Sound(L), NEW q \in Quotes, NEW t \in Nat, NEW hits, NEW k \in Nat
    PROVE  /\ Turned(L, q, t, hits, k) \in Seq(OrderType)
           /\ DOMAIN Turned(L, q, t, hits, k) = DOMAIN L.orders
           /\ \A j \in DOMAIN L.orders : OrderSound(Turned(L, q, t, hits, k)[j])
  <1> DEFINE b == Turned(L, q, t, hits, k)
  <1>1. L.orders \in Seq(OrderType) /\ DOMAIN L.orders = 1..Len(L.orders) /\ Len(L.orders) \in Nat
    BY DEF Sound, LedgerType
  <1>2. \A j \in DOMAIN L.orders :
          LET o == fill_order(L.orders[j], fill_quantity(L, j, q, t, hits))
          IN  o \in OrderType /\ OrderSound(o)
    <2> SUFFICES ASSUME NEW j \in DOMAIN L.orders
                 PROVE  LET o == fill_order(L.orders[j], fill_quantity(L, j, q, t, hits))
                        IN  o \in OrderType /\ OrderSound(o)
      OBVIOUS
    <2>1. L.orders[j] \in OrderType /\ OrderSound(L.orders[j])
      BY <1>1 DEF Sound
    <2>2. fill_quantity(L, j, q, t, hits) \in Nat
          /\ fill_quantity(L, j, q, t, hits) <= Remaining(L.orders[j])
      BY FillFacts
    <2>. QED  BY <2>1, <2>2, FilledOrder
  <1>3. \A j \in DOMAIN L.orders : L.orders[j] \in OrderType /\ OrderSound(L.orders[j])
    BY <1>1 DEF Sound
  <1>4. DOMAIN b = DOMAIN L.orders
        /\ \A j \in DOMAIN L.orders : b[j] \in OrderType /\ OrderSound(b[j])
    BY <1>2, <1>3 DEF Turned
  <1>5. b = [j \in 1..Len(L.orders) |-> b[j]]
    BY <1>1, <1>4 DEF Turned
  <1> HIDE DEF b
  <1>6. b \in Seq(OrderType)
    <2> DEFINE n == Len(L.orders)
               T == OrderType
    <2>1. n \in Nat /\ b = [j \in 1..n |-> b[j]] /\ \A j \in 1..n : b[j] \in T
      BY <1>1, <1>4, <1>5
    <2> HIDE DEF n, T
    <2>2. b \in Seq(T)
      BY <2>1
    <2>. QED  BY <2>2 DEF T
  <1>. QED  BY <1>4, <1>6 DEF b

\* What one turn takes out of what the orders set aside.
AsideTurned(o, n, a, b) ==
    /\ n = 0 => b = a
    /\ n > 0 =>
         /\ SetAside(b) = SetAside(a) - (IF o.side = "BUY" THEN n * o.limit ELSE 0)
         /\ o.side = "BUY" => n * o.limit <= SetAside(a)
         /\ \A i \in Instruments :
              /\ Committed(b, i) = Committed(a, i)
                   - (IF o.side = "SELL" /\ o.inst = i THEN n ELSE 0)
              /\ o.side = "SELL" /\ o.inst = i => n <= Committed(a, i)

LEMMA TurnAside ==
    ASSUME NEW L, Sound(L), NEW q \in Quotes, NEW t \in Nat, NEW hits,
           NEW k \in DOMAIN L.orders
    PROVE  AsideTurned(L.orders[k], fill_quantity(L, k, q, t, hits),
                       Turned(L, q, t, hits, k - 1), Turned(L, q, t, hits, k))
  <1> DEFINE o == L.orders[k]
             n == fill_quantity(L, k, q, t, hits)
             a == Turned(L, q, t, hits, k - 1)
             b == Turned(L, q, t, hits, k)
             D == DOMAIN L.orders
  <1>1. D = 1..Len(L.orders) /\ Len(L.orders) \in Nat /\ k \in Nat /\ k - 1 \in Nat
    BY DEF Sound, LedgerType
  <1>2. /\ a \in Seq(OrderType) /\ DOMAIN a = D /\ \A j \in D : OrderSound(a[j])
        /\ b \in Seq(OrderType) /\ DOMAIN b = D /\ \A j \in D : OrderSound(b[j])
    <2>1. a \in Seq(OrderType) /\ DOMAIN a = D /\ \A j \in D : OrderSound(a[j])
      BY <1>1, TurnedFacts
    <2>2. b \in Seq(OrderType) /\ DOMAIN b = D /\ \A j \in D : OrderSound(b[j])
      BY <1>1, TurnedFacts
    <2>. QED  BY <2>1, <2>2
  <1>3. \A j \in D \ {k} : b[j] = a[j]
    <2> SUFFICES ASSUME NEW j \in D \ {k} PROVE b[j] = a[j]
      OBVIOUS
    <2>1. j <= k <=> j <= k - 1
      BY <1>1
    <2>. QED  BY <2>1 DEF Turned
  <1>4. a[k] = o /\ b[k] = fill_order(o, n)
    <2>1. k <= k /\ ~(k <= k - 1)
      BY <1>1
    <2>. QED  BY <2>1 DEF Turned
  <1>5. o \in OrderType /\ OrderSound(o)
    BY <1>1, OrderOf DEF Sound, LedgerType
  <1>6. n \in Nat /\ n <= Remaining(o) /\ (n > 0 => o.st \in OpenStates)
    BY FillFacts
  <1>7. n = 0 => fill_order(o, n) = o
    BY <1>5, <1>6, FilledOrder
  <1>8. a = [j \in D |-> a[j]] /\ b = [j \in D |-> b[j]]
    BY DEF Turned
  <1>9. b[k] \in OrderType /\ OrderSound(b[k]) /\ k \in D
    BY <1>2
  <1> HIDE DEF o, n, a, b, D
  <1>10. n = 0 => b = a
    <2>1. n = 0 => \A j \in D : b[j] = a[j]
      BY <1>3, <1>4, <1>7
    <2>. QED  BY <1>8, <2>1
  <1>11. SetAside(b) = SetAside(a) - cash_set_aside(o) + cash_set_aside(b[k])
         /\ \A i \in Instruments :
              Committed(b, i) = Committed(a, i) - contracts_set_aside(o, i)
                                  + contracts_set_aside(b[k], i)
    BY <1>2, <1>3, <1>4, <1>9, AsideUpdate
  <1>12. /\ SetAside(a) \in Nat /\ cash_set_aside(o) <= SetAside(a)
         /\ \A i \in Instruments :
              Committed(a, i) \in Nat /\ contracts_set_aside(o, i) <= Committed(a, i)
    BY <1>2, <1>4, <1>9, AsideTotals
  <1>13. /\ cash_set_aside(o) \in Nat /\ cash_set_aside(b[k]) \in Nat
         /\ \A i \in Instruments : /\ contracts_set_aside(o, i) \in Nat
                                   /\ contracts_set_aside(b[k], i) \in Nat
    BY <1>5, <1>9, SetAsideType
  <1> DEFINE w == n * o.limit
  <1>14. w \in Nat
    BY <1>5, <1>6 DEF OrderType
  <1> HIDE DEF w
  <1>15. ASSUME n > 0
         PROVE  /\ cash_set_aside(b[k]) = cash_set_aside(o) - (IF o.side = "BUY" THEN w ELSE 0)
                /\ \A i \in Instruments :
                     contracts_set_aside(b[k], i) = contracts_set_aside(o, i)
                           - (IF o.side = "SELL" /\ o.inst = i THEN n ELSE 0)
    BY <1>4, <1>5, <1>6, <1>15, FilledOrder DEF w
  <1>16. ASSUME n > 0
         PROVE  /\ SetAside(b) = SetAside(a) - (IF o.side = "BUY" THEN w ELSE 0)
                /\ o.side = "BUY" => w <= SetAside(a)
    BY <1>11, <1>12, <1>13, <1>14, <1>15, <1>16
  <1>17. ASSUME n > 0, NEW i \in Instruments
         PROVE  /\ Committed(b, i) = Committed(a, i)
                              - (IF o.side = "SELL" /\ o.inst = i THEN n ELSE 0)
                /\ o.side = "SELL" /\ o.inst = i => n <= Committed(a, i)
    BY <1>6, <1>11, <1>12, <1>13, <1>15, <1>17
  <1>18. AsideTurned(o, n, a, b)
    BY <1>10, <1>16, <1>17 DEF AsideTurned, w
  <1>. QED  BY <1>18 DEF o, n, a, b

LEMMA QuotientBound ==
    ASSUME NEW a \in Nat, NEW b \in Nat \ {0}
    PROVE  a \div b \in Nat /\ (a \div b) * b <= a
  OBVIOUS

\* An addition never costs more than what was paid for it, and a sale never leaves more.
LEMMA EnterFacts ==
    ASSUME NEW p \in PositionType, NEW n \in Nat \ {0}, NEW price \in Nat
    PROVE  /\ enter(p, n, price) \in PositionType
           /\ enter(p, n, price).qty = p.qty + n
           /\ enter(p, n, price).realized = p.realized
           /\ enter(p, n, price).avg * enter(p, n, price).qty <= p.avg * p.qty + price * n
  <1> DEFINE a == p.avg * p.qty + price * n
             b == p.qty + n
             e == a \div b
             r == enter(p, n, price)
  <1>1. p.qty \in Nat /\ p.avg \in Nat
    BY DEF PositionType
  <1>2. p.avg * p.qty \in Nat /\ price * n \in Nat
    BY <1>1
  <1>3. a \in Nat /\ b \in Nat \ {0}
    BY <1>1, <1>2
  <1>4. r = [p EXCEPT !.qty = b, !.avg = e]
    BY DEF enter
  <1> HIDE DEF a, b, r
  <1>5. e \in Nat /\ e * b <= a
    BY <1>3, QuotientBound
  <1> HIDE DEF e
  <1>6. r \in PositionType /\ r.qty = b /\ r.avg = e /\ r.realized = p.realized
    BY <1>3, <1>4, <1>5 DEF PositionType
  <1>. QED  BY <1>5, <1>6 DEF a, b, r

LEMMA LeaveFacts ==
    ASSUME NEW p \in PositionType, NEW n \in Nat \ {0}, n <= p.qty, NEW price \in Nat
    PROVE  /\ leave(p, n, price) \in PositionType
           /\ leave(p, n, price).qty = p.qty - n
           /\ leave(p, n, price).qty = 0 => leave(p, n, price) = NoPosition
           /\ leave(p, n, price).avg * leave(p, n, price).qty <= p.avg * p.qty
  <1> DEFINE r == leave(p, n, price)
  <1>1. p.qty \in Nat /\ p.avg \in Nat /\ p.realized \in Int
    BY DEF PositionType
  <1>2. CASE n = p.qty
    <2>1. r = NoPosition
      BY <1>2 DEF leave
    <2>2. NoPosition \in PositionType /\ NoPosition.qty = 0 /\ NoPosition.avg = 0
      BY DEF NoPosition, PositionType
    <2>3. p.avg * p.qty \in Nat
      BY <1>1
    <2>. QED  BY <1>1, <1>2, <2>1, <2>2, <2>3
  <1>3. CASE n # p.qty
    <2> DEFINE gain == p.realized + (price - p.avg) * n
               left == p.qty - n
    <2>1. gain \in Int /\ left \in Nat \ {0} /\ left <= p.qty
      <3>1. (price - p.avg) * n \in Int
        <4>1. price - p.avg \in Int /\ n \in Int
          BY <1>1
        <4>. QED  BY <4>1
      <3>2. left \in Nat \ {0} /\ left <= p.qty
        BY <1>1, <1>3
      <3>. QED  BY <1>1, <3>1, <3>2
    <2>2. r = [p EXCEPT !.qty = left, !.realized = gain]
      BY <1>3 DEF leave
    <2>3. p.avg * left <= p.avg * p.qty
      <3> HIDE DEF left
      <3>. QED  BY <1>1, <2>1, ProductMonotone
    <2> HIDE DEF r, left, gain
    <2>4. r \in PositionType /\ r.qty = left /\ r.avg = p.avg
      BY <2>1, <2>2 DEF PositionType
    <2>. QED  BY <2>1, <2>3, <2>4 DEF r, left
  <1>. QED  BY <1>2, <1>3

LEMMA PositionCosts ==
    ASSUME NEW a \in [Instruments -> PositionType]
    PROVE  /\ [i \in Instruments |-> a[i].avg * a[i].qty] \in [Instruments -> Int]
           /\ Total([i \in Instruments |-> a[i].avg * a[i].qty]) \in Nat
  <1> DEFINE f == [i \in Instruments |-> a[i].avg * a[i].qty]
  <1>1. \A i \in Instruments : a[i].avg \in Nat /\ a[i].qty \in Nat
    BY DEF PositionType
  <1>2. \A i \in Instruments : a[i].avg * a[i].qty \in Nat
    BY <1>1
  <1>3. f \in [Instruments -> Int] /\ \A i \in Instruments : 0 <= f[i]
    BY <1>2
  <1>4. IsFiniteSet(Instruments)
    BY LedgerAssumption
  <1> HIDE DEF f
  <1>5. Total(f) \in Nat
    BY <1>3, <1>4, TotalNonnegative
  <1>. QED  BY <1>3, <1>5 DEF f

\* The cost of all positions when one of them changes.
LEMMA CostUpdate ==
    ASSUME NEW a \in [Instruments -> PositionType], NEW b \in [Instruments -> PositionType],
           NEW x \in Instruments, \A i \in Instruments \ {x} : b[i] = a[i]
    PROVE  Total([i \in Instruments |-> b[i].avg * b[i].qty])
             = Total([i \in Instruments |-> a[i].avg * a[i].qty]) - a[x].avg * a[x].qty
                 + b[x].avg * b[x].qty
  <1> DEFINE f == [i \in Instruments |-> a[i].avg * a[i].qty]
             g == [i \in Instruments |-> b[i].avg * b[i].qty]
  <1>1. /\ f \in [Instruments -> Int] /\ f[x] = a[x].avg * a[x].qty
        /\ g \in [Instruments -> Int] /\ g[x] = b[x].avg * b[x].qty
        /\ \A i \in Instruments \ {x} : g[i] = f[i]
    BY PositionCosts
  <1>2. IsFiniteSet(Instruments)
    BY LedgerAssumption
  <1> HIDE DEF f, g
  <1>3. Total(g) = Total(f) - f[x] + g[x]
    BY <1>1, <1>2, TotalUpdate
  <1>. QED  BY <1>1, <1>3 DEF f, g

\* What one fill does to the accounts.
TurnEffect(acc, f, r) ==
    LET p == acc.pos[f.inst]
        w == f.price * f.qty
    IN  /\ f \in FillType /\ r \in AccountsType /\ ~r.raised /\ w \in Nat
        /\ r.fills = Append(acc.fills, f)
        /\ f.side = "BUY" => /\ w <= acc.cash
                             /\ r.cash = acc.cash - w
                             /\ r.pos = [acc.pos EXCEPT ![f.inst] = enter(p, f.qty, f.price)]
        /\ f.side = "SELL" => /\ f.qty <= p.qty
                              /\ r.cash = acc.cash + w
                              /\ r.pos = [acc.pos EXCEPT ![f.inst] = leave(p, f.qty, f.price)]

\* The reservations cover it.
LEMMA TurnResult ==
    ASSUME NEW L, Sound(L), NEW q \in Quotes, NEW t \in Nat, NEW hits,
           NEW k \in DOMAIN L.orders, fill_quantity(L, k, q, t, hits) > 0,
           NEW acc, BooksInLoop(L, q, t, hits, k - 1, acc)
    PROVE  TurnEffect(acc, fill_of(L, k, q, t, hits),
                      apply_fill(acc, fill_of(L, k, q, t, hits)))
  <1> DEFINE o == L.orders[k]
             n == fill_quantity(L, k, q, t, hits)
             price == executable_price(o, q)
             f == fill_of(L, k, q, t, hits)
             p == acc.pos[q.inst]
             w == f.price * f.qty
             r == apply_fill(acc, f)
             a == Turned(L, q, t, hits, k - 1)
             b == Turned(L, q, t, hits, k)
  <1>1. o \in OrderType /\ OrderSound(o) /\ k \in Nat \ {0}
    BY OrderOf DEF Sound, LedgerType
  <1>2. /\ n \in Nat \ {0} /\ price \in Nat /\ o.inst = q.inst /\ o.side \in Sides
        /\ o.side = "BUY" => price <= o.limit
        /\ o.limit \in Nat
    BY <1>1, FillFacts DEF OrderType
  <1>3. /\ f.order = k /\ f.key = o.key /\ f.quote = q.id /\ f.inst = q.inst /\ f.side = o.side
        /\ f.at = t /\ f.price = price /\ f.qty = n
    BY DEF fill_of
  <1>4. f \in FillType
    <2>1. o.key \in Keys /\ q.id \in Nat \ {0} /\ q.inst \in Instruments
      BY <1>1 DEF OrderType, Quotes
    <2> HIDE DEF n, price
    <2>. QED  BY <1>1, <1>2, <2>1 DEF fill_of, FillType, n, price
  <1>5. acc \in AccountsType /\ ~acc.raised /\ p \in PositionType /\ q.inst \in Instruments
    BY DEF BooksInLoop, AccountsType, Quotes
  <1>6. /\ o.side = "BUY" => n * o.limit <= SetAside(a)
        /\ \A i \in Instruments : o.side = "SELL" /\ o.inst = i => n <= Committed(a, i)
    <2>1. AsideTurned(o, n, a, b)
      BY TurnAside
    <2> HIDE DEF o, n, a, b
    <2>. QED  BY <1>2, <2>1 DEF AsideTurned
  <1>7. SetAside(a) <= acc.cash /\ \A i \in Instruments : Committed(a, i) <= acc.pos[i].qty
    BY DEF BooksInLoop, Covers
  <1>8. /\ SetAside(a) \in Nat /\ \A i \in Instruments : Committed(a, i) \in Nat
    <2>1. k - 1 \in Nat
      BY <1>1
    <2>2. a \in Seq(OrderType) /\ \A j \in DOMAIN a : OrderSound(a[j])
      BY <2>1, TurnedFacts
    <2> HIDE DEF a
    <2>. QED  BY <2>2, AsideTotals
  <1> HIDE DEF o, n, price, f, p, a, b
  <1>9. w \in Nat /\ f.qty # 0 /\ ~acc.raised
    BY <1>2, <1>3, <1>5
  <1>10. acc.cash \in Int /\ p.qty \in Nat /\ p.avg \in Nat /\ p.realized \in Int
    BY <1>5 DEF AccountsType, PositionType
  <1>11. CASE f.side = "BUY"
    <2>1. w <= acc.cash
      <3>1. price * n <= n * o.limit /\ n * o.limit \in Nat
        BY <1>2, <1>3, <1>11, ProductMonotone
      <3>2. w = price * n
        BY <1>3
      <3>3. n * o.limit <= SetAside(a)
        BY <1>3, <1>6, <1>11
      <3> HIDE DEF w
      <3>. QED  BY <1>7, <1>8, <1>9, <1>10, <3>1, <3>2, <3>3
    <2>2. r = [acc EXCEPT !.cash = acc.cash - w,
                          !.pos = [acc.pos EXCEPT ![q.inst] = enter(p, f.qty, f.price)],
                          !.fills = Append(acc.fills, f)]
      <3>1. ~(w > acc.cash)
        BY <1>9, <1>10, <2>1
      <3>. QED  BY <1>3, <1>5, <1>9, <1>11, <3>1 DEF apply_fill, p, AccountsType
    <2>3. enter(p, f.qty, f.price) \in PositionType
      BY <1>2, <1>3, <1>5, EnterFacts
    <2> DEFINE e == [acc.pos EXCEPT ![q.inst] = enter(p, f.qty, f.price)]
               c == acc.cash - w
               s == Append(acc.fills, f)
    <2>4. e \in [Instruments -> PositionType] /\ c \in Int /\ s \in Seq(FillType)
      BY <1>4, <1>5, <1>9, <1>10, <2>3 DEF AccountsType
    <2> HIDE DEF e, c, s, r, w
    <2>5. r = [acc EXCEPT !.cash = c, !.pos = e, !.fills = s]
      BY <2>2 DEF e, c, s
    <2>6. r \in AccountsType /\ ~r.raised /\ r.cash = c /\ r.pos = e /\ r.fills = s
      BY <1>5, <2>4, <2>5 DEF AccountsType
    <2>. QED  BY <1>3, <1>4, <1>9, <1>11, <2>1, <2>6 DEF TurnEffect, e, c, s, f, p, w, r
  <1>12. CASE f.side = "SELL"
    <2>1. f.qty <= p.qty
      <3>1. n <= Committed(a, q.inst) /\ Committed(a, q.inst) <= p.qty /\ Committed(a, q.inst) \in Nat
        BY <1>2, <1>3, <1>5, <1>6, <1>7, <1>8, <1>12 DEF p
      <3>. QED  BY <1>2, <1>3, <1>10, <3>1
    <2> DEFINE gain == (f.price - p.avg) * f.qty
               e == [acc.pos EXCEPT ![q.inst] = leave(p, f.qty, f.price)]
               c == acc.cash + w
               s == Append(acc.fills, f)
               z == acc.realized + gain
               d == [acc.closed EXCEPT ![q.inst] =
                       IF f.qty = p.qty THEN acc.closed[q.inst] + p.realized + gain
                       ELSE acc.closed[q.inst]]
    <2>2. r = [acc EXCEPT !.cash = c, !.realized = z, !.closed = d, !.pos = e, !.fills = s]
      <3>1. ~(f.qty > p.qty)
        BY <1>2, <1>3, <1>10, <2>1
      <3>2. f.side # "BUY"
        BY <1>12
      <3>. QED  BY <1>3, <1>5, <1>9, <3>1, <3>2 DEF apply_fill, p, AccountsType
    <2>3. leave(p, f.qty, f.price) \in PositionType
      BY <1>2, <1>3, <1>5, <2>1, LeaveFacts
    <2>4. gain \in Int
      <3>1. f.price - p.avg \in Int /\ f.qty \in Int
        BY <1>2, <1>3, <1>10
      <3>. QED  BY <3>1
    <2> HIDE DEF gain, r, w
    <2>5. /\ e \in [Instruments -> PositionType] /\ c \in Int /\ s \in Seq(FillType) /\ z \in Int
          /\ d \in [Instruments -> Int]
      <3>1. /\ acc.cash \in Int /\ acc.realized \in Int /\ acc.closed \in [Instruments -> Int]
            /\ acc.pos \in [Instruments -> PositionType] /\ acc.fills \in Seq(FillType)
            /\ q.inst \in Instruments
        BY <1>5 DEF AccountsType
      <3>2. s \in Seq(FillType)
        BY <1>4, <3>1, AppendProperties
      <3>3. e \in [Instruments -> PositionType]
        BY <1>9, <2>3, <3>1
      <3>4. c \in Int /\ z \in Int
        BY <1>9, <2>4, <3>1
      <3>5. d \in [Instruments -> Int]
        BY <1>9, <1>10, <2>4, <3>1
      <3>. QED  BY <3>2, <3>3, <3>4, <3>5
    <2> HIDE DEF e, c, s, z, d
    <2>6. /\ r \in AccountsType /\ ~r.raised /\ r.cash = c /\ r.pos = e /\ r.fills = s
      BY <1>5, <2>2, <2>5 DEF AccountsType
    <2>. QED  BY <1>3, <1>4, <1>9, <1>12, <2>1, <2>6 DEF TurnEffect, e, c, s, f, p, w, r
  <1>13. f.side \in {"BUY", "SELL"}
    BY <1>2, <1>3 DEF Sides
  <1>. QED  BY <1>11, <1>12, <1>13 DEF f

\* A turn of the loop keeps the accounts covering the orders, so it never raises, and adds
\* neither risk nor an instrument to it.
LEMMA BooksTurn ==
    ASSUME NEW L, Sound(L), NEW q \in Quotes, NEW t \in Nat, NEW hits,
           NEW k \in DOMAIN L.orders, NEW acc, BooksInLoop(L, q, t, hits, k - 1, acc)
    PROVE  BooksInLoop(L, q, t, hits, k, apply_fill(acc, fill_of(L, k, q, t, hits)))
  <1> DEFINE o == L.orders[k]
             n == fill_quantity(L, k, q, t, hits)
             f == fill_of(L, k, q, t, hits)
             r == apply_fill(acc, f)
             a == Turned(L, q, t, hits, k - 1)
             b == Turned(L, q, t, hits, k)
             p == acc.pos[q.inst]
             w == f.price * f.qty
             cost(s) == Total([i \in Instruments |-> s[i].avg * s[i].qty])
  <1>1. n \in Nat /\ f.qty = n /\ f.side = o.side /\ k \in Nat \ {0}
    BY FillFacts, OrderOf DEF fill_of, Sound, LedgerType
  <1>2. CASE n = 0
    <2>1. b = a
      <3>1. AsideTurned(o, n, a, b)
        BY TurnAside
      <3> HIDE DEF o, n, a, b
      <3>. QED  BY <1>2, <3>1 DEF AsideTurned
    <2>2. r = acc
      BY <1>1, <1>2 DEF apply_fill
    <2>. QED  BY <2>1, <2>2 DEF BooksInLoop
  <1>3. CASE n > 0
    <2>1. /\ f \in FillType /\ r \in AccountsType /\ ~r.raised /\ w \in Nat
          /\ f.side = "BUY" => /\ w <= acc.cash
                               /\ r.cash = acc.cash - w
                               /\ r.pos = [acc.pos EXCEPT ![q.inst] = enter(p, f.qty, f.price)]
          /\ f.side = "SELL" => /\ f.qty <= p.qty
                                /\ r.cash = acc.cash + w
                                /\ r.pos = [acc.pos EXCEPT ![q.inst] = leave(p, f.qty, f.price)]
      <3>1. TurnEffect(acc, f, r) /\ f.inst = q.inst
        BY <1>3, TurnResult DEF fill_of
      <3> HIDE DEF f, r
      <3>. QED  BY <3>1 DEF TurnEffect
    <2>2. /\ SetAside(b) = SetAside(a) - (IF o.side = "BUY" THEN n * o.limit ELSE 0)
          /\ \A i \in Instruments :
                Committed(b, i) = Committed(a, i) - (IF o.side = "SELL" /\ o.inst = i THEN n ELSE 0)
      <3>1. AsideTurned(o, n, a, b)
        BY TurnAside
      <3> HIDE DEF o, n, a, b
      <3>. QED  BY <1>3, <3>1 DEF AsideTurned
    <2>3. /\ o \in OrderType /\ OrderSound(o) /\ o.inst = q.inst /\ o.st \in OpenStates
          /\ f.price \in Nat /\ (o.side = "BUY" => f.price <= o.limit)
          /\ o.limit \in Nat /\ o.side \in {"BUY", "SELL"} /\ q.inst \in Instruments
      <3>1. o \in OrderType /\ OrderSound(o)
        BY OrderOf DEF Sound, LedgerType
      <3>2. o.limit \in Nat /\ o.side \in {"BUY", "SELL"} /\ q.inst \in Instruments
        BY <3>1 DEF OrderType, Quotes, Sides
      <3>3. f.price = executable_price(o, q)
        BY DEF fill_of
      <3>. QED  BY <1>3, <3>1, <3>2, <3>3, FillFacts
    <2>4. /\ acc \in AccountsType /\ p \in PositionType /\ acc.cash \in Int
          /\ SetAside(a) <= acc.cash /\ \A i \in Instruments : Committed(a, i) <= acc.pos[i].qty
          /\ PositionsSound(acc.pos)
          /\ cost(acc.pos) + SetAside(a) <= RiskOf(L.pos, L.orders)
          /\ \A i \in Instruments : acc.pos[i].qty > 0 => Exposed(L.pos, L.orders, i)
          /\ \A i \in Instruments \ {q.inst} : acc.pos[i] = L.pos[i]
      BY <2>3 DEF BooksInLoop, Covers, AccountsType, RiskOf
    <2>5. /\ SetAside(a) \in Nat /\ \A i \in Instruments : Committed(a, i) \in Nat
          /\ SetAside(b) \in Nat /\ \A i \in Instruments : Committed(b, i) \in Nat
      <3>1. k - 1 \in Nat /\ k \in Nat
        BY <1>1
      <3>2. /\ a \in Seq(OrderType) /\ \A j \in DOMAIN a : OrderSound(a[j])
            /\ b \in Seq(OrderType) /\ \A j \in DOMAIN b : OrderSound(b[j])
        BY <3>1, TurnedFacts
      <3> HIDE DEF a, b
      <3>. QED  BY <3>2, AsideTotals
    <2>6. RiskOf(L.pos, L.orders) \in Int
      <3>1. SetAside(L.orders) \in Nat
        BY AsideTotals DEF Sound, LedgerType
      <3>2. cost(L.pos) \in Nat
        BY PositionCosts DEF Sound, LedgerType
      <3>. QED  BY <3>1, <3>2 DEF RiskOf
    <2>7. /\ p.qty \in Nat /\ p.avg \in Nat /\ p.avg * p.qty \in Nat
          /\ \A i \in Instruments : acc.pos[i] \in PositionType /\ acc.pos[i].qty \in Nat
          /\ acc.pos \in [Instruments -> PositionType]
      BY <2>4 DEF AccountsType, PositionType
    <2>8. cost(acc.pos) \in Nat /\ cost(r.pos) \in Nat
      <3>1. r.pos \in [Instruments -> PositionType]
        BY <2>1 DEF AccountsType
      <3>. QED  BY <2>7, <3>1, PositionCosts
    <2>9. n * o.limit \in Nat /\ f.qty \in Nat \ {0}
      BY <1>1, <1>3, <2>3
    <2>10. CASE o.side = "BUY"
      <3> DEFINE e == enter(p, f.qty, f.price)
      <3>1. /\ e \in PositionType /\ e.qty = p.qty + f.qty
            /\ e.avg * e.qty <= p.avg * p.qty + w /\ e.avg * e.qty \in Nat
        <4>1. e \in PositionType /\ e.qty = p.qty + f.qty /\ e.avg * e.qty <= p.avg * p.qty + w
          BY <2>3, <2>4, <2>9, EnterFacts
        <4>2. e.avg \in Nat /\ e.qty \in Nat
          BY <4>1 DEF PositionType
        <4>3. e.avg * e.qty \in Nat
          BY <4>2
        <4>. QED  BY <4>1, <4>3
      <3>2. w <= n * o.limit
        <4>1. f.price * n <= o.limit * n /\ o.limit * n = n * o.limit
          BY <1>1, <2>3, <2>10, ProductMonotone
        <4>. QED  BY <1>1, <4>1
      <3>3. r.pos = [acc.pos EXCEPT ![q.inst] = e] /\ r.cash = acc.cash - w
        BY <1>1, <2>1, <2>10
      <3>5. r.pos[q.inst] = e /\ \A i \in Instruments \ {q.inst} : r.pos[i] = acc.pos[i]
        <4> HIDE DEF e, r
        <4>. QED  BY <2>3, <2>7, <3>3
      <3>4. cost(r.pos) = cost(acc.pos) - p.avg * p.qty + e.avg * e.qty
        <4>1. r.pos \in [Instruments -> PositionType]
          BY <2>1 DEF AccountsType
        <4> HIDE DEF e, r
        <4>. QED  BY <2>3, <2>7, <3>5, <4>1, CostUpdate
      <3> DEFINE x == n * o.limit
                 y == e.avg * e.qty
                 z == p.avg * p.qty
      <3>6. SetAside(b) = SetAside(a) - x /\ \A i \in Instruments : Committed(b, i) = Committed(a, i)
        <4>1. o.side # "SELL"
          BY <2>10
        <4> HIDE DEF a, b
        <4>. QED  BY <2>2, <2>5, <2>10, <4>1
      <3>7. x \in Nat /\ y \in Nat /\ z \in Nat /\ w <= x /\ y <= z + w
            /\ cost(r.pos) = cost(acc.pos) - z + y
        BY <2>7, <2>9, <3>1, <3>2, <3>4
      <3> HIDE DEF a, b, r, w, x, y, z, cost, o, n, f, p, e
      <3>8. SetAside(b) <= r.cash
        BY <2>1, <2>4, <2>5, <3>3, <3>6, <3>7
      <3>9. cost(r.pos) + SetAside(b) <= RiskOf(L.pos, L.orders)
        BY <2>1, <2>4, <2>5, <2>6, <2>8, <3>6, <3>7
      <3>10. \A i \in Instruments : acc.pos[i].qty <= r.pos[i].qty
        <4>1. acc.pos[q.inst].qty <= r.pos[q.inst].qty
          BY <2>7, <2>9, <3>1, <3>5 DEF p
        <4>. QED  BY <2>7, <3>5, <4>1
      <3>11. \A i \in Instruments : Committed(b, i) <= r.pos[i].qty
        <4>1. \A i \in Instruments : r.pos[i].qty \in Nat
          BY <2>1 DEF AccountsType, PositionType
        <4>. QED  BY <2>4, <2>5, <2>7, <3>6, <3>10, <4>1
      <3>12. PositionsSound(r.pos)
        <4>1. r.pos[q.inst].qty # 0
          BY <2>7, <2>9, <3>1, <3>5
        <4>. QED  BY <2>4, <3>5, <4>1 DEF PositionsSound
      <3>13. Exposed(L.pos, L.orders, q.inst)
        <4>1. k \in DOMAIN L.orders /\ working(L.orders[k], "BUY") /\ L.orders[k].inst = q.inst
          BY <2>3, <2>10 DEF o, working
        <4>. QED  BY <4>1 DEF Exposed
      <3>14. \A i \in Instruments : r.pos[i].qty > 0 => Exposed(L.pos, L.orders, i)
        BY <2>4, <3>5, <3>13
      <3>. QED  BY <2>1, <2>4, <3>5, <3>8, <3>9, <3>11, <3>12, <3>14
                DEF BooksInLoop, Covers, RiskOf, r, f, b, cost
    <2>11. CASE o.side = "SELL"
      <3> DEFINE e == leave(p, f.qty, f.price)
      <3>1. f.qty <= p.qty /\ r.cash = acc.cash + w /\ r.pos = [acc.pos EXCEPT ![q.inst] = e]
        BY <1>1, <2>1, <2>11
      <3>2. /\ e \in PositionType /\ e.qty = p.qty - f.qty /\ (e.qty = 0 => e = NoPosition)
            /\ e.avg * e.qty <= p.avg * p.qty /\ e.avg * e.qty \in Nat
        <4>1. /\ e \in PositionType /\ e.qty = p.qty - f.qty /\ (e.qty = 0 => e = NoPosition)
              /\ e.avg * e.qty <= p.avg * p.qty
          BY <2>3, <2>4, <2>9, <3>1, LeaveFacts
        <4>2. e.avg \in Nat /\ e.qty \in Nat
          BY <4>1 DEF PositionType
        <4>3. e.avg * e.qty \in Nat
          BY <4>2
        <4>. QED  BY <4>1, <4>3
      <3>4. r.pos[q.inst] = e /\ \A i \in Instruments \ {q.inst} : r.pos[i] = acc.pos[i]
        <4> HIDE DEF e, r
        <4>. QED  BY <2>3, <2>7, <3>1
      <3>3. cost(r.pos) = cost(acc.pos) - p.avg * p.qty + e.avg * e.qty
        <4>1. r.pos \in [Instruments -> PositionType]
          BY <2>1 DEF AccountsType
        <4> HIDE DEF e, r
        <4>. QED  BY <2>3, <2>7, <3>4, <4>1, CostUpdate
      <3> DEFINE y == e.avg * e.qty
                 z == p.avg * p.qty
      <3>5. /\ SetAside(b) = SetAside(a)
            /\ Committed(b, q.inst) = Committed(a, q.inst) - f.qty
            /\ \A i \in Instruments \ {q.inst} : Committed(b, i) = Committed(a, i)
        <4>1. o.side # "BUY" /\ o.inst = q.inst /\ f.qty = n
          BY <1>1, <2>3, <2>11
        <4> HIDE DEF a, b, n
        <4>. QED  BY <2>2, <2>3, <2>5, <2>11, <4>1
      <3>6. y \in Nat /\ z \in Nat /\ y <= z /\ cost(r.pos) = cost(acc.pos) - z + y
        BY <2>7, <3>2, <3>3
      <3> HIDE DEF a, b, r, w, y, z, cost, o, n, f, p, e
      <3>7. SetAside(b) <= r.cash
        BY <2>1, <2>4, <2>5, <3>1, <3>5
      <3>8. cost(r.pos) + SetAside(b) <= RiskOf(L.pos, L.orders)
        BY <2>4, <2>5, <2>6, <2>8, <3>5, <3>6
      <3>9. \A i \in Instruments : Committed(b, i) <= r.pos[i].qty
        <4>1. Committed(b, q.inst) <= r.pos[q.inst].qty
          <5>1. Committed(a, q.inst) <= p.qty /\ Committed(a, q.inst) \in Nat
            BY <2>3, <2>4, <2>5 DEF p
          <5>. QED  BY <2>7, <2>9, <3>2, <3>4, <3>5, <5>1
        <4>. QED  BY <2>4, <3>4, <3>5, <4>1
      <3>10. PositionsSound(r.pos)
        BY <2>4, <3>2, <3>4 DEF PositionsSound
      <3>11. \A i \in Instruments : r.pos[i].qty > 0 => Exposed(L.pos, L.orders, i)
        <4>1. r.pos[q.inst].qty > 0 => acc.pos[q.inst].qty > 0
          BY <2>7, <2>9, <3>2, <3>4 DEF p
        <4>. QED  BY <2>4, <3>4, <4>1
      <3>. QED  BY <2>1, <2>4, <3>4, <3>7, <3>8, <3>9, <3>10, <3>11
                DEF BooksInLoop, Covers, RiskOf, r, f, b, cost
    <2>. QED  BY <2>3, <2>10, <2>11
  <1>. QED  BY <1>1, <1>2, <1>3

\* A turn of the loop appends at most one fill, of its own order.
LEMMA FillsTurn ==
    ASSUME NEW L, Sound(L), NEW q \in Quotes, NEW t \in Nat, NEW hits,
           NEW k \in DOMAIN L.orders, NEW acc, BooksInLoop(L, q, t, hits, k - 1, acc),
           FillsInLoop(L, q, t, hits, k - 1, acc)
    PROVE  FillsInLoop(L, q, t, hits, k, apply_fill(acc, fill_of(L, k, q, t, hits)))
  <1> DEFINE n == fill_quantity(L, k, q, t, hits)
             f == fill_of(L, k, q, t, hits)
             r == apply_fill(acc, f)
             s == acc.fills
  <1>1. n \in Nat /\ f.qty = n /\ f.order = k /\ k \in Nat \ {0}
    BY FillFacts, OrderOf DEF fill_of, Sound, LedgerType
  <1>2. L.fills \in Seq(FillType) /\ s \in Seq(FillType)
    BY DEF Sound, LedgerType, BooksInLoop, AccountsType
  <1>3. CASE n = 0
    <2>1. r = acc
      BY <1>1, <1>3 DEF apply_fill
    <2>2. \A m : m \in 1..(k - 1) => m \in 1..k
      BY <1>1
    <2> HIDE DEF r
    <2>. QED  BY <2>1, <2>2 DEF FillsInLoop, r, f
  <1>4. CASE n > 0
    <2>1. f \in FillType /\ r.fills = Append(s, f)
      <3>1. TurnEffect(acc, f, r)
        BY <1>4, TurnResult
      <3> HIDE DEF f, r
      <3>. QED  BY <3>1 DEF TurnEffect
    <2> DEFINE u == Append(s, f)
               m == Len(s) + 1
               D == DOMAIN L.fills
    <2>2. /\ Len(u) = m /\ Len(s) \in Nat /\ Len(L.fills) \in Nat
          /\ \A j \in DOMAIN s : u[j] = s[j]
          /\ u[m] = f
          /\ \A j \in DOMAIN u : j = m \/ j \in DOMAIN s
          /\ D = 1..Len(L.fills) /\ DOMAIN s = 1..Len(s)
      BY <1>2, <2>1, AppendProperties
    <2>3. /\ Len(L.fills) <= Len(s)
          /\ \A j \in D : s[j] = L.fills[j]
          /\ \A j \in DOMAIN s \ D : s[j].order \in 1..(k - 1) /\ s[j] = fill_of(L, s[j].order, q, t, hits)
          /\ \A i, j \in DOMAIN s \ D : s[i].order = s[j].order => i = j
      BY DEF FillsInLoop
    <2> HIDE DEF n, f, r, s, u, m
    <2>4. Len(L.fills) <= Len(u) /\ \A j \in D : j \in DOMAIN s
      BY <2>2, <2>3 DEF m
    <2>5. \A j \in D : u[j] = L.fills[j]
      BY <2>2, <2>3, <2>4
    <2> HIDE DEF D
    <2>6. \A j \in DOMAIN u \ D : u[j].order \in 1..k /\ u[j] = fill_of(L, u[j].order, q, t, hits)
      <3> SUFFICES ASSUME NEW j \in DOMAIN u \ D
                   PROVE  u[j].order \in 1..k /\ u[j] = fill_of(L, u[j].order, q, t, hits)
        OBVIOUS
      <3>1. CASE j = m
        BY <1>1, <2>2, <3>1 DEF f
      <3>2. CASE j \in DOMAIN s
        <4>1. u[j] = s[j] /\ s[j].order \in 1..(k - 1) /\ s[j] = fill_of(L, s[j].order, q, t, hits)
          BY <2>2, <2>3, <3>2
        <4>2. s[j].order \in 1..k
          BY <1>1, <4>1
        <4>. QED  BY <4>1, <4>2
      <3>. QED  BY <2>2, <3>1, <3>2
    <2>7. \A i, j \in DOMAIN u \ D : u[i].order = u[j].order => i = j
      <3> SUFFICES ASSUME NEW i \in DOMAIN u \ D, NEW j \in DOMAIN u \ D, u[i].order = u[j].order
                   PROVE  i = j
        OBVIOUS
      <3>1. \A x \in DOMAIN s \ D : u[x] = s[x] /\ s[x].order # k
        BY <1>1, <2>2, <2>3
      <3>2. u[m].order = k
        BY <1>1, <2>2
      <3>. QED  BY <2>2, <2>3, <3>1, <3>2
    <2>. QED  BY <2>1, <2>4, <2>5, <2>6, <2>7 DEF FillsInLoop, u, s, r, f, D
  <1>. QED  BY <1>1, <1>3, <1>4

-----------------------------------------------------------------------------
\* What a quote leaves

\* The whole loop: the reservations cover every fill of a quote.
LEMMA AccountsCovered ==
    ASSUME NEW L, Sound(L), NEW q \in Quotes, NEW t \in Nat, NEW hits
    PROVE  /\ BooksInLoop(L, q, t, hits, Len(L.orders), accounts(L, q, t, hits))
           /\ FillsInLoop(L, q, t, hits, Len(L.orders), accounts(L, q, t, hits))
  <1> DEFINE n == Len(L.orders)
  <1>1. L.orders \in Seq(OrderType) /\ n \in Nat /\ DOMAIN L.orders = 1..n
    BY DEF Sound, LedgerType
  <1>2. PICK h : /\ h[0] = Start(L)
                 /\ \A k \in 1..n : h[k] = apply_fill(h[k - 1], fill_of(L, k, q, t, hits))
                 /\ accounts(L, q, t, hits) = h[n]
    BY <1>1, AccountsLoop
  <1> DEFINE Good(k) == /\ BooksInLoop(L, q, t, hits, k, h[k])
                        /\ FillsInLoop(L, q, t, hits, k, h[k])
             Bad == {k \in 0..n : ~Good(k)}
  <1> HIDE DEF n
  <1>3. Good(0)
    <2>1. Turned(L, q, t, hits, 0) = L.orders
      <3>1. \A j \in DOMAIN L.orders : ~(j <= 0)
        BY <1>1
      <3>2. L.orders = [j \in DOMAIN L.orders |-> L.orders[j]]
        BY <1>1
      <3>. QED  BY <3>1, <3>2 DEF Turned
    <2>2. Start(L) \in AccountsType /\ ~Start(L).raised
      BY DEF Start, AccountsType, Sound, LedgerType
    <2>3. Start(L).cash = L.cash /\ Start(L).pos = L.pos /\ Start(L).fills = L.fills
      BY DEF Start
    <2>4. RiskOf(L.pos, L.orders) \in Int
      <3>1. SetAside(L.orders) \in Nat
        BY AsideTotals DEF Sound, LedgerType
      <3>2. Total([i \in Instruments |-> L.pos[i].avg * L.pos[i].qty]) \in Nat
        BY PositionCosts DEF Sound, LedgerType
      <3>. QED  BY <3>1, <3>2 DEF RiskOf
    <2>5. BooksInLoop(L, q, t, hits, 0, Start(L))
      BY <2>1, <2>2, <2>3, <2>4 DEF BooksInLoop, Sound, Exposed
    <2>6. FillsInLoop(L, q, t, hits, 0, Start(L))
      <3>1. Len(L.fills) <= Len(L.fills)
        BY DEF Sound, LedgerType
      <3>. QED  BY <2>3, <3>1 DEF FillsInLoop
    <2>. QED  BY <1>2, <2>5, <2>6
  <1>4. Bad = {}
    <2>1. SUFFICES ASSUME Bad # {} PROVE FALSE
      OBVIOUS
    <2>2. PICK k \in Bad : \A d \in Bad : k <= d
      <3>1. Bad \in SUBSET Nat
        BY <1>1
      <3> HIDE DEF Bad
      <3>. QED  BY <2>1, <3>1, LeastNumber
    <2>3. k \in 0..n /\ ~Good(k)
      BY <2>2
    <2> HIDE DEF Good
    <2>4. k # 0
      BY <1>3, <2>3
    <2>5. k - 1 \in 0..n /\ k \in 1..n /\ ~(k <= k - 1)
      BY <1>1, <2>3, <2>4
    <2>6. k - 1 \notin Bad
      BY <2>2, <2>5
    <2>7. Good(k - 1)
      BY <2>5, <2>6
    <2>8. k \in DOMAIN L.orders /\ h[k] = apply_fill(h[k - 1], fill_of(L, k, q, t, hits))
      BY <1>1, <1>2, <2>5
    <2>9. Good(k)
      BY <2>7, <2>8, BooksTurn, FillsTurn DEF Good
    <2>. QED  BY <2>3, <2>9
  <1>5. Good(n)
    <2>1. n \in 0..n /\ n \notin Bad
      BY <1>1, <1>4
    <2> HIDE DEF Good
    <2>. QED  BY <2>1
  <1>. QED  BY <1>2, <1>5 DEF n

LEMMA RiskType ==
    ASSUME NEW L, Sound(L)
    PROVE  RiskOf(L.pos, L.orders) \in Nat
  <1>1. SetAside(L.orders) \in Nat
    BY AsideTotals DEF Sound, LedgerType
  <1>2. Total([i \in Instruments |-> L.pos[i].avg * L.pos[i].qty]) \in Nat
    BY PositionCosts DEF Sound, LedgerType
  <1>. QED  BY <1>1, <1>2 DEF RiskOf

\* What a ledger may forget of nothing: its keys, its orders, what they filled, its fills.
Grows(L, M) ==
    /\ \A p \in Keys : L.keys[p] # 0 => M.keys[p] = L.keys[p]
    /\ \A k \in DOMAIN L.orders :
          /\ k \in DOMAIN M.orders
          /\ M.orders[k].key = L.orders[k].key
          /\ M.orders[k].filled >= L.orders[k].filled
    /\ Len(L.fills) <= Len(M.fills)
    /\ \A j \in DOMAIN L.fills : M.fills[j] = L.fills[j]

\* What a quote does to the ledger.
ObserveEffect(L, q, t, orders, acc, M) ==
    /\ M \in LedgerType
    /\ M.orders = orders
    /\ M.cash = acc.cash /\ M.pos = acc.pos /\ M.fills = acc.fills
    /\ M.keys = L.keys /\ M.quotes = [L.quotes EXCEPT ![q.inst] = q]
    /\ M.entries \subseteq L.entries \union
          {<<Day(t), k>> : k \in {k \in DOMAIN L.orders : working(L.orders[k], "BUY")}}
    /\ L.entries \subseteq M.entries

LEMMA ObserveFields ==
    ASSUME NEW L, Sound(L), NEW q \in Quotes, NEW t \in Nat, NEW hits,
           L.quotes[q.inst].id # q.id
    PROVE  ObserveEffect(L, q, t, Turned(L, q, t, hits, Len(L.orders)),
                         accounts(L, q, t, hits), observe_quote(L, q, t, hits))
  <1> DEFINE M == observe_quote(L, q, t, hits)
             acc == accounts(L, q, t, hits)
             n == Len(L.orders)
             b == Turned(L, q, t, hits, n)
             filled == {k \in DOMAIN L.orders : fill_quantity(L, k, q, t, hits) > 0}
             new == {<<Day(t), k>> : k \in {j \in filled : L.orders[j].side = "BUY"}}
             quotes == [L.quotes EXCEPT ![q.inst] = q]
             entries == L.entries \union new
  <1>1. L \in LedgerType /\ L.orders \in Seq(OrderType) /\ n \in Nat /\ DOMAIN L.orders = 1..n
    BY DEF Sound, LedgerType
  <1>2. acc \in AccountsType
    BY AccountsCovered DEF BooksInLoop
  <1>3. [k \in DOMAIN L.orders |-> fill_order(L.orders[k], fill_quantity(L, k, q, t, hits))] = b
    <2>1. \A k \in DOMAIN L.orders : k <= n
      BY <1>1
    <2>. QED  BY <2>1 DEF Turned
  <1>4. b \in Seq(OrderType)
    BY <1>1, TurnedFacts
  <1>5. M = [L EXCEPT !.quotes = quotes, !.cash = acc.cash, !.pos = acc.pos,
                      !.realized = acc.realized, !.closed = acc.closed, !.orders = b,
                      !.entries = entries, !.fills = acc.fills]
    <2> HIDE DEF acc, b
    <2>. QED  BY <1>1, <1>3 DEF observe_quote, acc, LedgerType
  <1>6. Day(t) \in Int
    BY LedgerAssumption DEF Day
  <1>7. entries \in SUBSET (Int \X Nat)
    <2>1. \A k \in DOMAIN L.orders : k \in Nat
      BY <1>1
    <2>2. L.entries \in SUBSET (Int \X Nat)
      BY <1>1 DEF LedgerType
    <2>. QED  BY <1>6, <2>1, <2>2
  <1>8. quotes \in [Instruments -> Quotes \cup {NoQuote}]
    BY <1>1 DEF LedgerType, Quotes
  <1>9. new \subseteq {<<Day(t), k>> : k \in {k \in DOMAIN L.orders : working(L.orders[k], "BUY")}}
    <2>1. \A k \in filled : L.orders[k].side = "BUY" => working(L.orders[k], "BUY")
      BY FillFacts DEF working
    <2> HIDE DEF filled
    <2>. QED  BY <2>1 DEF filled
  <1> HIDE DEF M, acc, b, quotes, new
  <1>10. L.entries \subseteq entries
    OBVIOUS
  <1>11. entries \subseteq L.entries \union
                     {<<Day(t), k>> : k \in {k \in DOMAIN L.orders : working(L.orders[k], "BUY")}}
    BY <1>9
  <1> HIDE DEF entries
  <1>12. /\ M \in LedgerType /\ M.orders = b
         /\ M.cash = acc.cash /\ M.pos = acc.pos /\ M.fills = acc.fills
         /\ M.keys = L.keys /\ M.quotes = quotes /\ M.entries = entries
    BY <1>1, <1>2, <1>4, <1>5, <1>7, <1>8 DEF LedgerType, AccountsType
  <1>. QED  BY <1>10, <1>11, <1>12 DEF ObserveEffect, M, acc, b, n, quotes

\* observe_quote never raises on a sound ledger and leaves a sound one, that has grown.
LEMMA ObserveSound ==
    ASSUME NEW L, Sound(L), NEW q \in Quotes, NEW t \in Nat, NEW hits
    PROVE  /\ ~accounts(L, q, t, hits).raised
           /\ Sound(observe_quote(L, q, t, hits))
           /\ Grows(L, observe_quote(L, q, t, hits))
           /\ DOMAIN observe_quote(L, q, t, hits).orders = DOMAIN L.orders
           /\ RiskOf(observe_quote(L, q, t, hits).pos, observe_quote(L, q, t, hits).orders)
                <= RiskOf(L.pos, L.orders)
  <1> DEFINE M == observe_quote(L, q, t, hits)
             acc == accounts(L, q, t, hits)
             n == Len(L.orders)
             b == Turned(L, q, t, hits, n)
  <1>1. /\ L.orders \in Seq(OrderType) /\ n \in Nat /\ DOMAIN L.orders = 1..n
        /\ L.fills \in Seq(FillType)
        /\ \A k \in DOMAIN L.orders : L.orders[k] \in OrderType /\ OrderSound(L.orders[k])
    BY DEF Sound, LedgerType
  <1>2. BooksInLoop(L, q, t, hits, n, acc) /\ FillsInLoop(L, q, t, hits, n, acc)
    BY AccountsCovered
  <1>3. /\ ~acc.raised /\ Covers(acc.cash, acc.pos, b) /\ PositionsSound(acc.pos)
        /\ RiskOf(acc.pos, b) <= RiskOf(L.pos, L.orders)
    BY <1>2 DEF BooksInLoop
  <1>4. CASE L.quotes[q.inst].id = q.id
    <2>1. M = L
      BY <1>4 DEF observe_quote
    <2>2. RiskOf(L.pos, L.orders) \in Int
      BY RiskType
    <2>3. Grows(L, L)
      <3>1. \A k \in DOMAIN L.orders : L.orders[k].filled \in Nat
        BY <1>1 DEF OrderType
      <3>2. Len(L.fills) \in Nat
        BY <1>1
      <3>. QED  BY <3>1, <3>2 DEF Grows
    <2> HIDE DEF M
    <2>. QED  BY <1>3, <2>1, <2>2, <2>3 DEF M
  <1>5. CASE L.quotes[q.inst].id # q.id
    <2>1. /\ M \in LedgerType /\ M.orders = b
          /\ M.cash = acc.cash /\ M.pos = acc.pos /\ M.fills = acc.fills
          /\ M.keys = L.keys
      <3>1. ObserveEffect(L, q, t, b, acc, M)
        BY <1>5, ObserveFields
      <3> HIDE DEF M, acc, b
      <3>. QED  BY <3>1 DEF ObserveEffect
    <2>2. DOMAIN b = DOMAIN L.orders /\ \A j \in DOMAIN L.orders : OrderSound(b[j])
      <3>1. n \in Nat
        BY <1>1
      <3> HIDE DEF n
      <3>. QED  BY <3>1, TurnedFacts
    <2>3. \A k \in DOMAIN L.orders : b[k].key = L.orders[k].key /\ b[k].filled >= L.orders[k].filled
      <3> SUFFICES ASSUME NEW k \in DOMAIN L.orders
                   PROVE  b[k].key = L.orders[k].key /\ b[k].filled >= L.orders[k].filled
        OBVIOUS
      <3> DEFINE o == L.orders[k]
                 x == fill_quantity(L, k, q, t, hits)
      <3>1. x \in Nat /\ x <= Remaining(o)
        BY FillFacts
      <3>2. o \in OrderType /\ OrderSound(o) /\ o.filled \in Nat
        BY <1>1 DEF OrderType
      <3>3. b[k] = fill_order(o, x)
        <4>1. k <= n
          BY <1>1
        <4>. QED  BY <4>1 DEF Turned
      <3> HIDE DEF o, x, b
      <3>4. fill_order(o, x).key = o.key /\ fill_order(o, x).filled = o.filled + x
        BY <3>1, <3>2, FilledOrder
      <3>. QED  BY <3>1, <3>2, <3>3, <3>4 DEF o
    <2> HIDE DEF M, acc, b, n
    <2>4. Sound(M)
      BY <1>3, <2>1, <2>2 DEF Sound
    <2>5. Grows(L, M)
      BY <1>2, <2>1, <2>2, <2>3 DEF Grows, FillsInLoop
    <2>. QED  BY <1>3, <2>1, <2>2, <2>4, <2>5 DEF M, acc
  <1>. QED  BY <1>4, <1>5

-----------------------------------------------------------------------------
\* A new ledger, a placement, a cancellation, a deposit

\* Init is sound.
LEMMA NewLedgerSound == Sound(NewLedger)
  <1> DEFINE L == NewLedger
  <1>1. L \in LedgerType
    BY LedgerAssumption DEF NewLedger, LedgerType, PositionType, NoPosition
  <1>2. L.orders = <<>> /\ L.cash = InitialCash /\ \A i \in Instruments : L.pos[i] = NoPosition
    BY DEF NewLedger
  <1>3. SetAside(L.orders) = 0 /\ \A i \in Instruments : Committed(L.orders, i) = 0
    <2>1. \A f : f \in [{} -> Int] => Total(f) = 0
      BY TotalEmpty
    <2>2. DOMAIN L.orders = {}
      BY <1>2
    <2>3. [k \in DOMAIN L.orders |-> cash_set_aside(L.orders[k])] \in [{} -> Int]
      BY <2>2
    <2>4. \A i \in Instruments :
             [k \in DOMAIN L.orders |-> contracts_set_aside(L.orders[k], i)] \in [{} -> Int]
      BY <2>2
    <2>. QED  BY <2>1, <2>3, <2>4 DEF SetAside, Committed
  <1>4. Covers(L.cash, L.pos, L.orders)
    BY <1>2, <1>3, LedgerAssumption DEF Covers, NoPosition
  <1>5. PositionsSound(L.pos)
    BY <1>2 DEF PositionsSound
  <1>6. \A k \in DOMAIN L.orders : OrderSound(L.orders[k])
    BY <1>2
  <1> HIDE DEF L
  <1>7. Sound(L)
    BY <1>1, <1>4, <1>5, <1>6 DEF Sound
  <1>. QED  BY <1>7 DEF L

LEMMA SoundTotals ==
    ASSUME NEW L, Sound(L)
    PROVE  /\ SetAside(L.orders) \in Nat /\ SetAside(L.orders) <= L.cash /\ L.cash \in Int
           /\ \A i \in Instruments : /\ Committed(L.orders, i) \in Nat
                                     /\ Committed(L.orders, i) <= L.pos[i].qty
                                     /\ L.pos[i] \in PositionType /\ L.pos[i].qty \in Nat
  <1>1. L.orders \in Seq(OrderType) /\ \A k \in DOMAIN L.orders : OrderSound(L.orders[k])
    BY DEF Sound, LedgerType
  <1>. QED  BY <1>1, AsideTotals DEF Sound, LedgerType, Covers, PositionType

LEMMA SoundOrders ==
    ASSUME NEW L, Sound(L)
    PROVE  \A k \in DOMAIN L.orders :
              /\ L.orders[k] \in OrderType /\ OrderSound(L.orders[k])
              /\ L.orders[k].filled \in Nat /\ L.orders[k].qty \in Nat
  <1> SUFFICES ASSUME NEW k \in DOMAIN L.orders
               PROVE  /\ L.orders[k] \in OrderType /\ OrderSound(L.orders[k])
                      /\ L.orders[k].filled \in Nat /\ L.orders[k].qty \in Nat
    OBVIOUS
  <1>1. L.orders[k] \in OrderType /\ OrderSound(L.orders[k])
    BY OrderOf DEF Sound, LedgerType
  <1>. QED  BY <1>1 DEF OrderType

LEMMA GrowsReflexive ==
    ASSUME NEW L, Sound(L)
    PROVE  Grows(L, L)
  <1>1. \A k \in DOMAIN L.orders : L.orders[k].filled \in Nat
    BY SoundOrders
  <1>2. Len(L.fills) \in Nat
    BY DEF Sound, LedgerType
  <1>. QED  BY <1>1, <1>2 DEF Grows

TermsType(terms) ==
    /\ terms.side \in Sides /\ terms.inst \in Instruments
    /\ terms.qty \in Nat \ {0} /\ terms.limit \in Nat

\* A new order; its reservation fits or it is rejected.
SubmitEffect(L, key, terms, t, o, M) ==
    /\ M \in LedgerType /\ o \in OrderType
    /\ o.key = key /\ o.side = terms.side /\ o.inst = terms.inst /\ o.at = t
    /\ o.qty = terms.qty /\ o.limit = terms.limit /\ o.filled = 0
    /\ o.st = IF rejects(L, terms, t) THEN "REJECTED" ELSE "OPEN"
    /\ M.orders = Append(L.orders, o)
    /\ M.cash = L.cash /\ M.pos = L.pos /\ M.fills = L.fills /\ M.quotes = L.quotes
    /\ M.keys = [L.keys EXCEPT ![key] = Len(L.orders) + 1]
    /\ M.entries = IF rejects(L, terms, t) \/ terms.side = "SELL" THEN L.entries
                   ELSE L.entries \union {<<Day(t), Len(L.orders) + 1>>}

LEMMA SubmitFields ==
    ASSUME NEW L, Sound(L), NEW key \in Keys, NEW terms, TermsType(terms), NEW t \in Nat,
           ~duplicate_order(L, key)
    PROVE  \E o : SubmitEffect(L, key, terms, t, o, submit(L, key, terms, t))
  <1> DEFINE M == submit(L, key, terms, t)
             n == Len(L.orders) + 1
             bad == rejects(L, terms, t)
             st == IF bad THEN "REJECTED" ELSE "OPEN"
             o == [key |-> key, side |-> terms.side, inst |-> terms.inst,
                   qty |-> terms.qty, limit |-> terms.limit, filled |-> 0,
                   at |-> t, st |-> st]
             orders == Append(L.orders, o)
             keys == [L.keys EXCEPT ![key] = n]
             entries == IF bad \/ terms.side = "SELL" THEN L.entries
                        ELSE L.entries \union {<<Day(t), n>>}
  <1>1. L \in LedgerType /\ L.orders \in Seq(OrderType) /\ n \in Nat
    BY DEF Sound, LedgerType
  <1>2. M = [L EXCEPT !.orders = orders, !.keys = keys, !.entries = entries]
    <2> HIDE DEF bad
    <2>. QED  BY <1>1 DEF submit, LedgerType, bad
  <1>3. st \in {"REJECTED", "OPEN"}
    OBVIOUS
  <1> HIDE DEF st
  <1>4. /\ o \in OrderType
        /\ o.key = key /\ o.side = terms.side /\ o.inst = terms.inst /\ o.at = t
        /\ o.qty = terms.qty /\ o.limit = terms.limit /\ o.filled = 0 /\ o.st = st
    BY <1>3 DEF OrderType, TermsType
  <1> HIDE DEF o
  <1>5. orders \in Seq(OrderType)
    BY <1>1, <1>4
  <1>6. keys \in [Keys -> Nat]
    BY <1>1 DEF LedgerType
  <1>7. entries \in SUBSET (Int \X Nat)
    <2>1. Day(t) \in Int
      BY LedgerAssumption DEF Day
    <2>2. L.entries \in SUBSET (Int \X Nat)
      BY <1>1 DEF LedgerType
    <2> HIDE DEF bad
    <2>. QED  BY <1>1, <2>1, <2>2
  <1> HIDE DEF M, orders, keys, entries
  <1>8. /\ M \in LedgerType /\ M.orders = orders /\ M.keys = keys /\ M.entries = entries
        /\ M.cash = L.cash /\ M.pos = L.pos /\ M.fills = L.fills /\ M.quotes = L.quotes
    BY <1>1, <1>2, <1>5, <1>6, <1>7 DEF LedgerType
  <1>9. SubmitEffect(L, key, terms, t, o, M)
    BY <1>4, <1>8 DEF SubmitEffect, orders, keys, entries, st
  <1>. QED  BY <1>9 DEF M

\* A placement the ledger does not reject is covered when it is accepted.
LEMMA SubmitSound ==
    ASSUME NEW L, Sound(L), NEW key \in Keys, NEW terms, TermsType(terms), NEW t \in Nat
    PROVE  /\ Sound(submit(L, key, terms, t))
           /\ Grows(L, submit(L, key, terms, t))
  <1> DEFINE M == submit(L, key, terms, t)
  <1>1. CASE duplicate_order(L, key)
    <2>1. M = L
      BY <1>1 DEF submit
    <2>. QED  BY <2>1, GrowsReflexive
  <1>2. CASE ~duplicate_order(L, key)
    <2>1. PICK o : SubmitEffect(L, key, terms, t, o, M)
      BY <1>2, SubmitFields
    <2> HIDE DEF M
    <2>2. o \in OrderType /\ OrderSound(o) /\ L.orders \in Seq(OrderType)
          /\ \A k \in DOMAIN L.orders : OrderSound(L.orders[k])
      <3>1. L.orders \in Seq(OrderType) /\ \A k \in DOMAIN L.orders : OrderSound(L.orders[k])
        BY DEF Sound, LedgerType
      <3>2. o \in OrderType /\ o.filled = 0 /\ o.st \in {"REJECTED", "OPEN"} /\ o.qty \in Nat
        BY <2>1 DEF SubmitEffect, OrderType
      <3>. QED  BY <3>1, <3>2 DEF OrderSound
    <2>3. /\ SetAside(M.orders) = SetAside(L.orders) + cash_set_aside(o)
          /\ \A i \in Instruments :
               Committed(M.orders, i) = Committed(L.orders, i) + contracts_set_aside(o, i)
      <3>1. M.orders = Append(L.orders, o)
        BY <2>1 DEF SubmitEffect
      <3>. QED  BY <2>2, <3>1, AsideAppend
    <2>4. /\ o.side = terms.side /\ o.inst = terms.inst /\ Remaining(o) = terms.qty
          /\ o.limit = terms.limit /\ o.st = IF rejects(L, terms, t) THEN "REJECTED" ELSE "OPEN"
          /\ terms.qty \in Nat /\ terms.limit \in Nat
      BY <2>1 DEF SubmitEffect, TermsType, Remaining
    <2>5. cash_set_aside(o) + SetAside(L.orders) <= L.cash
      <3>1. SetAside(L.orders) \in Nat /\ SetAside(L.orders) <= L.cash /\ L.cash \in Int
        BY SoundTotals
      <3> DEFINE w == terms.limit * terms.qty
      <3>2. w \in Nat /\ Remaining(o) * o.limit = w
        BY <2>4
      <3>3. cash_set_aside(o) = IF working(o, "BUY") THEN w ELSE 0
        BY <3>2 DEF cash_set_aside
      <3>4. working(o, "BUY") => w <= L.cash - SetAside(L.orders)
        <4>1. working(o, "BUY") => terms.side = "BUY" /\ ~rejects(L, terms, t)
          BY <2>4 DEF working, OpenStates
        <4>2. buying_power(L) = L.cash - SetAside(L.orders)
          BY DEF buying_power, reserved_buying_power, SetAside
        <4>3. terms.side = "BUY" /\ ~rejects(L, terms, t) => ~(w > buying_power(L))
          BY DEF rejects
        <4> HIDE DEF w
        <4>. QED  BY <3>1, <3>2, <4>1, <4>2, <4>3
      <3> HIDE DEF w
      <3>. QED  BY <3>1, <3>2, <3>3, <3>4
    <2>6. \A i \in Instruments : contracts_set_aside(o, i) + Committed(L.orders, i) <= L.pos[i].qty
      <3> SUFFICES ASSUME NEW i \in Instruments
                   PROVE  contracts_set_aside(o, i) + Committed(L.orders, i) <= L.pos[i].qty
        OBVIOUS
      <3>1. Committed(L.orders, i) \in Nat /\ Committed(L.orders, i) <= L.pos[i].qty
            /\ L.pos[i].qty \in Nat
        BY SoundTotals
      <3>2. working(o, "SELL") /\ o.inst = i =>
               terms.side = "SELL" /\ terms.inst = i /\ ~rejects(L, terms, t)
        BY <2>4 DEF working, OpenStates
      <3>3. available_position_quantity(L, i) = L.pos[i].qty - Committed(L.orders, i)
        BY DEF available_position_quantity, Committed
      <3>4. terms.side = "SELL" /\ terms.inst = i /\ ~rejects(L, terms, t)
              => ~(terms.qty > available_position_quantity(L, i))
        BY DEF rejects
      <3>. QED  BY <2>4, <3>1, <3>2, <3>3, <3>4 DEF contracts_set_aside
    <2>7. /\ cash_set_aside(o) \in Nat /\ \A i \in Instruments : contracts_set_aside(o, i) \in Nat
      BY <2>2, SetAsideType
    <2>8. Covers(M.cash, M.pos, M.orders)
      <3>1. M.cash = L.cash /\ M.pos = L.pos
        BY <2>1 DEF SubmitEffect
      <3>. QED  BY <2>3, <2>5, <2>6, <2>7, <3>1, SoundTotals DEF Covers
    <2>9. /\ \A k \in DOMAIN L.orders : k \in DOMAIN M.orders /\ M.orders[k] = L.orders[k]
          /\ \A k \in DOMAIN M.orders : OrderSound(M.orders[k])
      <3>1. M.orders = Append(L.orders, o)
        BY <2>1 DEF SubmitEffect
      <3>. QED  BY <2>2, <3>1, AppendProperties
    <2>10. Sound(M)
      BY <2>1, <2>8, <2>9 DEF Sound, SubmitEffect
    <2>11. Grows(L, M)
      <3>1. \A k \in DOMAIN L.orders : L.orders[k].filled \in Nat
        BY SoundOrders
      <3>2. Len(L.fills) \in Nat /\ M.fills = L.fills
        BY <2>1 DEF SubmitEffect, Sound, LedgerType
      <3>3. \A p \in Keys : L.keys[p] # 0 => M.keys[p] = L.keys[p]
        <4>1. M.keys = [L.keys EXCEPT ![key] = Len(L.orders) + 1] /\ L.keys[key] = 0
          BY <1>2, <2>1 DEF SubmitEffect, duplicate_order
        <4>2. L.keys \in [Keys -> Nat]
          BY DEF Sound, LedgerType
        <4>. QED  BY <4>1, <4>2
      <3>. QED  BY <2>9, <3>1, <3>2, <3>3 DEF Grows
    <2>. QED  BY <2>10, <2>11 DEF M
  <1>. QED  BY <1>1, <1>2

\* A cancellation frees what its order had set aside.
LEMMA CancelSound ==
    ASSUME NEW L, Sound(L), NEW key \in Keys, NEW n \in DOMAIN L.orders
    PROVE  /\ Sound(cancel(L, key, n)) /\ cancel(L, key, n).quotes = L.quotes
           /\ cancel(L, key, n).fills = L.fills
           /\ DOMAIN cancel(L, key, n).orders = DOMAIN L.orders
           /\ \A k \in DOMAIN L.orders : cancel(L, key, n).orders[k].inst = L.orders[k].inst
  <1> DEFINE M == cancel(L, key, n)
  <1>1. CASE duplicate_order(L, key)
    <2>1. M = L
      BY <1>1 DEF cancel
    <2>. QED  BY <2>1
  <1>2. CASE ~duplicate_order(L, key)
    <2> DEFINE o == L.orders[n]
               st == IF o.st \in OpenStates THEN "CANCELED" ELSE o.st
               p == [o EXCEPT !.st = st]
               b == [L.orders EXCEPT ![n] = p]
               keys == [L.keys EXCEPT ![key] = n]
    <2>1. L \in LedgerType /\ L.orders \in Seq(OrderType) /\ o \in OrderType /\ n \in Nat
          /\ \A k \in DOMAIN L.orders : OrderSound(L.orders[k])
      BY OrderOf DEF Sound, LedgerType
    <2>2. M = [L EXCEPT !.keys = keys, !.orders = b]
      BY <1>2, <2>1 DEF cancel, LedgerType
    <2>3. /\ p \in OrderType /\ p.st = st /\ p.inst = o.inst /\ p.side = o.side
          /\ p.qty = o.qty /\ p.filled = o.filled /\ p.limit = o.limit
      BY <2>1 DEF OrderType, OpenStates
    <2>4. OrderSound(p) /\ (st = o.st \/ st = "CANCELED")
      BY <2>1, <2>3 DEF OrderSound
    <2> HIDE DEF st, p
    <2>5. /\ b \in Seq(OrderType) /\ DOMAIN b = DOMAIN L.orders /\ b[n] = p
          /\ \A k \in DOMAIN L.orders \ {n} : b[k] = L.orders[k]
      BY <2>1, <2>3
    <2>6. keys \in [Keys -> Nat]
      BY <2>1 DEF LedgerType
    <2> HIDE DEF M, b, keys
    <2>7. /\ M \in LedgerType /\ M.orders = b /\ M.cash = L.cash /\ M.pos = L.pos
          /\ M.fills = L.fills /\ M.quotes = L.quotes
      BY <2>1, <2>2, <2>5, <2>6 DEF LedgerType
    <2>8. \A k \in DOMAIN b : OrderSound(b[k])
      BY <2>1, <2>4, <2>5
    <2>9. /\ cash_set_aside(p) <= cash_set_aside(o)
          /\ \A i \in Instruments : contracts_set_aside(p, i) <= contracts_set_aside(o, i)
      <3>1. /\ cash_set_aside(o) \in Nat /\ \A i \in Instruments : contracts_set_aside(o, i) \in Nat
        BY <2>1, SetAsideType
      <3>2. Remaining(p) = Remaining(o)
        BY <2>3 DEF Remaining
      <3>3. CASE st = o.st
        BY <2>3, <3>1, <3>2, <3>3 DEF cash_set_aside, contracts_set_aside, working
      <3>4. CASE st = "CANCELED"
        BY <2>3, <3>1, <3>2, <3>4 DEF cash_set_aside, contracts_set_aside, working, OpenStates
      <3>. QED  BY <2>4, <3>3, <3>4
    <2>10. \A k \in DOMAIN L.orders :
             /\ cash_set_aside(b[k]) <= cash_set_aside(L.orders[k])
             /\ \A i \in Instruments : contracts_set_aside(b[k], i) <= contracts_set_aside(L.orders[k], i)
      <3>1. \A k \in DOMAIN L.orders :
              /\ cash_set_aside(L.orders[k]) \in Nat
              /\ \A i \in Instruments : contracts_set_aside(L.orders[k], i) \in Nat
        BY <2>1, SetAsideType, OrderOf
      <3>. QED  BY <2>5, <2>9, <3>1
    <2>11. SetAside(b) <= SetAside(L.orders)
           /\ \A i \in Instruments : Committed(b, i) <= Committed(L.orders, i)
      BY <2>1, <2>5, <2>8, <2>10, AsideShrinks
    <2>12. SetAside(b) \in Nat /\ \A i \in Instruments : Committed(b, i) \in Nat
      BY <2>5, <2>8, AsideTotals
    <2>13. Covers(M.cash, M.pos, M.orders)
      BY <2>7, <2>11, <2>12, SoundTotals DEF Covers
    <2>14. Sound(M)
      BY <2>7, <2>8, <2>13 DEF Sound
    <2>. QED  BY <2>3, <2>5, <2>7, <2>14 DEF M
  <1>. QED  BY <1>1, <1>2

LEMMA DepositSound ==
    ASSUME NEW L, Sound(L), NEW amount \in Nat
    PROVE  /\ Sound(deposit(L, amount)) /\ deposit(L, amount).quotes = L.quotes
           /\ deposit(L, amount).fills = L.fills /\ deposit(L, amount).orders = L.orders
  <1> DEFINE M == deposit(L, amount)
             c == L.cash + amount
             d == L.deposits + amount
  <1>1. L \in LedgerType /\ c \in Int /\ d \in Int /\ L.cash \in Int /\ c >= L.cash
    BY DEF Sound, LedgerType
  <1>2. M = [L EXCEPT !.cash = c, !.deposits = d]
    BY <1>1 DEF deposit, LedgerType
  <1> HIDE DEF M, c, d
  <1>3. /\ M \in LedgerType /\ M.orders = L.orders /\ M.cash = c /\ M.pos = L.pos
        /\ M.fills = L.fills /\ M.quotes = L.quotes
    BY <1>1, <1>2 DEF LedgerType
  <1>4. Covers(M.cash, M.pos, M.orders)
    BY <1>1, <1>3, SoundTotals DEF Covers
  <1>5. Sound(M)
    BY <1>3, <1>4 DEF Sound
  <1>. QED  BY <1>3, <1>5 DEF M

-----------------------------------------------------------------------------
\* An expiration; no discrepancies

\* Expiration ends the orders of the contracts whose positions it closes.
LEMMA ExpireSound ==
    ASSUME NEW L, Sound(L), NEW d \in Int, NEW price \in Nat
    PROVE  /\ Sound(expire(L, d, price)) /\ expire(L, d, price).quotes = L.quotes
           /\ expire(L, d, price).fills = L.fills
           /\ DOMAIN expire(L, d, price).orders = DOMAIN L.orders
           /\ \A k \in DOMAIN L.orders : expire(L, d, price).orders[k].inst = L.orders[k].inst
  <1> DEFINE M == expire(L, d, price)
             due == {i \in Instruments : L.pos[i] # NoPosition /\ Expiration[i] <= d}
             gain(i) == (price - L.pos[i].avg) * L.pos[i].qty
             ends(o) == o.st \in OpenStates /\ (Day(o.at) <= d \/ Expiration[o.inst] <= d)
             after(o) == IF ends(o) THEN [o EXCEPT !.st = "EXPIRED"] ELSE o
             b == [k \in DOMAIN L.orders |-> after(L.orders[k])]
             paid == [i \in due |-> price * L.pos[i].qty]
             gains == [i \in due |-> gain(i)]
             c == L.cash + Total(paid)
             z == L.realized + Total(gains)
             closed == [i \in Instruments |->
                          IF i \in due THEN L.closed[i] + L.pos[i].realized + gain(i) ELSE L.closed[i]]
             e == [i \in Instruments |-> IF i \in due THEN NoPosition ELSE L.pos[i]]
  <1>1. /\ L \in LedgerType /\ L.orders \in Seq(OrderType) /\ L.cash \in Int /\ L.realized \in Int
        /\ L.closed \in [Instruments -> Int] /\ L.pos \in [Instruments -> PositionType]
    BY DEF Sound, LedgerType
  <1>2. M = [L EXCEPT !.orders = b, !.cash = c, !.realized = z, !.closed = closed, !.pos = e]
    BY <1>1 DEF expire, LedgerType
  <1>3. \A i \in Instruments : /\ L.pos[i].qty \in Nat /\ L.pos[i].avg \in Nat
                               /\ L.pos[i].realized \in Int /\ L.closed[i] \in Int
    BY <1>1 DEF PositionType
  <1>4. \A i \in Instruments : price * L.pos[i].qty \in Nat
    BY <1>3
  <1>5. \A i \in Instruments : gain(i) \in Int
    <2> SUFFICES ASSUME NEW i \in Instruments PROVE gain(i) \in Int
      OBVIOUS
    <2>1. price - L.pos[i].avg \in Int /\ L.pos[i].qty \in Int
      BY <1>3
    <2>. QED  BY <2>1
  <1>6. IsFiniteSet(due) /\ due \subseteq Instruments
    BY LedgerAssumption, FS_Subset
  <1>7. paid \in [due -> Int] /\ (\A i \in due : 0 <= paid[i]) /\ gains \in [due -> Int]
    BY <1>4, <1>5
  <1>8. /\ closed \in [Instruments -> Int]
        /\ e \in [Instruments -> PositionType]
    <2>1. NoPosition \in PositionType
      BY DEF NoPosition, PositionType
    <2> HIDE DEF gain, due
    <2>. QED  BY <1>1, <1>3, <1>5, <2>1
  <1>9. \A i \in Instruments : e[i] = IF i \in due THEN NoPosition ELSE L.pos[i]
    OBVIOUS
  <1>10. \A k \in DOMAIN L.orders : b[k] = after(L.orders[k])
    OBVIOUS
  <1>11. \A o \in OrderType : OrderSound(o) =>
           /\ after(o) \in OrderType /\ OrderSound(after(o)) /\ after(o).inst = o.inst
           /\ after(o).side = o.side /\ Remaining(after(o)) = Remaining(o)
           /\ after(o).limit = o.limit
           /\ after(o).st = o.st \/ after(o).st = "EXPIRED"
           /\ o.st \in OpenStates /\ Expiration[o.inst] <= d => after(o).st = "EXPIRED"
    BY DEF OrderType, OrderSound, Remaining
  <1>12. \A i \in due : Expiration[i] <= d
    OBVIOUS
  <1>13. b = [k \in DOMAIN L.orders |-> b[k]] /\ DOMAIN b = DOMAIN L.orders
    OBVIOUS
  <1> HIDE DEF M, b, paid, gains, closed, e, due, after
  <1>14. Total(paid) \in Nat /\ Total(gains) \in Int
    BY <1>6, <1>7, TotalNonnegative, TotalType
  <1>15. c \in Int /\ z \in Int /\ c >= L.cash
    BY <1>1, <1>14
  <1> HIDE DEF c, z
  <1>16. \A k \in DOMAIN L.orders : L.orders[k] \in OrderType /\ OrderSound(L.orders[k])
    BY SoundOrders
  <1>17. \A k \in DOMAIN L.orders : b[k] \in OrderType /\ OrderSound(b[k]) /\ b[k].inst = L.orders[k].inst
    BY <1>10, <1>11, <1>16
  <1>18. b \in Seq(OrderType)
    <2>1. DOMAIN L.orders = 1..Len(L.orders) /\ Len(L.orders) \in Nat
      BY <1>1
    <2>2. b = [k \in 1..Len(L.orders) |-> b[k]]
      BY <1>13, <2>1
    <2>3. \A k \in 1..Len(L.orders) : b[k] \in OrderType
      BY <1>17, <2>1
    <2>4. b \in [1..Len(L.orders) -> OrderType]
      BY <2>2, <2>3
    <2>. QED  BY <2>1, <2>4, SeqDef
  <1>19. /\ M \in LedgerType /\ M.orders = b /\ M.cash = c /\ M.pos = e
         /\ M.fills = L.fills /\ M.quotes = L.quotes
    BY <1>1, <1>2, <1>8, <1>15, <1>18 DEF LedgerType
  <1>20. \A k \in DOMAIN L.orders :
           /\ cash_set_aside(L.orders[k]) \in Nat
           /\ \A i \in Instruments : contracts_set_aside(L.orders[k], i) \in Nat
    BY <1>16, SetAsideType
  <1>21. \A k \in DOMAIN L.orders :
           /\ cash_set_aside(b[k]) <= cash_set_aside(L.orders[k])
           /\ \A i \in Instruments : /\ contracts_set_aside(b[k], i) <= contracts_set_aside(L.orders[k], i)
                                     /\ i \in due => contracts_set_aside(b[k], i) = 0
    <2> SUFFICES ASSUME NEW k \in DOMAIN L.orders
                 PROVE  /\ cash_set_aside(b[k]) <= cash_set_aside(L.orders[k])
                        /\ \A i \in Instruments :
                             /\ contracts_set_aside(b[k], i) <= contracts_set_aside(L.orders[k], i)
                             /\ i \in due => contracts_set_aside(b[k], i) = 0
      OBVIOUS
    <2> DEFINE o == L.orders[k]
    <2>1. /\ b[k].inst = o.inst /\ b[k].side = o.side /\ Remaining(b[k]) = Remaining(o)
          /\ b[k].limit = o.limit
          /\ b[k].st = o.st \/ b[k].st = "EXPIRED"
          /\ o.st \in OpenStates /\ Expiration[o.inst] <= d => b[k].st = "EXPIRED"
      BY <1>10, <1>11, <1>16
    <2>2. cash_set_aside(o) \in Nat /\ \A i \in Instruments : contracts_set_aside(o, i) \in Nat
      BY <1>20
    <2> HIDE DEF o
    <2>3. CASE b[k].st = "EXPIRED"
      <3>1. cash_set_aside(b[k]) = 0 /\ \A i \in Instruments : contracts_set_aside(b[k], i) = 0
        BY <2>3 DEF cash_set_aside, contracts_set_aside, working, OpenStates
      <3>. QED  BY <2>2, <3>1 DEF o
    <2>4. CASE b[k].st # "EXPIRED"
      <3>1. cash_set_aside(b[k]) = cash_set_aside(o)
            /\ \A i \in Instruments : contracts_set_aside(b[k], i) = contracts_set_aside(o, i)
        BY <2>1, <2>4 DEF cash_set_aside, contracts_set_aside, working
      <3>2. \A i \in due : contracts_set_aside(o, i) = 0
        BY <1>12, <2>1, <2>4 DEF contracts_set_aside, working
      <3>. QED  BY <1>6, <2>2, <3>1, <3>2 DEF o
    <2>. QED  BY <2>3, <2>4
  <1>22. SetAside(b) <= SetAside(L.orders)
         /\ \A i \in Instruments : Committed(b, i) <= Committed(L.orders, i)
    BY <1>1, <1>13, <1>16, <1>17, <1>18, <1>21, AsideShrinks
  <1>23. SetAside(b) \in Nat /\ \A i \in Instruments : Committed(b, i) \in Nat
    BY <1>13, <1>17, <1>18, AsideTotals
  <1>24. \A i \in due : Committed(b, i) = 0
    <2> SUFFICES ASSUME NEW i \in due PROVE Committed(b, i) = 0
      OBVIOUS
    <2> DEFINE f == [k \in DOMAIN b |-> contracts_set_aside(b[k], i)]
    <2>1. f \in [DOMAIN b -> Int] /\ \A k \in DOMAIN b : f[k] = 0
      BY <1>6, <1>13, <1>21
    <2>2. IsFiniteSet(DOMAIN b)
      BY <1>18, FiniteOrders
    <2>3. Committed(b, i) = Total(f)
      BY DEF Committed
    <2> HIDE DEF f
    <2>. QED  BY <2>1, <2>2, <2>3, TotalZero
  <1>25. Covers(M.cash, M.pos, M.orders)
    <2>1. SetAside(b) <= c
      BY <1>1, <1>15, <1>22, <1>23, SoundTotals
    <2>2. \A i \in Instruments : Committed(b, i) <= e[i].qty
      <3> SUFFICES ASSUME NEW i \in Instruments PROVE Committed(b, i) <= e[i].qty
        OBVIOUS
      <3>1. CASE i \in due
        BY <1>9, <1>24, <3>1 DEF NoPosition
      <3>2. CASE i \notin due
        <4>1. e[i] = L.pos[i]
          BY <1>9, <3>2
        <4>. QED  BY <1>22, <1>23, <4>1, SoundTotals
      <3>. QED  BY <3>1, <3>2
    <2>. QED  BY <1>19, <2>1, <2>2 DEF Covers
  <1>26. PositionsSound(M.pos)
    BY <1>9, <1>19 DEF PositionsSound, Sound
  <1>27. Sound(M)
    BY <1>13, <1>17, <1>19, <1>25, <1>26 DEF Sound
  <1>. QED  BY <1>13, <1>17, <1>19, <1>27 DEF M

\* A sound ledger passes the reconciliation of the code.
LEMMA NoDiscrepancy ==
    ASSUME NEW L, Sound(L)
    PROVE  invariant_discrepancies(L) = {}
  <1>1. ~(L.cash < 0)
    BY SoundTotals
  <1>2. ~(buying_power(L) < 0)
    <2>1. buying_power(L) = L.cash - SetAside(L.orders)
      BY DEF buying_power, reserved_buying_power, SetAside
    <2>. QED  BY <2>1, SoundTotals
  <1>3. \A k \in DOMAIN L.orders : /\ L.orders[k].filled \in 0..L.orders[k].qty
                                   /\ L.orders[k].st = "FILLED" => Remaining(L.orders[k]) = 0
    BY SoundOrders DEF OrderSound, Remaining
  <1>4. ASSUME NEW i \in Instruments, L.pos[i] # NoPosition
        PROVE  ~(L.pos[i].qty <= 0) /\ ~(available_position_quantity(L, i) < 0)
    <2>1. available_position_quantity(L, i) = L.pos[i].qty - Committed(L.orders, i)
      BY DEF available_position_quantity, Committed
    <2>2. L.pos[i].qty # 0
      BY <1>4 DEF Sound, PositionsSound
    <2>. QED  BY <2>1, <2>2, SoundTotals
  <1>5. {k \in DOMAIN L.orders : \/ L.orders[k].filled \notin 0..L.orders[k].qty
                                 \/ L.orders[k].st = "FILLED" /\ Remaining(L.orders[k]) # 0} = {}
    BY <1>3
  <1>6. {i \in Instruments : /\ L.pos[i] # NoPosition
                             /\ L.pos[i].qty <= 0 \/ available_position_quantity(L, i) < 0} = {}
    BY <1>4
  <1>. QED  BY <1>1, <1>2, <1>5, <1>6, Zenon DEF invariant_discrepancies

-----------------------------------------------------------------------------
\* No quote fills an order twice; the invariants of the ledger

\* The fills of a ledger over a feed: every fill is one of its orders, by a quote the ledger
\* has not passed over since, and no order is filled twice by one quote.
FillsSound(L, feed) ==
    /\ \A i \in Instruments :
          L.quotes[i] # NoQuote => L.quotes[i] \in feed /\ L.quotes[i].inst = i
    /\ \A j \in DOMAIN L.fills :
          /\ L.fills[j].order \in DOMAIN L.orders
          /\ L.orders[L.fills[j].order].inst = L.fills[j].inst
          /\ L.quotes[L.fills[j].inst] # NoQuote
          /\ \E r \in feed : /\ r.id = L.fills[j].quote /\ r.inst = L.fills[j].inst
                             /\ r.eff <= L.quotes[r.inst].eff
    /\ \A i, j \in DOMAIN L.fills :
          L.fills[i].order = L.fills[j].order /\ L.fills[i].quote = L.fills[j].quote => i = j

\* Calls that deliver no quote: the orders stay what they are.
LEMMA FillsKept ==
    ASSUME NEW L, NEW M, NEW feed, FillsSound(L, feed),
           M.quotes = L.quotes, M.fills = L.fills,
           \A k \in DOMAIN L.orders : k \in DOMAIN M.orders /\ M.orders[k].inst = L.orders[k].inst
    PROVE  FillsSound(M, feed)
  BY DEF FillsSound

\* A quote fills an order at most once: a second time it is the last quote seen, or older.
LEMMA ObserveFills ==
    ASSUME NEW L, Sound(L), NEW feed, Orderly(feed), FillsSound(L, feed),
           NEW q \in feed, NEW t \in Nat, NEW hits, ~observe_raises(L, q, t)
    PROVE  FillsSound(observe_quote(L, q, t, hits), feed)
  <1> DEFINE M == observe_quote(L, q, t, hits)
             acc == accounts(L, q, t, hits)
             n == Len(L.orders)
             b == Turned(L, q, t, hits, n)
             D == DOMAIN L.fills
             old == L.quotes[q.inst]
  <1>1. CASE L.quotes[q.inst].id = q.id
    <2>1. M = L
      BY <1>1 DEF observe_quote
    <2>. QED  BY <2>1
  <1>2. CASE L.quotes[q.inst].id # q.id
    <2>1. q \in Quotes /\ q.inst \in Instruments /\ q.eff \in Nat /\ q.id \in Nat \ {0}
      BY DEF Orderly, Quotes
    <2>2. ObserveEffect(L, q, t, b, acc, M)
      BY <1>2, <2>1, ObserveFields
    <2>3. FillsInLoop(L, q, t, hits, n, acc)
      BY <2>1, AccountsCovered
    <2>4. /\ L.orders \in Seq(OrderType) /\ n \in Nat /\ DOMAIN L.orders = 1..n
          /\ L.quotes \in [Instruments -> Quotes \cup {NoQuote}]
          /\ L.fills \in Seq(FillType)
      BY DEF Sound, LedgerType
    <2>5. /\ DOMAIN b = DOMAIN L.orders
          /\ \A k \in DOMAIN L.orders : b[k].inst = L.orders[k].inst
      <3>1. DOMAIN b = DOMAIN L.orders
        BY DEF Turned
      <3>2. \A k \in DOMAIN L.orders : b[k] = fill_order(L.orders[k], fill_quantity(L, k, q, t, hits))
        <4>1. \A k \in DOMAIN L.orders : k <= n
          BY <2>4
        <4>. QED  BY <4>1 DEF Turned
      <3>3. \A k \in DOMAIN L.orders :
              fill_order(L.orders[k], fill_quantity(L, k, q, t, hits)).inst = L.orders[k].inst
        <4> SUFFICES ASSUME NEW k \in DOMAIN L.orders
                     PROVE  fill_order(L.orders[k], fill_quantity(L, k, q, t, hits)).inst
                              = L.orders[k].inst
          OBVIOUS
        <4>1. /\ fill_quantity(L, k, q, t, hits) \in Nat
              /\ fill_quantity(L, k, q, t, hits) <= Remaining(L.orders[k])
          BY <2>1, FillFacts
        <4>2. L.orders[k] \in OrderType /\ OrderSound(L.orders[k])
          BY SoundOrders
        <4>. QED  BY <4>1, <4>2, FilledOrder
      <3> HIDE DEF b
      <3>. QED  BY <3>1, <3>2, <3>3
    <2>6. /\ M.orders = b /\ M.fills = acc.fills /\ M \in LedgerType
          /\ M.quotes = [L.quotes EXCEPT ![q.inst] = q]
      <3> HIDE DEF b, acc, M
      <3>. QED  BY <2>2 DEF ObserveEffect
    <2>7. M.quotes[q.inst] = q /\ \A i \in Instruments \ {q.inst} : M.quotes[i] = L.quotes[i]
      <3> HIDE DEF M
      <3>. QED  BY <2>1, <2>4, <2>6
    <2>8. q # NoQuote /\ NoQuote.id = 0
      BY <2>1 DEF NoQuote
    \* the quote is newer than the last one of its instrument
    <2>9. old # NoQuote => old \in feed /\ old.inst = q.inst /\ old.eff \in Nat /\ old.eff < q.eff
      <3>1. SUFFICES ASSUME old # NoQuote
                     PROVE  old \in feed /\ old.inst = q.inst /\ old.eff \in Nat /\ old.eff < q.eff
        OBVIOUS
      <3>2. old \in feed /\ old.inst = q.inst /\ old.eff \in Nat
        BY <2>1, <3>1 DEF FillsSound, Orderly, Quotes
      <3>3. ~(q.eff < old.eff)
        BY <1>2 DEF observe_raises
      <3>4. old.eff # q.eff
        BY <1>2, <3>2 DEF Orderly
      <3>. QED  BY <2>1, <3>2, <3>3, <3>4
    <2>10. \A i \in Instruments : M.quotes[i] # NoQuote => M.quotes[i] \in feed /\ M.quotes[i].inst = i
      <3> HIDE DEF M
      <3>. QED  BY <2>7 DEF FillsSound
    <2> DEFINE s == M.fills
    <2>11. /\ \A j \in D : j \in DOMAIN s /\ s[j] = L.fills[j]
           /\ \A j \in DOMAIN s \ D :
                 /\ s[j].order \in DOMAIN L.orders /\ s[j].quote = q.id /\ s[j].inst = q.inst
                 /\ s[j].qty # 0
                 /\ s[j].qty = fill_quantity(L, s[j].order, q, t, hits)
           /\ \A i, j \in DOMAIN s \ D : s[i].order = s[j].order => i = j
      <3>1. s \in Seq(FillType) /\ s = acc.fills
        BY <2>6 DEF LedgerType
      <3> HIDE DEF acc, M, n
      <3>2. \A j \in DOMAIN s \ D : /\ s[j].order \in 1..n
                                    /\ s[j] = fill_of(L, s[j].order, q, t, hits)
        BY <2>3, <3>1 DEF FillsInLoop
      <3>3. \A j \in DOMAIN s : s[j].qty # 0
        <4>1. \A f \in FillType : f.qty # 0
          BY DEF FillType
        <4>2. \A j \in DOMAIN s : s[j] \in FillType
          BY <3>1
        <4>. QED  BY <4>1, <4>2
      <3>4. \A j \in D : j \in DOMAIN s
        BY <2>3, <2>4, <3>1 DEF FillsInLoop
      <3>5. \A j \in DOMAIN s \ D : /\ s[j].quote = q.id /\ s[j].inst = q.inst
                                    /\ s[j].qty = fill_quantity(L, s[j].order, q, t, hits)
        <4> SUFFICES ASSUME NEW j \in DOMAIN s \ D
                     PROVE  /\ s[j].quote = q.id /\ s[j].inst = q.inst
                            /\ s[j].qty = fill_quantity(L, s[j].order, q, t, hits)
          OBVIOUS
        <4> DEFINE f == fill_of(L, s[j].order, q, t, hits)
        <4>1. f.quote = q.id /\ f.inst = q.inst /\ f.qty = fill_quantity(L, s[j].order, q, t, hits)
          BY DEF fill_of
        <4>2. s[j] = f
          BY <3>2
        <4>. QED  BY <4>1, <4>2
      <3>. QED  BY <2>3, <2>4, <3>1, <3>2, <3>3, <3>4, <3>5 DEF FillsInLoop
    <2>12. \A j \in DOMAIN s \ D : L.orders[s[j].order].inst = q.inst
      <3> SUFFICES ASSUME NEW j \in DOMAIN s \ D PROVE L.orders[s[j].order].inst = q.inst
        OBVIOUS
      <3> DEFINE k == s[j].order
      <3>1. k \in DOMAIN L.orders /\ fill_quantity(L, k, q, t, hits) # 0
        BY <2>11
      <3> HIDE DEF k
      <3>2. fill_quantity(L, k, q, t, hits) \in Nat
        BY <2>1, <3>1, FillFacts
      <3>3. fill_quantity(L, k, q, t, hits) > 0
        BY <3>1, <3>2
      <3>4. L.orders[k].inst = q.inst
        BY <2>1, <3>1, <3>3, FillFacts
      <3>. QED  BY <3>4 DEF k
    <2>13. ASSUME NEW j \in D
           PROVE  /\ s[j] = L.fills[j] /\ s[j].order \in DOMAIN L.orders
                  /\ L.orders[s[j].order].inst = s[j].inst
                  /\ s[j].inst \in Instruments /\ L.quotes[s[j].inst] # NoQuote
                  /\ \E r \in feed : /\ r.id = s[j].quote /\ r.inst = s[j].inst
                                     /\ r.eff <= L.quotes[r.inst].eff
      <3>1. L.fills[j] \in FillType
        BY <2>4
      <3>2. L.fills[j].inst \in Instruments
        BY <3>1 DEF FillType
      <3> HIDE DEF M
      <3>. QED  BY <2>11, <3>2 DEF FillsSound
    <2>14. ASSUME NEW j \in DOMAIN s
           PROVE  /\ s[j].order \in DOMAIN M.orders
                  /\ M.orders[s[j].order].inst = s[j].inst
                  /\ M.quotes[s[j].inst] # NoQuote
                  /\ \E r \in feed : /\ r.id = s[j].quote /\ r.inst = s[j].inst
                                     /\ r.eff <= M.quotes[r.inst].eff
      <3> HIDE DEF M, b
      <3>1. CASE j \in D
        <4>1. PICK r \in feed : /\ r.id = s[j].quote /\ r.inst = s[j].inst
                                /\ r.eff <= L.quotes[r.inst].eff
          BY <2>13, <3>1
        <4>2. r.eff \in Nat
          BY DEF Orderly, Quotes
        <4>3. r.eff <= M.quotes[r.inst].eff
          <5>1. CASE r.inst = q.inst
            <6>1. old # NoQuote /\ r.eff <= old.eff
              BY <2>13, <3>1, <4>1, <5>1
            <6> HIDE DEF old
            <6>2. r.eff <= q.eff
              BY <2>1, <2>9, <4>2, <6>1
            <6>. QED  BY <2>7, <5>1, <6>2
          <5>2. CASE r.inst # q.inst
            <6>1. r.inst \in Instruments
              BY <2>13, <3>1, <4>1
            <6>. QED  BY <2>7, <4>1, <5>2, <6>1
          <5>. QED  BY <5>1, <5>2
        <4>4. M.quotes[s[j].inst] # NoQuote
          BY <2>7, <2>8, <2>13, <3>1
        <4>. QED  BY <2>5, <2>6, <2>13, <3>1, <4>1, <4>3, <4>4
      <3>2. CASE j \notin D
        <4>1. q.eff <= M.quotes[q.inst].eff
          BY <2>1, <2>7
        <4>. QED  BY <2>5, <2>6, <2>7, <2>8, <2>11, <2>12, <3>2, <4>1
      <3>. QED  BY <3>1, <3>2
    \* an old fill by this quote is impossible: its instrument has moved past it
    <2>15. ASSUME NEW i \in D, NEW j \in DOMAIN s \ D
           PROVE  ~(s[i].order = s[j].order /\ s[i].quote = s[j].quote)
      <3>1. SUFFICES ASSUME s[i].order = s[j].order, s[i].quote = s[j].quote PROVE FALSE
        OBVIOUS
      <3>2. s[i].inst = q.inst /\ s[i].quote = q.id
        BY <2>11, <2>12, <2>13, <3>1
      <3>3. PICK r \in feed : /\ r.id = s[i].quote /\ r.inst = s[i].inst
                              /\ r.eff <= L.quotes[r.inst].eff
        BY <2>13
      <3>4. r = q
        BY <3>2, <3>3 DEF Orderly
      <3>5. old # NoQuote /\ q.eff <= old.eff
        BY <2>13, <3>2, <3>3, <3>4
      <3> HIDE DEF old
      <3>. QED  BY <2>1, <2>9, <3>5
    <2>16. \A i, j \in DOMAIN s : s[i].order = s[j].order /\ s[i].quote = s[j].quote => i = j
      <3> HIDE DEF M
      <3>1. \A i, j \in D : s[i].order = s[j].order /\ s[i].quote = s[j].quote => i = j
        BY <2>13 DEF FillsSound
      <3> HIDE DEF s, D
      <3>. QED  BY <2>11, <2>15, <3>1
    <2> HIDE DEF M
    <2>. QED  BY <2>10, <2>14, <2>16 DEF FillsSound, M
  <1>. QED  BY <1>1, <1>2

LedgerInvariant ==
    /\ Sound(ledger) /\ FillsSound(ledger, Feed)
    /\ now \in Nat /\ raised = FALSE

LEMMA LedgerInitially == LedgerInit => LedgerInvariant
  <1> SUFFICES ASSUME LedgerInit PROVE LedgerInvariant
    OBVIOUS
  <1>1. ledger = NewLedger /\ now = 0 /\ raised = FALSE
    BY DEF LedgerInit
  <1>2. FillsSound(NewLedger, Feed)
    BY DEF NewLedger, FillsSound
  <1>. QED  BY <1>1, <1>2, NewLedgerSound DEF LedgerInvariant

LEMMA LedgerStep == LedgerInvariant /\ [LedgerNext]_ledgerVars => LedgerInvariant'
  <1> SUFFICES ASSUME LedgerInvariant, [LedgerNext]_ledgerVars PROVE LedgerInvariant'
    OBVIOUS
  <1>1. Sound(ledger) /\ FillsSound(ledger, Feed) /\ now \in Nat /\ raised = FALSE
    BY DEF LedgerInvariant
  <1>2. ASSUME Sound(ledger'), FillsSound(ledger', Feed), now' \in Nat, raised' = FALSE
        PROVE  LedgerInvariant'
    BY <1>2 DEF LedgerInvariant, Sound, FillsSound
  <1>3. CASE Tick
    <2>1. ledger' = ledger /\ raised' = raised /\ now' = now + 1
      BY <1>3 DEF Tick
    <2>2. now' \in Nat
      BY <1>1, <2>1
    <2>. QED  BY <1>1, <1>2, <2>1, <2>2
  <1>4. ASSUME NEW key \in Keys, NEW terms \in Terms, Submit(key, terms)
        PROVE  LedgerInvariant'
    <2>1. ledger' = submit(ledger, key, terms, now) /\ now' = now /\ raised' = raised
      BY <1>4 DEF Submit
    <2>2. TermsType(terms)
      BY FeedAssumption DEF TermsType
    <2>3. Sound(ledger')
      BY <1>1, <2>1, <2>2, SubmitSound
    <2>4. FillsSound(ledger', Feed)
      <3>1. CASE duplicate_order(ledger, key)
        BY <1>1, <2>1, <3>1 DEF submit
      <3>2. CASE ~duplicate_order(ledger, key)
        <4>1. PICK o : SubmitEffect(ledger, key, terms, now, o, ledger')
          BY <1>1, <2>1, <2>2, <3>2, SubmitFields
        <4>2. /\ ledger'.orders = Append(ledger.orders, o) /\ o \in OrderType
              /\ ledger'.quotes = ledger.quotes /\ ledger'.fills = ledger.fills
          BY <4>1 DEF SubmitEffect
        <4>3. ledger.orders \in Seq(OrderType)
          BY <1>1 DEF Sound, LedgerType
        <4>4. \A k \in DOMAIN ledger.orders : k \in DOMAIN ledger'.orders
                                              /\ ledger'.orders[k].inst = ledger.orders[k].inst
          BY <4>2, <4>3, AppendProperties
        <4>. QED  BY <1>1, <4>2, <4>4, FillsKept
      <3>. QED  BY <3>1, <3>2
    <2>. QED  BY <1>1, <1>2, <2>1, <2>3, <2>4
  <1>5. ASSUME NEW key \in Keys, NEW n \in DOMAIN ledger.orders, Cancel(key, n)
        PROVE  LedgerInvariant'
    <2>1. ledger' = cancel(ledger, key, n) /\ now' = now /\ raised' = raised
      BY <1>5 DEF Cancel
    <2>2. /\ Sound(ledger') /\ ledger'.quotes = ledger.quotes /\ ledger'.fills = ledger.fills
          /\ \A k \in DOMAIN ledger.orders : k \in DOMAIN ledger'.orders
                                             /\ ledger'.orders[k].inst = ledger.orders[k].inst
      BY <1>1, <2>1, CancelSound
    <2>3. FillsSound(ledger', Feed)
      BY <1>1, <2>2, FillsKept
    <2>. QED  BY <1>1, <1>2, <2>1, <2>2, <2>3
  <1>6. ASSUME NEW amount \in Amounts, Deposit(amount)
        PROVE  LedgerInvariant'
    <2>1. ledger' = deposit(ledger, amount) /\ now' = now /\ raised' = raised /\ amount \in Nat
      BY <1>6, FeedAssumption DEF Deposit
    <2>2. /\ Sound(ledger') /\ ledger'.quotes = ledger.quotes /\ ledger'.fills = ledger.fills
          /\ ledger'.orders = ledger.orders
      BY <1>1, <2>1, DepositSound
    <2>3. FillsSound(ledger', Feed)
      BY <1>1, <2>2, FillsKept
    <2>. QED  BY <1>1, <1>2, <2>1, <2>2, <2>3
  <1>7. ASSUME NEW q \in Feed, NEW hits, ObserveQuote(q, hits)
        PROVE  LedgerInvariant'
    <2>1. q \in Quotes /\ Orderly(Feed)
      BY FeedAssumption DEF Orderly
    <2>2. /\ ~accounts(ledger, q, now, hits).raised
          /\ Sound(observe_quote(ledger, q, now, hits))
      BY <1>1, <2>1, ObserveSound
    <2>3. /\ ~observe_raises(ledger, q, now) /\ now' = now
          /\ ledger' = observe_quote(ledger, q, now, hits) /\ raised' = FALSE
      BY <1>1, <1>7, <2>2 DEF ObserveQuote
    <2>4. FillsSound(ledger', Feed)
      BY <1>1, <2>1, <2>3, ObserveFills
    <2>. QED  BY <1>1, <1>2, <2>2, <2>3, <2>4
  <1>8. ASSUME NEW d \in 0..Day(now), NEW price \in Settlements, Expire(d, price)
        PROVE  LedgerInvariant'
    <2>1. /\ ledger' = expire(ledger, d, price) /\ now' = now /\ raised' = raised
          /\ price \in Nat /\ d \in Int
      BY <1>8, FeedAssumption DEF Expire
    <2>2. /\ Sound(ledger') /\ ledger'.quotes = ledger.quotes /\ ledger'.fills = ledger.fills
          /\ \A k \in DOMAIN ledger.orders : k \in DOMAIN ledger'.orders
                                             /\ ledger'.orders[k].inst = ledger.orders[k].inst
      BY <1>1, <2>1, ExpireSound
    <2>3. FillsSound(ledger', Feed)
      BY <1>1, <2>2, FillsKept
    <2>. QED  BY <1>1, <1>2, <2>1, <2>2, <2>3
  <1>9. CASE UNCHANGED ledgerVars
    BY <1>1, <1>2, <1>9 DEF ledgerVars
  <1>. QED
    <2>1. CASE LedgerNext
      BY <1>3, <1>4, <1>5, <1>6, <1>7, <1>8, <2>1 DEF LedgerNext
    <2>. QED  BY <1>9, <2>1

LEMMA LedgerInvariance == LedgerSpec => []LedgerInvariant
  BY LedgerInitially, LedgerStep, PTL DEF LedgerSpec

\* Placements, cancellations, deposits, quotes and expirations in any order, and fills in any
\* parts: the cash and the positions cover what the working orders have set aside, no quote
\* makes the ledger raise, and no reconciliation finds a discrepancy in it.
THEOREM LedgerIsSolvent == LedgerSpec => []Solvent
  <1>1. LedgerInvariant => Solvent
    BY NoDiscrepancy DEF LedgerInvariant, Solvent
  <1>. QED  BY <1>1, LedgerInvariance, PTL

\* However often and in whatever order the quotes of an orderly feed are observed, no order is
\* filled twice by one quote, although the ledger remembers one quote of each instrument only.
THEOREM LedgerFillsOnce == LedgerSpec => []QuoteFillsOnce
  <1>1. LedgerInvariant => QuoteFillsOnce
    BY DEF LedgerInvariant, FillsSound, QuoteFillsOnce
  <1>. QED  BY <1>1, LedgerInvariance, PTL

-----------------------------------------------------------------------------
\* Where the money is

CostOf(pos) == Total([i \in Instruments |-> pos[i].avg * pos[i].qty])
ProfitOf(pos, closed) == Total([i \in Instruments |-> closed[i] + pos[i].realized])

\* The money put in and the profit, against the cash and what the positions cost.
Accounted(cash, pos, realized, closed, put) ==
    /\ cash + CostOf(pos) <= put + realized
    /\ realized = ProfitOf(pos, closed)

LEMMA ProfitFunction ==
    ASSUME NEW pos \in [Instruments -> PositionType], NEW closed \in [Instruments -> Int]
    PROVE  /\ [i \in Instruments |-> closed[i] + pos[i].realized] \in [Instruments -> Int]
           /\ ProfitOf(pos, closed) \in Int
  <1> DEFINE f == [i \in Instruments |-> closed[i] + pos[i].realized]
  <1>1. \A i \in Instruments : closed[i] \in Int /\ pos[i].realized \in Int
    BY DEF PositionType
  <1>2. f \in [Instruments -> Int]
    BY <1>1
  <1>3. IsFiniteSet(Instruments)
    BY LedgerAssumption
  <1> HIDE DEF f
  <1>4. Total(f) \in Int
    BY <1>2, <1>3, TotalType
  <1>. QED  BY <1>2, <1>4 DEF f, ProfitOf

\* The profit of all instruments when that of one changes.
LEMMA ProfitUpdate ==
    ASSUME NEW a \in [Instruments -> PositionType], NEW b \in [Instruments -> PositionType],
           NEW c \in [Instruments -> Int], NEW d \in [Instruments -> Int],
           NEW x \in Instruments, \A i \in Instruments \ {x} : b[i] = a[i] /\ d[i] = c[i]
    PROVE  ProfitOf(b, d) = ProfitOf(a, c) - (c[x] + a[x].realized) + (d[x] + b[x].realized)
  <1> DEFINE f == [i \in Instruments |-> c[i] + a[i].realized]
             g == [i \in Instruments |-> d[i] + b[i].realized]
  <1>1. /\ f \in [Instruments -> Int] /\ f[x] = c[x] + a[x].realized
        /\ g \in [Instruments -> Int] /\ g[x] = d[x] + b[x].realized
        /\ \A i \in Instruments \ {x} : g[i] = f[i]
    BY ProfitFunction
  <1>2. IsFiniteSet(Instruments)
    BY LedgerAssumption
  <1> HIDE DEF f, g
  <1>3. Total(g) = Total(f) - f[x] + g[x]
    BY <1>1, <1>2, TotalUpdate
  <1>. QED  BY <1>1, <1>3 DEF f, g, ProfitOf

\* What a sale leaves: the cost of what was sold is gone and its gain is realized.
LEMMA LeaveProfit ==
    ASSUME NEW p \in PositionType, NEW n \in Nat \ {0}, n <= p.qty, NEW price \in Nat
    PROVE  /\ leave(p, n, price).avg * leave(p, n, price).qty = p.avg * p.qty - p.avg * n
           /\ n = p.qty => leave(p, n, price).realized = 0
           /\ n # p.qty => leave(p, n, price).realized = p.realized + (price - p.avg) * n
  <1> DEFINE r == leave(p, n, price)
  <1>1. p.qty \in Nat /\ p.avg \in Nat /\ p.realized \in Int
    BY DEF PositionType
  <1>2. CASE n = p.qty
    <2>1. r = NoPosition
      BY <1>2 DEF leave
    <2>2. NoPosition.qty = 0 /\ NoPosition.avg = 0 /\ NoPosition.realized = 0
      BY DEF NoPosition
    <2>3. p.avg * p.qty - p.avg * n = 0
      BY <1>1, <1>2
    <2>. QED  BY <1>2, <2>1, <2>2, <2>3
  <1>3. CASE n # p.qty
    <2> DEFINE gain == p.realized + (price - p.avg) * n
               left == p.qty - n
    <2>1. r = [p EXCEPT !.qty = left, !.realized = gain]
      BY <1>3 DEF leave
    <2>2. p.avg * left = p.avg * p.qty - p.avg * n
      BY <1>1
    <2> HIDE DEF r, left, gain
    <2>3. r.qty = left /\ r.avg = p.avg /\ r.realized = gain
      BY <2>1 DEF PositionType
    <2>. QED  BY <1>3, <2>2, <2>3 DEF r, gain
  <1>. QED  BY <1>2, <1>3

\* What one fill does to the profit.
ProfitEffect(acc, f, r) ==
    LET p == acc.pos[f.inst]
        gain == (f.price - p.avg) * f.qty
    IN  /\ f.side = "BUY" => r.realized = acc.realized /\ r.closed = acc.closed
        /\ f.side = "SELL" =>
             /\ r.realized = acc.realized + gain
             /\ r.closed = [acc.closed EXCEPT ![f.inst] =
                   IF f.qty = p.qty THEN acc.closed[f.inst] + p.realized + gain
                   ELSE acc.closed[f.inst]]

LEMMA ProfitResult ==
    ASSUME NEW acc \in AccountsType, ~acc.raised, NEW f \in FillType,
           f.side = "BUY" => f.price * f.qty <= acc.cash,
           f.side = "SELL" => f.qty <= acc.pos[f.inst].qty
    PROVE  ProfitEffect(acc, f, apply_fill(acc, f))
  <1> DEFINE p == acc.pos[f.inst]
             w == f.price * f.qty
             gain == (f.price - p.avg) * f.qty
             r == apply_fill(acc, f)
  <1>1. /\ f.qty \in Nat \ {0} /\ f.price \in Nat /\ f.inst \in Instruments /\ f.side \in Sides
    BY DEF FillType
  <1>2. p \in PositionType /\ acc.cash \in Int
    BY <1>1 DEF AccountsType
  <1>3. p.qty \in Nat /\ w \in Nat /\ f.qty # 0
    BY <1>1, <1>2 DEF PositionType
  <1>4. CASE f.side = "BUY"
    <2> DEFINE e == [acc.pos EXCEPT ![f.inst] = enter(p, f.qty, f.price)]
               c == acc.cash - w
               s == Append(acc.fills, f)
    <2>1. ~(w > acc.cash)
      BY <1>2, <1>3, <1>4
    <2>2. r = [acc EXCEPT !.cash = c, !.pos = e, !.fills = s]
      BY <1>3, <1>4, <2>1 DEF apply_fill, AccountsType
    <2> HIDE DEF r, e, c, s
    <2>3. r.realized = acc.realized /\ r.closed = acc.closed
      BY <2>2 DEF AccountsType
    <2>. QED  BY <1>4, <2>3 DEF ProfitEffect, r
  <1>5. CASE f.side = "SELL"
    <2> DEFINE e == [acc.pos EXCEPT ![f.inst] = leave(p, f.qty, f.price)]
               c == acc.cash + w
               s == Append(acc.fills, f)
               z == acc.realized + gain
               d == [acc.closed EXCEPT ![f.inst] =
                       IF f.qty = p.qty THEN acc.closed[f.inst] + p.realized + gain
                       ELSE acc.closed[f.inst]]
    <2>1. ~(f.qty > p.qty) /\ f.side # "BUY"
      BY <1>1, <1>3, <1>5
    <2>2. r = [acc EXCEPT !.cash = c, !.realized = z, !.closed = d, !.pos = e, !.fills = s]
      BY <1>1, <1>3, <2>1 DEF apply_fill, AccountsType
    <2> HIDE DEF r, e, c, s, z, d
    <2>3. r.realized = z /\ r.closed = d
      BY <2>2 DEF AccountsType
    <2>. QED  BY <1>5, <2>3 DEF ProfitEffect, r, z, d
  <1>. QED  BY <1>1, <1>4, <1>5 DEF Sides

\* A turn of the loop keeps the books: a purchase becomes cost, or less where the average is
\* rounded, and a sale takes its cost out and books the rest as profit.
LEMMA KeptByTurn ==
    ASSUME NEW L, Sound(L), NEW q \in Quotes, NEW t \in Nat, NEW hits,
           NEW k \in DOMAIN L.orders, NEW acc, BooksInLoop(L, q, t, hits, k - 1, acc),
           NEW put \in Int, Accounted(acc.cash, acc.pos, acc.realized, acc.closed, put),
           NEW r, r = apply_fill(acc, fill_of(L, k, q, t, hits))
    PROVE  Accounted(r.cash, r.pos, r.realized, r.closed, put)
  <1> DEFINE n == fill_quantity(L, k, q, t, hits)
             f == fill_of(L, k, q, t, hits)
             x == f.inst
             p == acc.pos[x]
             w == f.price * f.qty
             gain == (f.price - p.avg) * f.qty
  <1>1. n \in Nat /\ f.qty = n
    BY FillFacts DEF fill_of
  <1>2. acc \in AccountsType /\ ~acc.raised
    BY DEF BooksInLoop
  <1>3. CASE n = 0
    <2>1. r = acc
      BY <1>1, <1>3 DEF apply_fill
    <2>. QED  BY <2>1
  <1>4. CASE n # 0
    <2>1. TurnEffect(acc, f, r)
      BY <1>1, <1>4, TurnResult
    <2>2. r = apply_fill(acc, f)
      OBVIOUS
    <2> HIDE DEF f, n
    <2>3. /\ f \in FillType /\ r \in AccountsType /\ w \in Nat
          /\ f.side = "BUY" => /\ w <= acc.cash /\ r.cash = acc.cash - w
                               /\ r.pos = [acc.pos EXCEPT ![x] = enter(p, f.qty, f.price)]
          /\ f.side = "SELL" => /\ f.qty <= p.qty /\ r.cash = acc.cash + w
                                /\ r.pos = [acc.pos EXCEPT ![x] = leave(p, f.qty, f.price)]
      BY <2>1 DEF TurnEffect
    <2>4. /\ f.side = "BUY" => r.realized = acc.realized /\ r.closed = acc.closed
          /\ f.side = "SELL" =>
               /\ r.realized = acc.realized + gain
               /\ r.closed = [acc.closed EXCEPT ![x] =
                     IF f.qty = p.qty THEN acc.closed[x] + p.realized + gain ELSE acc.closed[x]]
      <3>1. ProfitEffect(acc, f, r)
        BY <1>2, <2>2, <2>3, ProfitResult
      <3>. QED  BY <3>1 DEF ProfitEffect
    <2>5. /\ f.qty \in Nat \ {0} /\ f.price \in Nat /\ x \in Instruments /\ f.side \in Sides
      BY <2>3 DEF FillType
    <2>6. /\ acc.pos \in [Instruments -> PositionType] /\ acc.closed \in [Instruments -> Int]
          /\ r.pos \in [Instruments -> PositionType] /\ r.closed \in [Instruments -> Int]
          /\ acc.cash \in Int /\ acc.realized \in Int
      BY <1>2, <2>3 DEF AccountsType
    <2>7. p \in PositionType /\ p.qty \in Nat /\ p.avg \in Nat /\ p.realized \in Int
          /\ acc.closed[x] \in Int
      BY <2>5, <2>6 DEF PositionType
    <2>8. gain \in Int /\ p.avg * f.qty \in Nat /\ p.avg * p.qty \in Nat
          /\ gain = w - p.avg * f.qty
      <3>1. f.price - p.avg \in Int /\ f.qty \in Int
        BY <2>5, <2>7
      <3>2. (f.price - p.avg) * f.qty = f.price * f.qty - p.avg * f.qty
        BY <2>5, <2>7
      <3>. QED  BY <2>5, <2>7, <3>1, <3>2
    <2>9. \A i \in Instruments \ {x} : r.pos[i] = acc.pos[i] /\ r.closed[i] = acc.closed[i]
      BY <2>3, <2>4, <2>5, <2>6 DEF Sides
    <2>10. /\ CostOf(r.pos) = CostOf(acc.pos) - p.avg * p.qty + r.pos[x].avg * r.pos[x].qty
           /\ CostOf(acc.pos) \in Nat
      <3>1. \A i \in Instruments \ {x} : r.pos[i] = acc.pos[i]
        BY <2>9
      <3>2. x \in Instruments /\ acc.pos \in [Instruments -> PositionType]
            /\ r.pos \in [Instruments -> PositionType]
        BY <2>5, <2>6
      <3> DEFINE a == acc.pos
                 b == r.pos
      <3> HIDE DEF x, a, b
      <3>3. Total([i \in Instruments |-> b[i].avg * b[i].qty])
              = Total([i \in Instruments |-> a[i].avg * a[i].qty])
                  - a[x].avg * a[x].qty + b[x].avg * b[x].qty
        BY ONLY <3>1, <3>2, CostUpdate DEF a, b
      <3>4. Total([i \in Instruments |-> a[i].avg * a[i].qty]) \in Nat
        BY ONLY <3>2, PositionCosts DEF a
      <3>. QED  BY <3>3, <3>4 DEF CostOf, a, b, x
    <2>11. /\ ProfitOf(r.pos, r.closed) = ProfitOf(acc.pos, acc.closed)
                 - (acc.closed[x] + p.realized) + (r.closed[x] + r.pos[x].realized)
           /\ ProfitOf(acc.pos, acc.closed) \in Int
      <3>1. ProfitOf(acc.pos, acc.closed) \in Int
        BY <2>6, ProfitFunction
      <3>2. ProfitOf(r.pos, r.closed) = ProfitOf(acc.pos, acc.closed)
              - (acc.closed[x] + acc.pos[x].realized) + (r.closed[x] + r.pos[x].realized)
        <4>1. x \in Instruments
          BY <2>5
        <4>2. \A i \in Instruments \ {x} : r.pos[i] = acc.pos[i] /\ r.closed[i] = acc.closed[i]
          BY <2>9
        <4> HIDE DEF x
        <4>. QED  BY ONLY <2>6, <4>1, <4>2, ProfitUpdate
      <3>. QED  BY <3>1, <3>2
    <2>12. /\ acc.cash + CostOf(acc.pos) <= put + acc.realized
           /\ acc.realized = ProfitOf(acc.pos, acc.closed)
      BY DEF Accounted
    <2> HIDE DEF w, gain
    <2>13. CASE f.side = "BUY"
      <3>1. r.pos[x] = enter(p, f.qty, f.price) /\ r.closed[x] = acc.closed[x]
        BY <2>3, <2>4, <2>5, <2>6, <2>13
      <3>2. /\ r.pos[x].realized = p.realized
            /\ r.pos[x].avg * r.pos[x].qty <= p.avg * p.qty + w
        <4> DEFINE e == enter(p, f.qty, f.price)
        <4>1. e.realized = p.realized /\ e.avg * e.qty <= p.avg * p.qty + f.price * f.qty
          <5> HIDE DEF p
          <5>. QED  BY <2>5, <2>7, EnterFacts
        <4>2. r.pos[x] = e
          BY <3>1
        <4> HIDE DEF e
        <4>. QED  BY <4>1, <4>2 DEF w
      <3>3. r.pos[x].avg \in Nat /\ r.pos[x].qty \in Nat
        BY <2>5, <2>6 DEF PositionType
      <3>4. r.pos[x].avg * r.pos[x].qty \in Nat
        BY <3>3
      <3> DEFINE new == r.pos[x].avg * r.pos[x].qty
                 old == p.avg * p.qty
      <3>5. new <= old + w /\ new \in Nat /\ old \in Nat
            /\ CostOf(r.pos) = CostOf(acc.pos) - old + new
        BY <2>8, <2>10, <3>2, <3>4
      <3> HIDE DEF new, old
      <3>6. r.cash + CostOf(r.pos) <= put + r.realized
        BY <2>3, <2>4, <2>6, <2>10, <2>12, <2>13, <3>5
      <3>7. r.realized = ProfitOf(r.pos, r.closed)
        BY <2>4, <2>7, <2>11, <2>12, <2>13, <3>1, <3>2
      <3>. QED  BY <3>6, <3>7 DEF Accounted
    <2>14. CASE f.side = "SELL"
      <3>1. /\ r.pos[x] = leave(p, f.qty, f.price)
            /\ r.closed[x] = IF f.qty = p.qty THEN acc.closed[x] + p.realized + gain
                             ELSE acc.closed[x]
        BY <2>3, <2>4, <2>5, <2>6, <2>14
      <3>2. /\ r.pos[x].avg * r.pos[x].qty = p.avg * p.qty - p.avg * f.qty
            /\ f.qty = p.qty => r.pos[x].realized = 0
            /\ f.qty # p.qty => r.pos[x].realized = p.realized + gain
        <4> DEFINE e == leave(p, f.qty, f.price)
        <4>1. /\ e.avg * e.qty = p.avg * p.qty - p.avg * f.qty
              /\ f.qty = p.qty => e.realized = 0
              /\ f.qty # p.qty => e.realized = p.realized + (f.price - p.avg) * f.qty
          <5>1. f.qty <= p.qty
            BY <2>3, <2>14
          <5> HIDE DEF p
          <5>. QED  BY <2>5, <2>7, <5>1, LeaveProfit
        <4>2. r.pos[x] = e
          BY <3>1
        <4> HIDE DEF e
        <4>. QED  BY <4>1, <4>2 DEF gain
      <3> DEFINE new == r.pos[x].avg * r.pos[x].qty
                 old == p.avg * p.qty
                 sold == p.avg * f.qty
      <3>3. /\ new = old - sold /\ old \in Nat /\ sold \in Nat
            /\ CostOf(r.pos) = CostOf(acc.pos) - old + new /\ gain = w - sold
        BY <2>8, <2>10, <3>2
      <3> HIDE DEF new, old, sold
      <3>4. r.cash + CostOf(r.pos) <= put + r.realized
        BY <2>3, <2>4, <2>6, <2>8, <2>10, <2>12, <2>14, <3>3
      <3>5. r.realized = ProfitOf(r.pos, r.closed)
        <4>1. r.closed[x] + r.pos[x].realized = acc.closed[x] + p.realized + gain
          BY <2>7, <2>8, <3>1, <3>2
        <4>. QED  BY <2>4, <2>7, <2>8, <2>11, <2>12, <2>14, <4>1
      <3>. QED  BY <3>4, <3>5 DEF Accounted
    <2>. QED  BY <2>5, <2>13, <2>14 DEF Sides
  <1>. QED  BY <1>1, <1>3, <1>4

\* The accounts before the first turn.
LEMMA BooksAtStart ==
    ASSUME NEW L, Sound(L), NEW q, NEW t, NEW hits
    PROVE  BooksInLoop(L, q, t, hits, 0, Start(L))
  <1>1. Turned(L, q, t, hits, 0) = L.orders
    <2>1. L.orders \in Seq(OrderType) /\ DOMAIN L.orders = 1..Len(L.orders)
      BY DEF Sound, LedgerType
    <2>2. \A j \in DOMAIN L.orders : ~(j <= 0)
      BY <2>1
    <2>3. L.orders = [j \in DOMAIN L.orders |-> L.orders[j]]
      BY <2>1
    <2>. QED  BY <2>2, <2>3 DEF Turned
  <1>2. Start(L) \in AccountsType /\ ~Start(L).raised
    BY DEF Start, AccountsType, Sound, LedgerType
  <1>3. Start(L).cash = L.cash /\ Start(L).pos = L.pos
    BY DEF Start
  <1>4. RiskOf(L.pos, L.orders) \in Int
    <2>1. SetAside(L.orders) \in Nat
      BY AsideTotals DEF Sound, LedgerType
    <2>2. Total([i \in Instruments |-> L.pos[i].avg * L.pos[i].qty]) \in Nat
      BY PositionCosts DEF Sound, LedgerType
    <2>. QED  BY <2>1, <2>2 DEF RiskOf
  <1>. QED  BY <1>1, <1>2, <1>3, <1>4 DEF BooksInLoop, Sound, Exposed

\* The whole loop of observe_quote keeps the books.
LEMMA KeptByLoop ==
    ASSUME NEW L, Sound(L), NEW q \in Quotes, NEW t \in Nat, NEW hits, NEW put \in Int,
           Accounted(L.cash, L.pos, L.realized, L.closed, put),
           NEW acc, acc = accounts(L, q, t, hits)
    PROVE  Accounted(acc.cash, acc.pos, acc.realized, acc.closed, put)
  <1> DEFINE n == Len(L.orders)
  <1>1. n \in Nat /\ DOMAIN L.orders = 1..n
    BY DEF Sound, LedgerType
  <1>2. PICK h : /\ h[0] = Start(L)
                 /\ \A k \in 1..n : h[k] = apply_fill(h[k - 1], fill_of(L, k, q, t, hits))
                 /\ accounts(L, q, t, hits) = h[n]
    BY <1>1, AccountsLoop
  <1> DEFINE Kept(a) == Accounted(a.cash, a.pos, a.realized, a.closed, put)
             Good(k) == BooksInLoop(L, q, t, hits, k, h[k]) /\ Kept(h[k])
             Bad == {k \in 0..n : ~Good(k)}
  <1> HIDE DEF n
  <1>3. Good(0)
    <2>1. BooksInLoop(L, q, t, hits, 0, Start(L))
      BY BooksAtStart
    <2>2. Kept(Start(L))
      BY DEF Start
    <2>. QED  BY <1>2, <2>1, <2>2
  <1>4. Bad = {}
    <2>1. SUFFICES ASSUME Bad # {} PROVE FALSE
      OBVIOUS
    <2>2. PICK k \in Bad : \A d \in Bad : k <= d
      <3>1. Bad \in SUBSET Nat
        BY <1>1
      <3> HIDE DEF Bad
      <3>. QED  BY <2>1, <3>1, LeastNumber
    <2>3. k \in 0..n /\ ~Good(k)
      BY <2>2
    <2> HIDE DEF Good
    <2>4. k # 0
      BY <1>3, <2>3
    <2>5. k - 1 \in 0..n /\ k \in 1..n /\ ~(k <= k - 1)
      BY <1>1, <2>3, <2>4
    <2>6. k - 1 \notin Bad
      BY <2>2, <2>5
    <2>7. Good(k - 1)
      BY <2>5, <2>6
    <2>8. k \in DOMAIN L.orders /\ h[k] = apply_fill(h[k - 1], fill_of(L, k, q, t, hits))
      BY <1>1, <1>2, <2>5
    <2>9. BooksInLoop(L, q, t, hits, k - 1, h[k - 1]) /\ Kept(h[k - 1])
      BY <2>7 DEF Good
    <2>10. BooksInLoop(L, q, t, hits, k, h[k])
      BY <2>8, <2>9, BooksTurn
    <2>11. Kept(h[k])
      BY <2>8, <2>9, KeptByTurn
    <2>. QED  BY <2>3, <2>10, <2>11 DEF Good
  <1>5. Good(n)
    <2>1. n \in 0..n /\ n \notin Bad
      BY <1>1, <1>4
    <2> HIDE DEF Good
    <2>. QED  BY <2>1
  <1>. QED  BY <1>2, <1>5

\* The books of a ledger: no more money than was put in and earned, and every profit
\* belongs to an instrument.
LedgerKept(L) == Accounted(L.cash, L.pos, L.realized, L.closed, InitialCash + L.deposits)

\* A call that moves no money.
LEMMA KeptUnmoved ==
    ASSUME NEW L, LedgerKept(L), NEW M,
           M.cash = L.cash, M.pos = L.pos, M.realized = L.realized, M.closed = L.closed,
           M.deposits = L.deposits
    PROVE  LedgerKept(M)
  BY DEF LedgerKept

\* So does a quote, whether it fills or was seen before.
LEMMA KeptByObserve ==
    ASSUME NEW L, Sound(L), LedgerKept(L), NEW q \in Quotes, NEW t \in Nat, NEW hits
    PROVE  LedgerKept(observe_quote(L, q, t, hits))
  <1> DEFINE M == observe_quote(L, q, t, hits)
             acc == accounts(L, q, t, hits)
             put == InitialCash + L.deposits
  <1>1. L \in LedgerType /\ put \in Int
    BY LedgerAssumption DEF Sound, LedgerType
  <1>2. CASE L.quotes[q.inst].id = q.id
    BY <1>2 DEF observe_quote
  <1>3. CASE L.quotes[q.inst].id # q.id
    <2>1. /\ M.cash = acc.cash /\ M.pos = acc.pos /\ M.realized = acc.realized
          /\ M.closed = acc.closed /\ M.deposits = L.deposits
      <3>1. \E quotes, orders, entries :
               M = [L EXCEPT !.quotes = quotes, !.cash = acc.cash, !.pos = acc.pos,
                             !.realized = acc.realized, !.closed = acc.closed, !.orders = orders,
                             !.entries = entries, !.fills = acc.fills]
        <4> DEFINE quotes == [L.quotes EXCEPT ![q.inst] = q]
                   orders == [k \in DOMAIN L.orders |->
                                fill_order(L.orders[k], fill_quantity(L, k, q, t, hits))]
                   filled == {k \in DOMAIN L.orders : fill_quantity(L, k, q, t, hits) > 0}
                   entries == L.entries \cup
                     {<<Day(t), k>> : k \in {j \in filled : L.orders[j].side = "BUY"}}
        <4>1. M = [L EXCEPT !.quotes = quotes, !.cash = acc.cash, !.pos = acc.pos,
                             !.realized = acc.realized, !.closed = acc.closed, !.orders = orders,
                             !.entries = entries, !.fills = acc.fills]
          <5> HIDE DEF acc
          <5>. QED  BY <1>1, <1>3 DEF observe_quote, acc, LedgerType
        <4> HIDE DEF M, acc, quotes, orders, entries
        <4>. QED  BY <4>1
      <3> HIDE DEF M, acc
      <3>. QED  BY <1>1, <3>1 DEF LedgerType
    <2>2. Accounted(acc.cash, acc.pos, acc.realized, acc.closed, put)
      <3>1. Accounted(L.cash, L.pos, L.realized, L.closed, put)
        BY DEF LedgerKept
      <3> HIDE DEF put
      <3>. QED  BY <1>1, <3>1, KeptByLoop
    <2> HIDE DEF M, acc
    <2>. QED  BY <2>1, <2>2 DEF LedgerKept, M
  <1>. QED  BY <1>2, <1>3

\* An expiration turns the cost of what expired into cash and profit.
LEMMA KeptByExpire ==
    ASSUME NEW L, Sound(L), LedgerKept(L), NEW d \in Int, NEW price \in Nat
    PROVE  LedgerKept(expire(L, d, price))
  <1> DEFINE M == expire(L, d, price)
             due == {i \in Instruments : L.pos[i] # NoPosition /\ Expiration[i] <= d}
             gain(i) == (price - L.pos[i].avg) * L.pos[i].qty
             ends(o) == o.st \in OpenStates /\ (Day(o.at) <= d \/ Expiration[o.inst] <= d)
             b == [k \in DOMAIN L.orders |->
                     IF ends(L.orders[k]) THEN [L.orders[k] EXCEPT !.st = "EXPIRED"] ELSE L.orders[k]]
             paid == [i \in due |-> price * L.pos[i].qty]
             gains == [i \in due |-> gain(i)]
             c == L.cash + Total(paid)
             z == L.realized + Total(gains)
             closed == [i \in Instruments |->
                          IF i \in due THEN L.closed[i] + L.pos[i].realized + gain(i) ELSE L.closed[i]]
             e == [i \in Instruments |-> IF i \in due THEN NoPosition ELSE L.pos[i]]
  <1>1. /\ L \in LedgerType /\ L.cash \in Int /\ L.realized \in Int /\ L.deposits \in Int
        /\ L.closed \in [Instruments -> Int] /\ L.pos \in [Instruments -> PositionType]
    BY DEF Sound, LedgerType
  <1>2. /\ M.cash = c /\ M.realized = z /\ M.closed = closed /\ M.pos = e
        /\ M.deposits = L.deposits
    <2>1. M = [L EXCEPT !.orders = b, !.cash = c, !.realized = z, !.closed = closed, !.pos = e]
      BY <1>1 DEF expire, LedgerType
    <2> HIDE DEF M, b, c, z, closed, e
    <2>. QED  BY <1>1, <2>1 DEF LedgerType
  <1>3. \A i \in Instruments : /\ L.pos[i].qty \in Nat /\ L.pos[i].avg \in Nat
                               /\ L.pos[i].realized \in Int /\ L.closed[i] \in Int
    BY <1>1 DEF PositionType
  <1>4. \A i \in Instruments :
           /\ price * L.pos[i].qty \in Nat /\ L.pos[i].avg * L.pos[i].qty \in Nat
           /\ gain(i) \in Int /\ gain(i) = price * L.pos[i].qty - L.pos[i].avg * L.pos[i].qty
    <2> SUFFICES ASSUME NEW i \in Instruments
                 PROVE  /\ price * L.pos[i].qty \in Nat /\ L.pos[i].avg * L.pos[i].qty \in Nat
                        /\ gain(i) \in Int
                        /\ gain(i) = price * L.pos[i].qty - L.pos[i].avg * L.pos[i].qty
      OBVIOUS
    <2>1. L.pos[i].qty \in Nat /\ L.pos[i].avg \in Nat
      BY <1>3
    <2>2. price - L.pos[i].avg \in Int
      BY <2>1
    <2>. QED  BY <2>1, <2>2
  <1>5. IsFiniteSet(Instruments) /\ due \subseteq Instruments
    BY LedgerAssumption
  \* The same sums over all instruments.
  <1> DEFINE cost == [i \in Instruments |-> L.pos[i].avg * L.pos[i].qty]
             left == [i \in Instruments |-> e[i].avg * e[i].qty]
             w == [i \in Instruments |-> IF i \in due THEN price * L.pos[i].qty ELSE 0]
             g == [i \in Instruments |-> IF i \in due THEN gain(i) ELSE 0]
             both == [i \in Instruments |-> cost[i] + g[i]]
             own == [i \in Instruments |-> L.closed[i] + L.pos[i].realized]
             new == [i \in Instruments |-> closed[i] + e[i].realized]
  <1>6. /\ paid \in [due -> Int] /\ gains \in [due -> Int] /\ w \in [Instruments -> Int]
        /\ g \in [Instruments -> Int]
        /\ \A i \in Instruments \ due : w[i] = 0 /\ g[i] = 0
        /\ \A i \in due : paid[i] = w[i] /\ gains[i] = g[i]
    <2> HIDE DEF due, gain
    <2>. QED  BY <1>4, <1>5
  <1>7. NoPosition.avg = 0 /\ NoPosition.qty = 0 /\ NoPosition.realized = 0
    BY DEF NoPosition
  <1>8. /\ cost \in [Instruments -> Int] /\ left \in [Instruments -> Int]
        /\ own \in [Instruments -> Int] /\ new \in [Instruments -> Int]
        /\ both \in [Instruments -> Int]
    <2> HIDE DEF due, gain
    <2>1. cost \in [Instruments -> Int] /\ own \in [Instruments -> Int]
      BY <1>3, <1>4
    <2>2. left \in [Instruments -> Int]
      BY <1>4, <1>7
    <2>3. new \in [Instruments -> Int]
      BY <1>3, <1>4, <1>7
    <2>4. both \in [Instruments -> Int]
      <3> HIDE DEF cost, g
      <3>. QED  BY <1>6, <2>1
    <2>. QED  BY <2>1, <2>2, <2>3, <2>4
  <1>9. \A i \in Instruments : /\ both[i] = cost[i] + g[i] /\ both[i] = left[i] + w[i]
                               /\ new[i] = own[i] + g[i]
    <2> HIDE DEF due, gain
    <2>. QED  BY <1>3, <1>4, <1>7
  <1>10. CostOf(L.pos) = Total(cost) /\ CostOf(e) = Total(left)
         /\ ProfitOf(L.pos, L.closed) = Total(own) /\ ProfitOf(e, closed) = Total(new)
    BY DEF CostOf, ProfitOf
  <1>11. /\ L.cash + CostOf(L.pos) <= InitialCash + L.deposits + L.realized
         /\ L.realized = ProfitOf(L.pos, L.closed)
    BY DEF LedgerKept, Accounted
  <1> HIDE DEF M, due, gain, paid, gains, closed, e, cost, left, w, g, both, own, new
  <1>12. Total(w) = Total(paid) /\ Total(g) = Total(gains)
    BY <1>5, <1>6, TotalOn
  <1>13. Total(both) = Total(cost) + Total(g)
    <2>1. \A i \in Instruments : both[i] = cost[i] + g[i]
      BY <1>9
    <2>2. cost \in [Instruments -> Int] /\ g \in [Instruments -> Int] /\ both \in [Instruments -> Int]
      BY <1>6, <1>8
    <2>. QED  BY ONLY <1>5, <2>1, <2>2, TotalAdd
  <1>14. Total(both) = Total(left) + Total(w)
    <2>1. \A i \in Instruments : both[i] = left[i] + w[i]
      BY <1>9
    <2>2. left \in [Instruments -> Int] /\ w \in [Instruments -> Int] /\ both \in [Instruments -> Int]
      BY <1>6, <1>8
    <2>. QED  BY ONLY <1>5, <2>1, <2>2, TotalAdd
  <1>15. Total(new) = Total(own) + Total(g)
    <2>1. \A i \in Instruments : new[i] = own[i] + g[i]
      BY <1>9
    <2>2. own \in [Instruments -> Int] /\ g \in [Instruments -> Int] /\ new \in [Instruments -> Int]
      BY <1>6, <1>8
    <2>. QED  BY ONLY <1>5, <2>1, <2>2, TotalAdd
  <1>16. /\ Total(w) \in Int /\ Total(g) \in Int /\ Total(cost) \in Int /\ Total(left) \in Int
         /\ Total(own) \in Int
    BY <1>5, <1>6, <1>8, TotalType
  <1>17. InitialCash \in Int
    BY LedgerAssumption
  <1>18. c + CostOf(e) <= InitialCash + L.deposits + z
    BY <1>1, <1>10, <1>11, <1>12, <1>13, <1>14, <1>16, <1>17
  <1>19. z = ProfitOf(e, closed)
    BY <1>1, <1>10, <1>11, <1>12, <1>15, <1>16
  <1>. QED  BY <1>2, <1>18, <1>19 DEF LedgerKept, Accounted, M

\* The books of the ledger are kept at every step.
BooksInvariant == LedgerKept(ledger)

\* No call of the ledger upsets them.
LEMMA BooksInvariance == LedgerSpec => []BooksInvariant
  <1>1. LedgerInit => BooksInvariant
    <2> SUFFICES ASSUME LedgerInit PROVE LedgerKept(NewLedger)
      BY DEF LedgerInit, BooksInvariant
    <2> DEFINE L == NewLedger
               f == [i \in Instruments |-> L.pos[i].avg * L.pos[i].qty]
               g == [i \in Instruments |-> L.closed[i] + L.pos[i].realized]
    <2>1. /\ L.cash = InitialCash /\ L.deposits = 0 /\ L.realized = 0
          /\ \A i \in Instruments : /\ L.pos[i].avg = 0 /\ L.pos[i].qty = 0
                                    /\ L.pos[i].realized = 0 /\ L.closed[i] = 0
      BY DEF NewLedger, NoPosition
    <2> HIDE DEF L
    <2>2. /\ f \in [Instruments -> Int] /\ \A i \in Instruments : f[i] = 0
          /\ g \in [Instruments -> Int] /\ \A i \in Instruments : g[i] = 0
      BY <2>1
    <2>3. IsFiniteSet(Instruments) /\ InitialCash \in Nat
      BY LedgerAssumption
    <2>4. CostOf(L.pos) = Total(f) /\ ProfitOf(L.pos, L.closed) = Total(g)
      BY DEF CostOf, ProfitOf
    <2> HIDE DEF f, g
    <2>5. Total(f) = 0 /\ Total(g) = 0
      BY <2>2, <2>3, TotalZero
    <2>. QED  BY <2>1, <2>3, <2>4, <2>5 DEF LedgerKept, Accounted, L
  <1>2. LedgerInvariant /\ BooksInvariant /\ [LedgerNext]_ledgerVars => BooksInvariant'
    <2>1. BooksInvariant' <=> LedgerKept(ledger')
      BY DEF BooksInvariant, LedgerKept, Accounted, CostOf, ProfitOf
    <2> SUFFICES ASSUME LedgerInvariant, LedgerKept(ledger), [LedgerNext]_ledgerVars
                 PROVE  LedgerKept(ledger')
      BY <2>1 DEF BooksInvariant
    <2>2. Sound(ledger) /\ now \in Nat /\ raised = FALSE
      BY DEF LedgerInvariant
    <2>3. ledger \in LedgerType
      BY <2>2 DEF Sound
    <2>4. CASE Tick \/ UNCHANGED ledgerVars
      BY <2>4 DEF Tick, ledgerVars
    <2>5. ASSUME NEW key \in Keys, NEW terms \in Terms, Submit(key, terms)
          PROVE  LedgerKept(ledger')
      <3>1. ledger' = ledger \/ \E orders, keys, entries :
               ledger' = [ledger EXCEPT !.orders = orders, !.keys = keys, !.entries = entries]
        BY <2>3, <2>5 DEF Submit, submit, LedgerType
      <3>. QED  BY <2>3, <3>1, KeptUnmoved DEF LedgerType
    <2>6. ASSUME NEW key \in Keys, NEW n \in DOMAIN ledger.orders, Cancel(key, n)
          PROVE  LedgerKept(ledger')
      <3>1. ledger' = ledger \/ \E orders, keys :
               ledger' = [ledger EXCEPT !.keys = keys, !.orders = orders]
        BY <2>3, <2>6 DEF Cancel, cancel, LedgerType
      <3>. QED  BY <2>3, <3>1, KeptUnmoved DEF LedgerType
    <2>7. ASSUME NEW amount \in Amounts, Deposit(amount)
          PROVE  LedgerKept(ledger')
      <3>1. /\ ledger' = [ledger EXCEPT !.cash = ledger.cash + amount,
                                        !.deposits = ledger.deposits + amount]
            /\ amount \in Nat
        BY <2>3, <2>7, FeedAssumption DEF Deposit, deposit, LedgerType
      <3>2. /\ ledger'.cash = ledger.cash + amount /\ ledger'.deposits = ledger.deposits + amount
            /\ ledger'.pos = ledger.pos /\ ledger'.realized = ledger.realized
            /\ ledger'.closed = ledger.closed
        BY <2>3, <3>1 DEF LedgerType
      <3>3. /\ ledger.cash \in Int /\ ledger.deposits \in Int /\ ledger.realized \in Int
            /\ ledger.pos \in [Instruments -> PositionType] /\ InitialCash \in Nat
        BY <2>3, LedgerAssumption DEF LedgerType
      <3>4. CostOf(ledger.pos) \in Nat
        BY <3>3, PositionCosts DEF CostOf
      <3>. QED  BY <3>1, <3>2, <3>3, <3>4 DEF LedgerKept, Accounted
    <2>8. ASSUME NEW q \in Feed, NEW hits, ObserveQuote(q, hits)
          PROVE  LedgerKept(ledger')
      <3>1. q \in Quotes
        BY FeedAssumption DEF Orderly
      <3>2. ledger' = ledger \/ ledger' = observe_quote(ledger, q, now, hits)
        BY <2>8 DEF ObserveQuote
      <3>. QED  BY <2>2, <3>1, <3>2, KeptByObserve
    <2>9. ASSUME NEW d \in 0..Day(now), NEW price \in Settlements, Expire(d, price)
          PROVE  LedgerKept(ledger')
      <3>1. ledger' = expire(ledger, d, price) /\ price \in Nat /\ d \in Int
        BY <2>9, FeedAssumption DEF Expire
      <3>. QED  BY <2>2, <3>1, KeptByExpire
    <2>. QED  BY <2>4, <2>5, <2>6, <2>7, <2>8, <2>9 DEF LedgerNext
  <1>. QED  BY <1>1, <1>2, LedgerInvariance, PTL DEF LedgerSpec

\* The ledger makes no money: its cash and what its positions cost never exceed the money put
\* in and the profit booked (apply_fill, expire and deposit move the same amounts between the
\* three), and every booked profit belongs to an instrument's closed trades or open position.
\* The cost is an average, rounded down here as a purchase is entered, so it may fall short
\* of what was paid by the rounding and never exceeds it.
NoMoneyIsMade ==
    /\ ledger.cash + cost_basis(ledger) <= InitialCash + ledger.deposits + ledger.realized
    /\ ledger.realized
         = Total([i \in Instruments |-> ledger.closed[i] + ledger.pos[i].realized])

\* However quotes, orders, cancellations, deposits and expirations follow each other, the
\* loop of observe_quote and the settlements of expire neither create money nor lose track
\* of a profit, for any prices, quantities and number of instruments.
THEOREM LedgerMakesNoMoney == LedgerSpec => []NoMoneyIsMade
  <1>1. BooksInvariant => NoMoneyIsMade
    BY DEF BooksInvariant, LedgerKept, Accounted, CostOf, ProfitOf, NoMoneyIsMade, cost_basis
  <1>. QED  BY <1>1, BooksInvariance, PTL

-----------------------------------------------------------------------------
\* A ledger fed by the replay

\* The feed of the replay.
Replay == QuotesOf(DOMAIN Fixture)

\* A key names the order it placed.
KeysSound(L) ==
    \A p \in Keys : L.keys[p] # 0 =>
        L.keys[p] \in DOMAIN L.orders /\ L.orders[L.keys[p]].key = p

\* What a ledger has seen by time t, and that it holds nothing it saw no quote of.
SeenBy(L, t) ==
    \A i \in Instruments :
        /\ L.quotes[i] # NoQuote => L.quotes[i].eff <= t /\ L.quotes[i].obs <= t
        /\ L.pos[i].qty > 0 => L.quotes[i] # NoQuote

ReplayLedger(L, t) ==
    /\ t \in Nat /\ Sound(L) /\ KeysSound(L) /\ FillsSound(L, Replay) /\ SeenBy(L, t)

\* A ledger that grows keeps its keys, its fills and what its orders have filled.
LEMMA GrowsTransitive ==
    ASSUME NEW L, NEW M, NEW N, Sound(L), Sound(M), Sound(N), Grows(L, M), Grows(M, N)
    PROVE  Grows(L, N)
  <1>1. /\ \A k \in DOMAIN L.orders : L.orders[k].filled \in Nat
        /\ \A k \in DOMAIN M.orders : M.orders[k].filled \in Nat
        /\ \A k \in DOMAIN N.orders : N.orders[k].filled \in Nat
    BY SoundOrders
  <1>2. /\ L.fills \in Seq(FillType) /\ M.fills \in Seq(FillType) /\ N.fills \in Seq(FillType)
    BY DEF Sound, LedgerType
  <1>3. /\ Len(L.fills) \in Nat /\ Len(M.fills) \in Nat /\ Len(N.fills) \in Nat
        /\ DOMAIN L.fills = 1..Len(L.fills) /\ DOMAIN M.fills = 1..Len(M.fills)
    BY <1>2
  <1>4. \A j \in DOMAIN L.fills : j \in DOMAIN M.fills
    BY <1>3 DEF Grows
  <1>5. \A k \in DOMAIN L.orders :
           /\ k \in DOMAIN N.orders /\ N.orders[k].key = L.orders[k].key
           /\ N.orders[k].filled >= L.orders[k].filled
    BY <1>1 DEF Grows
  <1>. QED  BY <1>3, <1>4, <1>5 DEF Grows

\* The quotes of the fixture are an orderly feed, and each has the key of its exit.
LEMMA ReplayFeed ==
    /\ Orderly(Replay)
    /\ \A q \in Replay : /\ q \in Quotes /\ q.inst \in Instruments /\ q.id \in Nat \ {0}
                         /\ q.eff \in Nat /\ q.obs \in Nat /\ q.bid \in Nat /\ q.ask \in Nat
                         /\ q # NoQuote /\ exit(q) \in Keys
  <1>1. Orderly(Replay)
    BY RuntimeAssumption DEF Replay
  <1>2. \A q \in Replay : q \in Quotes
    BY <1>1 DEF Orderly
  <1>3. \A q \in Quotes : /\ q.inst \in Instruments /\ q.id \in Nat \ {0}
                          /\ q.eff \in Nat /\ q.obs \in Nat /\ q.bid \in Nat /\ q.ask \in Nat
    BY DEF Quotes
  <1>4. \A q \in Quotes : q # NoQuote
    <2>1. NoQuote.id = 0
      BY DEF NoQuote
    <2>. QED  BY <1>3, <2>1
  <1>5. \A q \in Replay : exit(q) \in Keys
    BY RuntimeAssumption DEF Replay
  <1>. QED  BY <1>1, <1>2, <1>3, <1>4, <1>5

LEMMA SeenLater ==
    ASSUME NEW L, NEW t, ReplayLedger(L, t), NEW u \in Nat, t <= u
    PROVE  ReplayLedger(L, u)
  <1>1. t \in Nat /\ FillsSound(L, Replay) /\ SeenBy(L, t)
    BY DEF ReplayLedger
  <1>2. ASSUME NEW i \in Instruments, L.quotes[i] # NoQuote
        PROVE  L.quotes[i].eff <= u /\ L.quotes[i].obs <= u
    <2>1. L.quotes[i] \in Replay /\ L.quotes[i].eff <= t /\ L.quotes[i].obs <= t
      BY <1>1, <1>2 DEF FillsSound, SeenBy
    <2>2. L.quotes[i].eff \in Nat /\ L.quotes[i].obs \in Nat
      BY <2>1, ReplayFeed
    <2>. QED  BY <1>1, <2>1, <2>2
  <1>3. SeenBy(L, u)
    BY <1>1, <1>2 DEF SeenBy
  <1>. QED  BY <1>3 DEF ReplayLedger

LEMMA NewReplayLedger == \A t \in Nat : ReplayLedger(NewLedger, t)
  <1>1. FillsSound(NewLedger, Replay)
    BY DEF NewLedger, FillsSound
  <1>2. KeysSound(NewLedger)
    BY DEF NewLedger, KeysSound
  <1>3. \A t \in Nat : SeenBy(NewLedger, t)
    BY DEF NewLedger, SeenBy, NoPosition
  <1>. QED  BY <1>1, <1>2, <1>3, NewLedgerSound DEF ReplayLedger

LEMMA ObserveReplay ==
    ASSUME NEW L, NEW t, ReplayLedger(L, t), NEW q \in Replay, ~observe_raises(L, q, t)
    PROVE  /\ ReplayLedger(observe_quote(L, q, t, {}), t)
           /\ Grows(L, observe_quote(L, q, t, {}))
  <1> DEFINE M == observe_quote(L, q, t, {})
             acc == accounts(L, q, t, {})
             b == Turned(L, q, t, {}, Len(L.orders))
  <1>1. t \in Nat /\ Sound(L) /\ KeysSound(L) /\ FillsSound(L, Replay) /\ SeenBy(L, t)
    BY DEF ReplayLedger
  <1>2. q \in Quotes /\ Orderly(Replay) /\ q.inst \in Instruments /\ q.eff \in Nat /\ q.obs \in Nat
        /\ q # NoQuote
    BY ReplayFeed
  <1>3. Sound(M) /\ Grows(L, M) /\ DOMAIN M.orders = DOMAIN L.orders
    BY <1>1, <1>2, ObserveSound
  <1>4. FillsSound(M, Replay)
    BY <1>1, <1>2, ObserveFills
  <1>5. CASE L.quotes[q.inst].id = q.id
    <2>1. M = L
      BY <1>5 DEF observe_quote
    <2> HIDE DEF M
    <2>. QED  BY <1>3, <2>1 DEF M
  <1>6. CASE L.quotes[q.inst].id # q.id
    <2>1. ObserveEffect(L, q, t, b, acc, M)
      BY <1>1, <1>2, <1>6, ObserveFields
    <2>2. \A i \in Instruments \ {q.inst} : acc.pos[i] = L.pos[i]
      <3>1. BooksInLoop(L, q, t, {}, Len(L.orders), acc)
        BY <1>1, <1>2, AccountsCovered
      <3> HIDE DEF acc
      <3>. QED  BY <3>1 DEF BooksInLoop
    <2> HIDE DEF M, acc, b
    <2>3. M.keys = L.keys /\ M.pos = acc.pos /\ M.quotes = [L.quotes EXCEPT ![q.inst] = q]
      BY <2>1 DEF ObserveEffect
    <2>4. L.quotes \in [Instruments -> Quotes \cup {NoQuote}]
      BY <1>1 DEF Sound, LedgerType
    <2>5. M.quotes[q.inst] = q /\ \A i \in Instruments \ {q.inst} : M.quotes[i] = L.quotes[i]
      BY <1>2, <2>3, <2>4
    <2>6. q.eff <= t /\ q.obs <= t
      BY <1>1, <1>2 DEF observe_raises
    <2>7. SeenBy(M, t)
      BY <1>1, <1>2, <2>2, <2>3, <2>5, <2>6 DEF SeenBy
    <2>8. KeysSound(M)
      BY <1>1, <1>3, <2>3 DEF KeysSound, Grows
    <2>. QED  BY <1>1, <1>3, <1>4, <2>7, <2>8 DEF ReplayLedger, M
  <1>. QED  BY <1>5, <1>6

\* Only the key itself, and nothing of another order, is new after a placement.
LEMMA SubmitReplay ==
    ASSUME NEW L, NEW t, ReplayLedger(L, t), NEW key \in Keys, L.keys[key] = 0,
           NEW terms, TermsType(terms), NEW M, M = submit(L, key, terms, t)
    PROVE  /\ ReplayLedger(M, t) /\ Grows(L, M)
           /\ M.keys[key] # 0 /\ M.fills = L.fills
           /\ \A p \in Keys \ {key} :
                 /\ M.keys[p] = L.keys[p]
                 /\ L.keys[p] # 0 => Published(M, p) = Published(L, p)
  <1>1. t \in Nat /\ Sound(L) /\ KeysSound(L) /\ FillsSound(L, Replay) /\ SeenBy(L, t)
    BY DEF ReplayLedger
  <1>2. Sound(M) /\ Grows(L, M)
    BY <1>1, SubmitSound
  <1>3. PICK o : SubmitEffect(L, key, terms, t, o, M)
    BY <1>1, SubmitFields DEF duplicate_order
  <1> DEFINE n == Len(L.orders) + 1
  <1>4. /\ M.orders = Append(L.orders, o) /\ o.key = key /\ o \in OrderType
        /\ M.quotes = L.quotes /\ M.fills = L.fills /\ M.pos = L.pos
        /\ M.keys = [L.keys EXCEPT ![key] = n]
    BY <1>3 DEF SubmitEffect
  <1>5. L.orders \in Seq(OrderType) /\ L.keys \in [Keys -> Nat]
    BY <1>1 DEF Sound, LedgerType
  <1>6. /\ n \in Nat \ {0} /\ n \in DOMAIN M.orders /\ M.orders[n] = o
        /\ \A k \in DOMAIN L.orders : k \in DOMAIN M.orders /\ M.orders[k] = L.orders[k]
    BY <1>4, <1>5, AppendProperties
  <1> HIDE DEF n
  <1>7. M.keys[key] = n /\ \A p \in Keys \ {key} : M.keys[p] = L.keys[p]
    BY <1>4, <1>5
  <1>8. KeysSound(M)
    BY <1>1, <1>4, <1>6, <1>7 DEF KeysSound
  <1>9. FillsSound(M, Replay)
    BY <1>1, <1>4, <1>6, FillsKept
  <1>10. SeenBy(M, t)
    BY <1>1, <1>4 DEF SeenBy
  <1>11. \A p \in Keys \ {key} : L.keys[p] # 0 => Published(M, p) = Published(L, p)
    BY <1>1, <1>6, <1>7 DEF KeysSound, Published
  <1>. QED  BY <1>1, <1>2, <1>4, <1>6, <1>7, <1>8, <1>9, <1>10, <1>11 DEF ReplayLedger

\* A position has a current quote, and the provider finds the latest one.
LEMMA LatestQuote ==
    ASSUME NEW i, NEW t \in Nat, visible_quotes(i, t) # {}
    PROVE  get_option_quote(i, t) \in visible_quotes(i, t)
  <1> DEFINE V == visible_quotes(i, t)
             Late(q, r) == \/ r.eff < q.eff
                           \/ r.eff = q.eff /\ r.obs < q.obs
                           \/ r.eff = q.eff /\ r.obs = q.obs /\ r.id <= q.id
             Ages == {t - r.eff : r \in V}
  <1>1. \A r \in V : r \in Replay /\ r.inst = i /\ r.eff <= t /\ r.eff \in Nat /\ r.id \in Nat
    BY ReplayFeed DEF visible_quotes, Replay
  <1>2. V # {}
    OBVIOUS
  <1> HIDE DEF V
  <1>3. Ages \in SUBSET Nat /\ Ages # {}
    BY <1>1, <1>2
  <1>4. PICK x \in Ages : \A y \in Ages : x <= y
    <2> HIDE DEF Ages
    <2>. QED  BY <1>3, LeastNumber
  <1>5. PICK q \in V : x = t - q.eff
    OBVIOUS
  <1>6. \A r \in V : Late(q, r)
    <2> SUFFICES ASSUME NEW r \in V PROVE Late(q, r)
      OBVIOUS
    <2>1. t - q.eff <= t - r.eff
      BY <1>4, <1>5
    <2>2. r.eff <= q.eff
      BY <1>1, <2>1
    <2>3. r.eff = q.eff => r = q
      BY <1>1, ReplayFeed DEF Orderly
    <2>. QED  BY <1>1, <2>2, <2>3
  <1>7. get_option_quote(i, t) = CHOOSE z \in V : \A r \in V : Late(z, r)
    BY DEF get_option_quote, V
  <1> HIDE DEF Late
  <1>8. (CHOOSE z \in V : \A r \in V : Late(z, r)) \in V
    BY <1>6, Zenon
  <1>. QED  BY <1>7, <1>8 DEF V

-----------------------------------------------------------------------------
\* The room the risk rules leave

ExposedTo(L) == {i \in Instruments : Exposed(L.pos, L.orders, i)}

EnteredOn(L, d) == {k \in DOMAIN L.orders : L.orders[k].side = "BUY" /\ Day(L.orders[k].at) = d}

AdmittedOn(L, d) == {e \in L.entries : e[1] = d}

\* The account is within the limits, and its admissions name every entry.
Within(L) ==
    /\ RiskOf(L.pos, L.orders) <= Limits.openRisk
    /\ Cardinality(ExposedTo(L)) <= Limits.positions
    /\ IsFiniteSet(L.entries)
    /\ \A k \in DOMAIN L.orders :
          L.orders[k].side = "BUY" => <<Day(L.orders[k].at), k>> \in L.entries
    /\ \A d \in Int : Cardinality(EnteredOn(L, d)) <= Limits.entries

\* What the risk rules found room for.
Fits(L, terms, t) ==
    terms.side = "BUY" =>
        /\ RiskOf(L.pos, L.orders) + terms.limit * terms.qty <= Limits.openRisk
        /\ Cardinality(ExposedTo(L)) < Limits.positions
        /\ Cardinality(AdmittedOn(L, Day(t))) < Limits.entries

LEMMA LimitTypes ==
    /\ Limits.openRisk \in Nat \ {0} /\ Limits.positions \in Nat \ {0} /\ Limits.entries \in Nat \ {0}
  BY LimitsAssumption

LEMMA ExposedFinite ==
    ASSUME NEW L
    PROVE  IsFiniteSet(ExposedTo(L)) /\ Cardinality(ExposedTo(L)) \in Nat
  <1>1. ExposedTo(L) \in SUBSET Instruments
    BY DEF ExposedTo
  <1>2. IsFiniteSet(Instruments)
    BY LedgerAssumption
  <1>. QED  BY <1>1, <1>2, FS_Subset, FS_CardinalityType

\* Every entry of a day was admitted against it.
LEMMA EnteredAdmitted ==
    ASSUME NEW L, Sound(L), Within(L), NEW d \in Int
    PROVE  /\ IsFiniteSet(EnteredOn(L, d)) /\ IsFiniteSet(AdmittedOn(L, d))
           /\ Cardinality(EnteredOn(L, d)) \in Nat /\ Cardinality(AdmittedOn(L, d)) \in Nat
           /\ Cardinality(EnteredOn(L, d)) <= Cardinality(AdmittedOn(L, d))
  <1> DEFINE S == EnteredOn(L, d)
             T == AdmittedOn(L, d)
             f == [k \in S |-> <<d, k>>]
  <1>1. IsFiniteSet(T)
    <2>1. T \in SUBSET L.entries /\ IsFiniteSet(L.entries)
      BY DEF AdmittedOn, Within
    <2>. QED  BY <2>1, FS_Subset
  <1>2. \A k \in S : <<d, k>> \in T
    BY DEF EnteredOn, AdmittedOn, Within
  <1> HIDE DEF S, T
  <1>3. f \in Injection(S, T)
    BY <1>2 DEF Injection, IsInjective
  <1>4. IsFiniteSet(S) /\ Cardinality(S) <= Cardinality(T)
    <2> HIDE DEF f
    <2>. QED  BY <1>1, <1>3, FS_Injection
  <1>. QED  BY <1>1, <1>4, FS_CardinalityType DEF S, T

LEMMA NewLedgerWithin == Within(NewLedger)
  <1> DEFINE L == NewLedger
  <1>1. L.orders = <<>> /\ L.entries = {} /\ \A i \in Instruments : L.pos[i] = NoPosition
    BY DEF NewLedger
  <1>2. L.pos = [i \in Instruments |-> NoPosition]
    BY DEF NewLedger
  <1> HIDE DEF L
  <1>3. SetAside(L.orders) = 0
    <2>1. \A f : f \in [{} -> Int] => Total(f) = 0
      BY TotalEmpty
    <2>2. DOMAIN L.orders = {}
      BY <1>1
    <2>3. [k \in DOMAIN L.orders |-> cash_set_aside(L.orders[k])] \in [{} -> Int]
      BY <2>2
    <2>. QED  BY <2>1, <2>3 DEF SetAside
  <1>4. Total([i \in Instruments |-> L.pos[i].avg * L.pos[i].qty]) = 0
    <2> DEFINE f == [i \in Instruments |-> L.pos[i].avg * L.pos[i].qty]
    <2>1. f \in [Instruments -> Int] /\ \A i \in Instruments : f[i] = 0
      BY <1>1 DEF NoPosition
    <2> HIDE DEF f
    <2>2. Total(f) = 0
      BY <2>1, TotalZero, LedgerAssumption
    <2>. QED  BY <2>2 DEF f
  <1>5. ExposedTo(L) = {} /\ \A d \in Int : EnteredOn(L, d) = {}
    BY <1>1 DEF ExposedTo, Exposed, EnteredOn, NoPosition
  <1>6. Cardinality({}) = 0 /\ IsFiniteSet({})
    BY FS_EmptySet
  <1>7. RiskOf(L.pos, L.orders) = 0
    BY <1>3, <1>4 DEF RiskOf
  <1>8. DOMAIN L.orders = {}
    BY <1>1
  <1>9. Cardinality(ExposedTo(L)) = 0 /\ \A d \in Int : Cardinality(EnteredOn(L, d)) = 0
    BY <1>5, <1>6
  <1>10. IsFiniteSet(L.entries) /\ \A k \in DOMAIN L.orders : FALSE
    BY <1>1, <1>6, <1>8
  <1>11. Within(L)
    BY <1>7, <1>9, <1>10, LimitTypes DEF Within
  <1>. QED  BY <1>11 DEF L

\* A quote turns risk into positions and never adds to it.
LEMMA ObserveWithin ==
    ASSUME NEW L, Sound(L), Within(L), NEW q \in Quotes, NEW t \in Nat, NEW hits
    PROVE  Within(observe_quote(L, q, t, hits))
  <1> DEFINE M == observe_quote(L, q, t, hits)
             acc == accounts(L, q, t, hits)
             n == Len(L.orders)
             b == Turned(L, q, t, hits, n)
  <1>1. CASE L.quotes[q.inst].id = q.id
    <2>1. M = L
      BY <1>1 DEF observe_quote
    <2> HIDE DEF M
    <2>. QED  BY <2>1 DEF M
  <1>2. CASE L.quotes[q.inst].id # q.id
    <2>1. ObserveEffect(L, q, t, b, acc, M)
      BY <1>2, ObserveFields
    <2>2. Sound(M) /\ DOMAIN M.orders = DOMAIN L.orders
          /\ RiskOf(M.pos, M.orders) <= RiskOf(L.pos, L.orders)
      BY ObserveSound
    <2>3. \A i \in Instruments : acc.pos[i].qty > 0 => Exposed(L.pos, L.orders, i)
      <3>1. BooksInLoop(L, q, t, hits, n, acc)
        BY AccountsCovered
      <3> HIDE DEF acc, n
      <3>. QED  BY <3>1 DEF BooksInLoop
    <2>4. \A k \in DOMAIN L.orders :
             /\ b[k].side = L.orders[k].side /\ b[k].at = L.orders[k].at
             /\ b[k].inst = L.orders[k].inst
             /\ b[k].st \in OpenStates => L.orders[k].st \in OpenStates
      <3> SUFFICES ASSUME NEW k \in DOMAIN L.orders
                   PROVE  /\ b[k].side = L.orders[k].side /\ b[k].at = L.orders[k].at
                          /\ b[k].inst = L.orders[k].inst
                          /\ b[k].st \in OpenStates => L.orders[k].st \in OpenStates
        OBVIOUS
      <3> DEFINE o == L.orders[k]
                 x == fill_quantity(L, k, q, t, hits)
      <3>1. x \in Nat /\ x <= Remaining(o) /\ (x > 0 => o.st \in OpenStates)
        BY FillFacts
      <3>2. o \in OrderType /\ OrderSound(o)
        BY SoundOrders
      <3>3. b[k] = fill_order(o, x)
        <4>1. L.orders \in Seq(OrderType)
          BY DEF Sound, LedgerType
        <4>2. k <= n
          BY <4>1
        <4>. QED  BY <4>2 DEF Turned
      <3> HIDE DEF o, x, b
      <3>4. /\ fill_order(o, x).side = o.side /\ fill_order(o, x).at = o.at
            /\ fill_order(o, x).inst = o.inst /\ (x = 0 => fill_order(o, x) = o)
        BY <3>1, <3>2, FilledOrder
      <3>. QED  BY <3>1, <3>3, <3>4 DEF o
    <2> HIDE DEF M, acc, b, n
    <2>5. M.orders = b /\ M.pos = acc.pos /\ L.entries \subseteq M.entries
          /\ M.entries \subseteq L.entries \union
                {<<Day(t), k>> : k \in {k \in DOMAIN L.orders : working(L.orders[k], "BUY")}}
      BY <2>1 DEF ObserveEffect
    <2>6. RiskOf(M.pos, M.orders) <= Limits.openRisk
      <3>1. RiskOf(M.pos, M.orders) \in Nat /\ RiskOf(L.pos, L.orders) \in Nat
        BY <2>2, RiskType
      <3>. QED  BY <2>2, <3>1, LimitTypes DEF Within
    <2>7. Cardinality(ExposedTo(M)) <= Limits.positions
      <3>1. ExposedTo(M) \in SUBSET ExposedTo(L)
        BY <2>2, <2>3, <2>4, <2>5 DEF ExposedTo, Exposed, working
      <3>2. Cardinality(ExposedTo(M)) <= Cardinality(ExposedTo(L))
        BY <3>1, ExposedFinite, FS_Subset
      <3>. QED  BY <3>2, ExposedFinite, LimitTypes DEF Within
    <2>8. IsFiniteSet(M.entries)
      <3> DEFINE S == {k \in DOMAIN L.orders : working(L.orders[k], "BUY")}
                 T == {<<Day(t), k>> : k \in S}
                 f == [k \in S |-> <<Day(t), k>>]
      <3>1. IsFiniteSet(S)
        <4>1. IsFiniteSet(DOMAIN L.orders) /\ S \in SUBSET DOMAIN L.orders
          BY FiniteOrders DEF Sound, LedgerType
        <4>. QED  BY <4>1, FS_Subset
      <3> HIDE DEF S
      <3>2. f \in Surjection(S, T)
        BY DEF Surjection
      <3>3. IsFiniteSet(T)
        <4> HIDE DEF f, T
        <4>. QED  BY <3>1, <3>2, FS_Surjection
      <3>4. M.entries \in SUBSET (L.entries \union T)
        BY <2>5 DEF S
      <3> HIDE DEF T
      <3>5. IsFiniteSet(L.entries \union T)
        BY <3>3, FS_Union DEF Within
      <3>. QED  BY <3>4, <3>5, FS_Subset
    <2>9. \A k \in DOMAIN M.orders :
             M.orders[k].side = "BUY" => <<Day(M.orders[k].at), k>> \in M.entries
      BY <2>2, <2>4, <2>5 DEF Within
    <2>10. \A d \in Int : EnteredOn(M, d) = EnteredOn(L, d)
      BY <2>2, <2>4, <2>5 DEF EnteredOn
    <2>. QED  BY <2>6, <2>7, <2>8, <2>9, <2>10 DEF Within, M
  <1>. QED  BY <1>1, <1>2

\* An entry the risk rules found room for, placed in the account they looked at.
LEMMA SubmitWithin ==
    ASSUME NEW L, Sound(L), Within(L), NEW key \in Keys, L.keys[key] = 0,
           NEW t \in Nat, NEW terms, TermsType(terms), Fits(L, terms, t), ~rejects(L, terms, t)
    PROVE  Within(submit(L, key, terms, t))
  <1> DEFINE M == submit(L, key, terms, t)
             n == Len(L.orders) + 1
             d == Day(t)
  <1>1. PICK o : SubmitEffect(L, key, terms, t, o, M)
    BY SubmitFields DEF duplicate_order
  <1>2. Sound(M)
    BY SubmitSound
  <1> HIDE DEF M
  <1>3. /\ o \in OrderType /\ o.side = terms.side /\ o.inst = terms.inst /\ o.at = t
        /\ o.qty = terms.qty /\ o.limit = terms.limit /\ o.filled = 0 /\ o.st = "OPEN"
        /\ M.orders = Append(L.orders, o) /\ M.pos = L.pos
        /\ M.entries = IF terms.side = "SELL" THEN L.entries ELSE L.entries \union {<<d, n>>}
    BY <1>1 DEF SubmitEffect
  <1>4. /\ L.orders \in Seq(OrderType) /\ \A k \in DOMAIN L.orders : OrderSound(L.orders[k])
        /\ d \in Int /\ terms.side \in {"BUY", "SELL"} /\ terms.qty \in Nat /\ terms.limit \in Nat
        /\ terms.inst \in Instruments
    BY LedgerAssumption DEF Sound, LedgerType, Day, TermsType, Sides
  <1>5. OrderSound(o)
    BY <1>3, <1>4 DEF OrderSound
  <1>6. /\ n \in Nat /\ n \notin DOMAIN L.orders /\ n \in DOMAIN M.orders /\ M.orders[n] = o
        /\ \A k \in DOMAIN L.orders : k \in DOMAIN M.orders /\ M.orders[k] = L.orders[k]
        /\ \A k \in DOMAIN M.orders : k = n \/ k \in DOMAIN L.orders
    BY <1>3, <1>4, AppendProperties
  <1> HIDE DEF n, d
  <1>7. RiskOf(M.pos, M.orders) <= Limits.openRisk
    <2> DEFINE w == terms.limit * terms.qty
    <2>1. SetAside(M.orders) = SetAside(L.orders) + cash_set_aside(o)
      BY <1>3, <1>4, <1>5, AsideAppend
    <2>2. w \in Nat /\ Remaining(o) * o.limit = w
      BY <1>3, <1>4 DEF Remaining
    <2>3. cash_set_aside(o) = IF terms.side = "BUY" THEN w ELSE 0
      BY <1>3, <2>2 DEF cash_set_aside, working, OpenStates
    <2>4. terms.side = "BUY" => RiskOf(L.pos, L.orders) + w <= Limits.openRisk
      BY DEF Fits
    <2> HIDE DEF w
    <2> DEFINE c == Total([i \in Instruments |-> L.pos[i].avg * L.pos[i].qty])
               s == SetAside(L.orders)
    <2>5. s \in Nat /\ c \in Nat
      BY SoundTotals, PositionCosts DEF Sound, LedgerType
    <2>6. RiskOf(L.pos, L.orders) = c + s /\ RiskOf(M.pos, M.orders) = c + (s + cash_set_aside(o))
      BY <1>3, <2>1 DEF RiskOf
    <2>7. RiskOf(L.pos, L.orders) <= Limits.openRisk
      BY DEF Within
    <2> HIDE DEF c, s
    <2>. QED  BY <2>2, <2>3, <2>4, <2>5, <2>6, <2>7, LimitTypes
  <1>8. Cardinality(ExposedTo(M)) <= Limits.positions
    <2>1. terms.side = "SELL" => ExposedTo(M) \in SUBSET ExposedTo(L)
      BY <1>3, <1>6 DEF ExposedTo, Exposed, working
    <2>2. ExposedTo(M) \in SUBSET (ExposedTo(L) \union {terms.inst})
      BY <1>3, <1>6 DEF ExposedTo, Exposed, working
    <2>3. IsFiniteSet(ExposedTo(L) \union {terms.inst})
          /\ Cardinality(ExposedTo(L) \union {terms.inst}) \in Nat
          /\ Cardinality(ExposedTo(L) \union {terms.inst}) <= Cardinality(ExposedTo(L)) + 1
      <3> DEFINE E == ExposedTo(L)
                 x == terms.inst
      <3>1. IsFiniteSet(E) /\ Cardinality(E) \in Nat
        BY ExposedFinite
      <3> HIDE DEF E, x
      <3>2. /\ IsFiniteSet(E \union {x})
            /\ Cardinality(E \union {x}) = IF x \in E THEN Cardinality(E) ELSE Cardinality(E) + 1
        BY <3>1, FS_AddElement
      <3>3. Cardinality(E \union {x}) \in Nat /\ Cardinality(E \union {x}) <= Cardinality(E) + 1
        BY <3>1, <3>2
      <3>. QED  BY <3>2, <3>3 DEF E, x
    <2>4. /\ Cardinality(ExposedTo(M)) <= Cardinality(ExposedTo(L) \union {terms.inst})
          /\ terms.side = "SELL" => Cardinality(ExposedTo(M)) <= Cardinality(ExposedTo(L))
      BY <2>1, <2>2, <2>3, ExposedFinite, FS_Subset
    <2>5. /\ Cardinality(ExposedTo(M)) \in Nat /\ Cardinality(ExposedTo(L)) \in Nat
          /\ Cardinality(ExposedTo(L)) <= Limits.positions
          /\ terms.side = "BUY" => Cardinality(ExposedTo(L)) < Limits.positions
      BY ExposedFinite DEF Within, Fits
    <2>. QED  BY <1>4, <2>3, <2>4, <2>5, LimitTypes
  <1>9. IsFiniteSet(M.entries)
    <2>1. IsFiniteSet(L.entries) /\ IsFiniteSet(L.entries \union {<<d, n>>})
      BY FS_AddElement DEF Within
    <2>. QED  BY <1>3, <2>1
  <1>10. \A k \in DOMAIN M.orders :
            M.orders[k].side = "BUY" => <<Day(M.orders[k].at), k>> \in M.entries
    BY <1>3, <1>4, <1>6 DEF Within, d
  <1>11. ASSUME NEW e \in Int
         PROVE  Cardinality(EnteredOn(M, e)) <= Limits.entries
    <2>1. CASE terms.side = "BUY" /\ e = d
      <3>1. EnteredOn(M, e) = EnteredOn(L, e) \union {n}
        BY <1>3, <1>6, <2>1 DEF EnteredOn, d
      <3>2. /\ Cardinality(EnteredOn(L, e)) \in Nat /\ Cardinality(AdmittedOn(L, e)) \in Nat
            /\ Cardinality(EnteredOn(L, e)) <= Cardinality(AdmittedOn(L, e))
            /\ IsFiniteSet(EnteredOn(L, e))
        BY EnteredAdmitted
      <3>3. Cardinality(AdmittedOn(L, e)) < Limits.entries
        BY <2>1 DEF Fits, d
      <3>4. Cardinality(EnteredOn(L, e) \union {n})
              = IF n \in EnteredOn(L, e) THEN Cardinality(EnteredOn(L, e))
                ELSE Cardinality(EnteredOn(L, e)) + 1
        BY <3>2, FS_AddElement
      <3>. QED  BY <3>1, <3>2, <3>3, <3>4, LimitTypes
    <2>2. CASE ~(terms.side = "BUY" /\ e = d)
      <3>1. EnteredOn(M, e) = EnteredOn(L, e)
        BY <1>3, <1>6, <2>2 DEF EnteredOn, d
      <3>. QED  BY <3>1 DEF Within
    <2>. QED  BY <2>1, <2>2
  <1>. QED  BY <1>7, <1>8, <1>9, <1>10, <1>11 DEF Within, M

\* The account snapshot the risk rules judge is this account.
LEMMA SnapshotFits ==
    ASSUME NEW L, Sound(L), NEW t \in Nat, NEW terms, NEW q,
           risk_allows(terms, account_snapshot(L, t), q, t)
    PROVE  Fits(L, terms, t)
  <1>1. SUFFICES ASSUME terms.side = "BUY"
                 PROVE  /\ RiskOf(L.pos, L.orders) + terms.limit * terms.qty <= Limits.openRisk
                        /\ Cardinality(ExposedTo(L)) < Limits.positions
                        /\ Cardinality(AdmittedOn(L, Day(t))) < Limits.entries
    BY DEF Fits
  <1> DEFINE account == account_snapshot(L, t)
  <1>2. entry_allowed(terms, account, q)
    BY <1>1 DEF risk_allows
  <1>3. /\ account.open_risk = cost_basis(L) + reserved_buying_power(L)
        /\ account.open_positions = Cardinality({i \in Instruments : L.pos[i] # NoPosition}
                                      \cup {L.orders[k].inst : k \in Working(L, "BUY")})
        /\ account.entries_today = Cardinality({e \in L.entries : e[1] = Day(t)})
    BY DEF account_snapshot
  <1>4. RiskOf(L.pos, L.orders) = cost_basis(L) + reserved_buying_power(L)
    BY DEF RiskOf, cost_basis, reserved_buying_power, SetAside
  <1>5. {i \in Instruments : L.pos[i] # NoPosition}
          \cup {L.orders[k].inst : k \in Working(L, "BUY")} = ExposedTo(L)
    <2>1. \A i \in Instruments : L.pos[i] # NoPosition <=> L.pos[i].qty > 0
      <3>1. \A i \in Instruments : L.pos[i].qty \in Nat
        BY SoundTotals
      <3>2. PositionsSound(L.pos) /\ NoPosition.qty = 0
        BY DEF Sound, NoPosition
      <3>. QED  BY <3>1, <3>2 DEF PositionsSound
    <2>2. \A k \in DOMAIN L.orders : L.orders[k].inst \in Instruments
      BY SoundOrders DEF OrderType
    <2>. QED  BY <2>1, <2>2 DEF ExposedTo, Exposed, Working
  <1> HIDE DEF account
  <1>. QED  BY <1>2, <1>3, <1>4, <1>5 DEF entry_allowed, AdmittedOn

-----------------------------------------------------------------------------
\* The invariant of the offline runtime

OrderStates == {"OPEN", "PARTIAL", "FILLED", "CANCELED", "REJECTED", "EXPIRED"}

RowType == [st : OrderStates \union {"NONE", "SUBMITTING", "SUBMISSION_UNKNOWN"}, filled : Nat]

\* Where an operation may stand.
Standing(r) ==
    \/ r.op \in {"idle", "refused"} /\ r.pc = "idle"
    \/ r.op = "reconcile" /\ r.pc \in {"flush", "sync", "settle", "first"}
    \/ r.op = "step" /\ r.pc \in {"quote", "persist", "sync", "event", "exits", "end"}
    \/ r.op = "dispatch" /\ r.pc \in {"review", "intent", "command", "pending", "gate", "deny",
                                      "denied", "persist", "reply", "end"}
    \/ r.op = "review" /\ r.pc \in {"outcomes", "end"}

Process(m) ==
    /\ m = [ledger |-> m.ledger, cursor |-> m.cursor, clock |-> m.clock,
            consumed |-> m.consumed, dirty |-> m.dirty, ckptOk |-> m.ckptOk,
            jh |-> m.jh, needs |-> m.needs, init |-> m.init, latch |-> m.latch]
    /\ m.dirty \in BOOLEAN /\ m.ckptOk \in BOOLEAN /\ m.needs \in BOOLEAN

TypeInv(d, m, r) ==
    /\ d = [proposals |-> d.proposals, evidence |-> d.evidence, row |-> d.row,
            denied |-> d.denied, fills |-> d.fills, outcomes |-> d.outcomes, snap |-> d.snap]
    /\ d.proposals = [p \in Keys |-> d.proposals[p]]
    /\ d.evidence \in [Keys -> {"none", "intent", "command"}]
    /\ d.row \in [Keys -> RowType]
    /\ Process(m)
    /\ r = [op |-> r.op, pc |-> r.pc, p |-> r.p, i |-> r.i]
    /\ Standing(r)

\* The snapshot is a past of the process.
BooksInv(s, m) ==
    /\ ReplayLedger(m.ledger, m.clock) /\ ReplayLedger(s.ledger, s.at)
    /\ Within(m.ledger) /\ Within(s.ledger)
    /\ Grows(s.ledger, m.ledger)
    /\ m.cursor \in 0..Len(Fixture) /\ s.cursor \in 0..Len(Fixture)

\* The journal is a past of the snapshot.
BehindInv(d) ==
    /\ d.fills \in Seq(FillType)
    /\ Len(d.fills) <= Len(d.snap.ledger.fills)
    /\ \A j \in DOMAIN d.fills : d.fills[j] = d.snap.ledger.fills[j]
    /\ \A p \in Keys : d.row[p].st \in {"OPEN", "PARTIAL", "FILLED"} =>
          /\ d.snap.ledger.keys[p] # 0
          /\ d.row[p].filled <= d.snap.ledger.orders[d.snap.ledger.keys[p]].filled

ProposalsInv(d) == \A p \in Keys : d.proposals[p] = NoTerms \/ TermsType(d.proposals[p])

\* An append of the ledger is under way.
Saving(r) == r.op \in {"step", "dispatch"} /\ r.pc = "persist"

\* Whenever the flags say so, and no append is under way, the snapshot is the process.
ControlInv(d, m, r) ==
    /\ m.ckptOk /\ ~m.dirty /\ ~Saving(r) => d.snap.ledger = m.ledger /\ d.snap.cursor = m.cursor
    /\ ~m.needs => m.ckptOk /\ ~m.dirty
    /\ r.op = "reconcile" => m.needs
    /\ r.op = "reconcile" /\ r.pc \in {"sync", "settle", "first"} => m.ckptOk /\ ~m.dirty
    /\ r.op \in {"step", "dispatch", "review"} => ~m.needs
    /\ r.op = "dispatch" => r.p \in Keys /\ d.proposals[r.p] # NoTerms
    /\ r.op = "dispatch" /\ r.pc \in {"persist", "reply"} => m.ledger.keys[r.p] # 0
    /\ r.op = "step" => r.i \in Nat \ {0}
    /\ r.op = "step" /\ r.pc \in {"quote", "persist", "sync", "event"} => m.cursor < Len(Fixture)
    /\ r.op = "step" /\ r.pc \in {"persist", "sync", "event"} =>
          r.i <= Len(Fixture[m.cursor + 1].quotes)

\* A proposal on its way to the broker has the room it was judged to have.
AdmissionInv(d, m, r) ==
    r.op = "dispatch" =>
        /\ r.pc \in {"review", "intent", "command", "pending", "gate"} =>
              Fits(m.ledger, d.proposals[r.p], m.clock)
        /\ r.pc \in {"intent", "command", "pending", "gate"} =>
              ~rejects(m.ledger, d.proposals[r.p], m.clock)

DeniedRow(d, p) == d.row[p] = [st |-> "REJECTED", filled |-> 0] /\ p \in d.denied

\* The journal tells everything the ledger knows, of the keys in K.
RowsWhole(d, L, K) ==
    \A p \in K :
        /\ L.keys[p] # 0 => d.evidence[p] = "command" /\ d.row[p] = Published(L, p)
        /\ L.keys[p] = 0 => d.row[p] = NoRow \/ DeniedRow(d, p)

Resolved(d, K) ==
    \A p \in K : d.evidence[p] # "none" =>
        d.evidence[p] # "intent" /\ d.row[p].st \notin Unsettled \union {"NONE"}

Whole(d, L, K) == d.fills = L.fills /\ RowsWhole(d, L, K) /\ Resolved(d, K)

\* Outside the awaits that are about to write to it.
Quiet(r) ==
    \/ r.op \in {"idle", "review"}
    \/ r.op = "step" /\ r.pc \notin {"persist", "sync"}
    \/ r.op = "dispatch" /\ r.pc \in {"review", "intent", "end"}

\* What is known of the proposal on its way through the execution service.
Underway(d, m, r) ==
    /\ r.pc \in {"review", "intent"} => d.evidence[r.p] = "none"
    /\ r.pc \in {"pending", "gate", "deny", "denied", "persist", "reply"} =>
          d.evidence[r.p] = "command"
    /\ r.pc \in {"command", "pending", "gate", "deny", "denied"} => m.ledger.keys[r.p] = 0
    /\ r.pc \in {"gate", "deny"} => d.row[r.p] = [st |-> "SUBMITTING", filled |-> 0]
    /\ r.pc = "denied" => d.row[r.p] = [st |-> "REJECTED", filled |-> 0]

JournalInv(d, m, r) ==
    /\ ~m.needs =>
         /\ Quiet(r) => Whole(d, m.ledger, Keys)
         /\ r.op = "step" => Resolved(d, Keys)
         /\ r.op = "dispatch" => Whole(d, m.ledger, Keys \ {r.p}) /\ Underway(d, m, r)
    /\ r.op = "reconcile" /\ r.pc \in {"settle", "first"} =>
         /\ d.fills = m.ledger.fills /\ RowsWhole(d, m.ledger, Keys)
         /\ r.pc = "first" => Resolved(d, Keys)

Inv(d, m, r) ==
    /\ TypeInv(d, m, r) /\ BooksInv(d.snap, m) /\ BehindInv(d) /\ ProposalsInv(d)
    /\ ControlInv(d, m, r) /\ AdmissionInv(d, m, r) /\ JournalInv(d, m, r)

RuntimeInvariant == Inv(db, mem, run)

\* The row the journal publishes of an order.
LEMMA PublishedType ==
    ASSUME NEW L, NEW t, ReplayLedger(L, t), NEW p \in Keys, L.keys[p] # 0
    PROVE  /\ Published(L, p).st \in OrderStates /\ Published(L, p).filled \in Nat
           /\ Published(L, p) \in RowType
           /\ Published(L, p).filled = L.orders[L.keys[p]].filled
           /\ L.orders[L.keys[p]].filled \in Nat
  <1>1. L.orders[L.keys[p]] \in OrderType
    BY SoundOrders DEF ReplayLedger, KeysSound
  <1>. QED  BY <1>1 DEF OrderType, Published, OrderStates, RowType

\* The snapshot moves forward: to a ledger that has grown from it.
LEMMA BehindAdvances ==
    ASSUME NEW d, NEW e, BehindInv(d), d.row \in [Keys -> RowType],
           e.fills = d.fills, e.row = d.row,
           NEW t, NEW u, ReplayLedger(d.snap.ledger, t), ReplayLedger(e.snap.ledger, u),
           Grows(d.snap.ledger, e.snap.ledger)
    PROVE  BehindInv(e)
  <1> DEFINE L == d.snap.ledger
             M == e.snap.ledger
  <1>1. Sound(L) /\ Sound(M) /\ KeysSound(L)
    BY DEF ReplayLedger
  <1>2. /\ d.fills \in Seq(FillType) /\ Len(d.fills) <= Len(L.fills)
        /\ \A j \in DOMAIN d.fills : d.fills[j] = L.fills[j]
        /\ \A p \in Keys : d.row[p].st \in {"OPEN", "PARTIAL", "FILLED"} =>
              /\ L.keys[p] # 0 /\ d.row[p].filled <= L.orders[L.keys[p]].filled
    BY DEF BehindInv
  <1>3. L.fills \in Seq(FillType) /\ M.fills \in Seq(FillType)
    BY <1>1 DEF Sound, LedgerType
  <1>4. Grows(L, M)
    OBVIOUS
  <1>5. ReplayLedger(L, t) /\ ReplayLedger(M, u)
    OBVIOUS
  <1> HIDE DEF L, M
  <1>6. Len(d.fills) <= Len(M.fills) /\ \A j \in DOMAIN d.fills : d.fills[j] = M.fills[j]
    <2>1. /\ Len(d.fills) \in Nat /\ Len(L.fills) \in Nat /\ Len(M.fills) \in Nat
          /\ DOMAIN d.fills = 1..Len(d.fills) /\ DOMAIN L.fills = 1..Len(L.fills)
      BY <1>2, <1>3
    <2>2. \A j \in DOMAIN d.fills : j \in DOMAIN L.fills
      BY <1>2, <2>1
    <2>. QED  BY <1>2, <1>4, <2>1, <2>2 DEF Grows
  <1>7. ASSUME NEW p \in Keys, d.row[p].st \in {"OPEN", "PARTIAL", "FILLED"}
        PROVE  M.keys[p] # 0 /\ d.row[p].filled <= M.orders[M.keys[p]].filled
    <2>1. L.keys[p] # 0 /\ d.row[p].filled <= L.orders[L.keys[p]].filled
      BY <1>2, <1>7
    <2>2. M.keys[p] = L.keys[p]
      BY <1>4, <2>1 DEF Grows
    <2>3. L.orders[L.keys[p]].filled \in Nat /\ M.orders[M.keys[p]].filled \in Nat
      BY <1>5, <2>1, <2>2, PublishedType
    <2>4. L.keys[p] \in DOMAIN L.orders
      BY <1>1, <2>1 DEF KeysSound
    <2>5. M.orders[M.keys[p]].filled >= L.orders[L.keys[p]].filled
      BY <1>4, <2>2, <2>4 DEF Grows
    <2>6. d.row[p].filled \in Nat
      BY DEF RowType
    <2>. QED  BY <2>1, <2>2, <2>3, <2>5, <2>6
  <1>. QED  BY <1>2, <1>6, <1>7 DEF BehindInv, M

\* The process becomes the snapshot.
LEMMA Saved ==
    ASSUME NEW s, NEW m, BooksInv(s, m),
           NEW z, z.ledger = m.ledger, z.at = m.clock, z.cursor \in 0..Len(Fixture),
           NEW n, n.ledger = m.ledger, n.clock = m.clock, n.cursor \in 0..Len(Fixture)
    PROVE  BooksInv(z, n)
  <1>1. Sound(m.ledger)
    BY DEF BooksInv, ReplayLedger
  <1>2. Grows(m.ledger, m.ledger)
    BY <1>1, GrowsReflexive
  <1>. QED  BY <1>2 DEF BooksInv

LEMMA BooksKept ==
    ASSUME NEW s, NEW m, BooksInv(s, m),
           NEW n, n.ledger = m.ledger, n.clock = m.clock, n.cursor = m.cursor
    PROVE  BooksInv(s, n)
  BY DEF BooksInv

LEMMA BehindKept ==
    ASSUME NEW d, NEW e, BehindInv(d), e.fills = d.fills, e.row = d.row, e.snap = d.snap
    PROVE  BehindInv(e)
  BY DEF BehindInv

LEMMA WholeKept ==
    ASSUME NEW d, NEW e, e.fills = d.fills, e.row = d.row, e.evidence = d.evidence,
           e.denied = d.denied, NEW L, NEW K
    PROVE  /\ Whole(d, L, K) => Whole(e, L, K)
           /\ RowsWhole(d, L, K) => RowsWhole(e, L, K)
           /\ Resolved(d, K) => Resolved(e, K)
  <1>1. RowsWhole(d, L, K) => RowsWhole(e, L, K)
    BY DEF RowsWhole, DeniedRow
  <1>2. Resolved(d, K) => Resolved(e, K)
    BY DEF Resolved
  <1>. QED  BY <1>1, <1>2 DEF Whole

-----------------------------------------------------------------------------
\* reconcile, and the ways an operation fails

\* The flags of a failed operation.
LEMMA FailedFields ==
    ASSUME Inv(db, mem, run), NEW n, n = Failed(mem)
    PROVE  /\ Process(n)
           /\ n.ledger = mem.ledger /\ n.cursor = mem.cursor /\ n.clock = mem.clock
           /\ n.dirty = mem.dirty /\ n.ckptOk = mem.ckptOk /\ n.latch = mem.latch
           /\ n.needs = (mem.needs \/ run.op \notin {"reconcile", "review"})
  <1>1. Process(mem)
    BY DEF Inv, TypeInv
  <1>2. CASE run.op \in {"reconcile", "review"}
    BY <1>1, <1>2 DEF Failed, Process
  <1>3. CASE run.op \notin {"reconcile", "review"}
    BY <1>1, <1>3 DEF Failed, Process
  <1>. QED  BY <1>2, <1>3

\* A step that writes nothing: the flags and the program counter move.
LEMMA FlagsOnly ==
    ASSUME NEW d, NEW m, NEW r, Inv(d, m, r),
           NEW n, NEW x,
           n.ledger = m.ledger, n.cursor = m.cursor, n.clock = m.clock,
           TypeInv(d, n, x), ControlInv(d, n, x), AdmissionInv(d, n, x), JournalInv(d, n, x)
    PROVE  Inv(d, n, x)
  <1>1. BooksInv(d.snap, n)
    BY BooksKept DEF Inv
  <1>. QED  BY <1>1 DEF Inv

LEMMA ReconcileBeginKeeps ==
    ASSUME Inv(db, mem, run), ReconcileBegin
    PROVE  Inv(db', mem', run')
  <1>1. /\ db' = db /\ run.op = "idle"
        /\ run' = [op |-> "reconcile", pc |-> IF mem.dirty \/ ~mem.ckptOk THEN "flush" ELSE "sync",
                   p |-> "none", i |-> 1]
        /\ mem' = [mem EXCEPT !.needs = TRUE, !.jh = (mem.dirty \/ ~mem.ckptOk) /\ @]
    BY DEF ReconcileBegin, Idle, Operation
  <1>2. /\ mem'.ledger = mem.ledger /\ mem'.cursor = mem.cursor /\ mem'.clock = mem.clock
        /\ mem'.dirty = mem.dirty /\ mem'.ckptOk = mem.ckptOk /\ mem'.needs = TRUE
        /\ TypeInv(db', mem', run')
    BY <1>1 DEF Inv, TypeInv, Process, Standing
  <1>3. ControlInv(db', mem', run') /\ AdmissionInv(db', mem', run') /\ JournalInv(db', mem', run')
    BY <1>1, <1>2 DEF Inv, TypeInv, Process, Standing, ControlInv, AdmissionInv, JournalInv, Saving, Quiet
  <1>. QED  BY <1>1, <1>2, <1>3, FlagsOnly

\* The journal is only ever synchronised from a ledger that is saved.
LEMMA SyncBooks ==
    ASSUME Inv(db, mem, run), run.pc = "sync"
    PROVE  db.snap.ledger = mem.ledger /\ run.op \in {"reconcile", "step"}
  BY DEF Inv, TypeInv, Process, Standing, ControlInv, Saving

\* The fills of the journal are the first fills of the ledger, so the first one that is
\* unsaved is the next one.
LEMMA UnsavedFills ==
    ASSUME Inv(db, mem, run), run.pc = "sync"
    PROVE  /\ unsaved_fills = {} => db.fills = mem.ledger.fills
           /\ unsaved_fills # {} => /\ Len(db.fills) + 1 \in DOMAIN mem.ledger.fills
                                    /\ Min(unsaved_fills) = Len(db.fills) + 1
                                    /\ Min(unsaved_fills) \in unsaved_fills
  <1> DEFINE s == db.fills
             f == mem.ledger.fills
             n == Len(s) + 1
             U == unsaved_fills
  <1>1. /\ s \in Seq(FillType) /\ Len(s) <= Len(f) /\ \A j \in DOMAIN s : s[j] = f[j]
    BY SyncBooks DEF Inv, BehindInv
  <1>2. /\ f \in Seq(FillType)
        /\ \A i, j \in DOMAIN f : f[i].order = f[j].order /\ f[i].quote = f[j].quote => i = j
    BY DEF Inv, BooksInv, ReplayLedger, Sound, LedgerType, FillsSound
  <1>3. U = {j \in DOMAIN f : f[j] \notin {s[k] : k \in DOMAIN s}}
    BY DEF unsaved_fills, ToSet
  <1> HIDE DEF s, f, U
  <1>4. /\ Len(s) \in Nat /\ Len(f) \in Nat /\ DOMAIN s = 1..Len(s) /\ DOMAIN f = 1..Len(f)
    BY <1>1, <1>2
  <1>5. \A j \in U : j \in Nat /\ n <= j /\ j <= Len(f)
    <2> SUFFICES ASSUME NEW j \in U PROVE j \in Nat /\ n <= j /\ j <= Len(f)
      OBVIOUS
    <2>1. j \in 1..Len(f) /\ j \notin DOMAIN s
      BY <1>1, <1>3, <1>4
    <2>. QED  BY <1>4, <2>1
  <1>6. n \in DOMAIN f => n \in U
    <2>1. SUFFICES ASSUME n \in DOMAIN f, NEW k \in DOMAIN s, f[n] = s[k] PROVE FALSE
      BY <1>3
    <2>2. k \in DOMAIN f /\ f[k] = f[n] /\ k # n
      BY <1>1, <1>4, <2>1
    <2>. QED  BY <1>2, <2>1, <2>2
  <1>7. U = {} => s = f
    <2>1. SUFFICES ASSUME U = {} PROVE s = f
      OBVIOUS
    <2>2. n \notin DOMAIN f
      BY <1>6, <2>1
    <2>3. Len(s) = Len(f)
      <3> DEFINE x == Len(s)
                 y == Len(f)
      <3>1. x \in Nat /\ y \in Nat /\ x <= y /\ ~(x + 1 \in 1..y)
        BY <1>1, <1>4, <2>2
      <3> HIDE DEF x, y
      <3>2. x = y
        BY <3>1
      <3>. QED  BY <3>2 DEF x, y
    <2>. QED  BY <1>1, <1>2, <1>4, <2>3
  <1>8. U # {} => n \in DOMAIN f /\ Min(U) = n /\ Min(U) \in U
    <2>1. SUFFICES ASSUME U # {} PROVE n \in DOMAIN f /\ Min(U) = n /\ Min(U) \in U
      OBVIOUS
    <2>2. n \in DOMAIN f
      BY <1>4, <1>5, <2>1
    <2>3. n \in U /\ \A j \in U : n <= j
      BY <1>5, <1>6, <2>2
    <2>4. \A x \in U : (\A j \in U : x <= j) => x = n
      BY <1>4, <1>5, <2>3
    <2>5. Min(U) = CHOOSE x \in U : \A y \in U : x <= y
      BY DEF Min
    <2>. QED  BY <2>2, <2>3, <2>4, <2>5
  <1>. QED  BY <1>7, <1>8 DEF s, f, U

\* What a synchronisation that found nothing to do has shown.
LEMMA RowsAgreed ==
    ASSUME RowsAgree, Missing = {}
    PROVE  RowsWhole(db, mem.ledger, Keys)
  <1> SUFFICES ASSUME NEW p \in Keys
               PROVE  /\ mem.ledger.keys[p] # 0 =>
                            db.evidence[p] = "command" /\ db.row[p] = Published(mem.ledger, p)
                      /\ mem.ledger.keys[p] = 0 => db.row[p] = NoRow \/ DeniedRow(db, p)
    BY DEF RowsWhole
  <1>1. p \in LedgerOrders(mem.ledger) <=> mem.ledger.keys[p] # 0
    BY DEF LedgerOrders
  <1>2. p \notin Missing
    OBVIOUS
  <1>. QED  BY <1>1, <1>2 DEF RowsAgree, Missing, DeniedRow

LEMMA SettleKeeps ==
    ASSUME Inv(db, mem, run), Settle
    PROVE  Inv(db', mem', run')
  <1> DEFINE success == invariant_discrepancies(mem.ledger) = {} /\ unresolved_intents = {}
  <1>1. /\ db' = db /\ run.op = "reconcile" /\ run.pc = "settle"
        /\ IF success /\ ~mem.init
           THEN run' = [run EXCEPT !.pc = "first"] /\ mem' = mem
           ELSE run' = IdleRun /\ mem' = [mem EXCEPT !.needs = ~success]
    BY DEF Settle, At, Goto, Finish
  <1>2. success => Resolved(db, Keys)
    BY DEF unresolved_intents, Resolved
  <1>3. /\ mem.ckptOk /\ ~mem.dirty /\ mem.needs /\ db.snap.ledger = mem.ledger
        /\ db.snap.cursor = mem.cursor
        /\ db.fills = mem.ledger.fills /\ RowsWhole(db, mem.ledger, Keys)
    BY <1>1 DEF Inv, TypeInv, Process, ControlInv, JournalInv, Saving
  <1> HIDE DEF success
  <1>4. CASE success /\ ~mem.init
    <2>1. run' = [op |-> "reconcile", pc |-> "first", p |-> run.p, i |-> run.i] /\ mem' = mem
      BY <1>1, <1>4 DEF Inv, TypeInv
    <2>2. TypeInv(db', mem', run')
      BY <1>1, <2>1 DEF Inv, TypeInv, Process, Standing
    <2>3. ControlInv(db', mem', run') /\ AdmissionInv(db', mem', run') /\ JournalInv(db', mem', run')
      BY <1>1, <1>2, <1>3, <1>4, <2>1 DEF ControlInv, AdmissionInv, JournalInv, Saving, Quiet
    <2>. QED  BY <1>1, <2>1, <2>2, <2>3, FlagsOnly
  <1>5. CASE ~(success /\ ~mem.init)
    <2>1. run' = IdleRun /\ mem' = [mem EXCEPT !.needs = ~success]
      BY <1>1, <1>5
    <2>2. /\ mem'.ledger = mem.ledger /\ mem'.cursor = mem.cursor /\ mem'.clock = mem.clock
          /\ mem'.dirty = mem.dirty /\ mem'.ckptOk = mem.ckptOk /\ mem'.needs = ~success
          /\ TypeInv(db', mem', run')
      BY <1>1, <2>1 DEF Inv, TypeInv, Process, Standing, IdleRun
    <2>3. ControlInv(db', mem', run') /\ AdmissionInv(db', mem', run') /\ JournalInv(db', mem', run')
      BY <1>1, <1>2, <1>3, <2>1, <2>2
         DEF ControlInv, AdmissionInv, JournalInv, Saving, Quiet, Whole, IdleRun
    <2>. QED  BY <1>1, <2>2, <2>3, FlagsOnly
  <1>. QED  BY <1>4, <1>5

LEMMA SyncDoneKeeps ==
    ASSUME Inv(db, mem, run), SyncDone
    PROVE  Inv(db', mem', run')
  <1>1. /\ db' = db /\ run.pc = "sync" /\ RowsAgree /\ Missing = {} /\ unsaved_fills = {}
        /\ run' = [run EXCEPT !.pc = IF run.op = "reconcile" THEN "settle" ELSE "event"]
        /\ \E c : mem' = [mem EXCEPT !.jh = TRUE, !.consumed = c]
    <2>1. mem = [mem EXCEPT !.consumed = mem.consumed]
      BY DEF Inv, TypeInv, Process
    <2>2. CASE run.op = "reconcile"
      <3>1. mem' = [mem EXCEPT !.jh = TRUE]
        BY <2>2 DEF SyncDone
      <3>2. mem' = [mem EXCEPT !.jh = TRUE, !.consumed = mem.consumed]
        BY <3>1 DEF Inv, TypeInv, Process
      <3>. QED  BY <2>2, <3>2 DEF SyncDone, Goto
    <2>3. CASE run.op # "reconcile"
      BY <2>3 DEF SyncDone, Goto
    <2>. QED  BY <2>2, <2>3
  <1>2. PICK c : mem' = [mem EXCEPT !.jh = TRUE, !.consumed = c]
    BY <1>1
  <1>3. /\ db.snap.ledger = mem.ledger /\ run.op \in {"reconcile", "step"}
        /\ db.fills = mem.ledger.fills /\ RowsWhole(db, mem.ledger, Keys)
    BY <1>1, SyncBooks, UnsavedFills, RowsAgreed
  <1>4. /\ mem'.ledger = mem.ledger /\ mem'.cursor = mem.cursor /\ mem'.clock = mem.clock
        /\ mem'.dirty = mem.dirty /\ mem'.ckptOk = mem.ckptOk /\ mem'.needs = mem.needs
        /\ run'.op = run.op /\ run'.p = run.p /\ run'.i = run.i
        /\ run'.pc = IF run.op = "reconcile" THEN "settle" ELSE "event"
        /\ TypeInv(db', mem', run')
    BY <1>1, <1>2, <1>3 DEF Inv, TypeInv, Process, Standing
  <1>5. ControlInv(db', mem', run') /\ AdmissionInv(db', mem', run')
    BY <1>1, <1>3, <1>4 DEF Inv, ControlInv, AdmissionInv, Saving
  <1>6. JournalInv(db', mem', run')
    BY <1>1, <1>3, <1>4 DEF Inv, ControlInv, JournalInv, Quiet, Whole
  <1>. QED  BY <1>1, <1>4, <1>5, <1>6, FlagsOnly

\* An operation ends with the flags of a failure, or without any.
LEMMA OperationFails ==
    ASSUME Inv(db, mem, run), run.op \in {"reconcile", "step", "dispatch", "review"},
           ~Saving(run), db' = db, mem' = Failed(mem), run' = IdleRun
    PROVE  Inv(db', mem', run')
  <1>1. /\ mem'.ledger = mem.ledger /\ mem'.cursor = mem.cursor /\ mem'.clock = mem.clock
        /\ mem'.dirty = mem.dirty /\ mem'.ckptOk = mem.ckptOk
        /\ mem'.needs = (mem.needs \/ run.op \notin {"reconcile", "review"})
        /\ TypeInv(db', mem', run')
    BY FailedFields DEF Inv, TypeInv, Process, Standing, IdleRun
  <1>2. ControlInv(db', mem', run') /\ AdmissionInv(db', mem', run') /\ JournalInv(db', mem', run')
    BY <1>1 DEF Inv, ControlInv, AdmissionInv, JournalInv, Saving, Quiet, IdleRun
  <1>. QED  BY <1>1, <1>2, FlagsOnly

LEMMA SyncRefusedKeeps ==
    ASSUME Inv(db, mem, run), SyncRefused
    PROVE  Inv(db', mem', run')
  <1>1. db' = db /\ mem' = Failed(mem) /\ run' = IdleRun /\ run.pc = "sync"
    BY DEF SyncRefused, Finish
  <1>. QED  BY <1>1, SyncBooks, OperationFails DEF Saving

-----------------------------------------------------------------------------
\* step

\* The next group of the replay.
LEMMA GroupFacts ==
    ASSUME NEW c \in 0..Len(Fixture), c < Len(Fixture)
    PROVE  /\ Fixture[c + 1].at \in Nat
           /\ \A i \in Nat \ {0} : i <= Len(Fixture[c + 1].quotes) => Fixture[c + 1].quotes[i] \in Replay
  <1>1. Fixture \in Seq([at : Nat, quotes : Seq(Quotes)])
    BY RuntimeAssumption
  <1>2. c + 1 \in DOMAIN Fixture
    BY <1>1
  <1>3. Fixture[c + 1] \in [at : Nat, quotes : Seq(Quotes)]
    <2> DEFINE G == [at : Nat, quotes : Seq(Quotes)]
               k == c + 1
    <2>1. Fixture \in Seq(G) /\ k \in DOMAIN Fixture
      BY <1>1, <1>2
    <2> HIDE DEF G, k
    <2>2. Fixture[k] \in G
      BY <2>1
    <2>. QED  BY <2>2 DEF G, k
  <1>4. Fixture[c + 1].at \in Nat /\ Fixture[c + 1].quotes \in Seq(Quotes)
    BY <1>3
  <1>5. ASSUME NEW i \in Nat \ {0}, i <= Len(Fixture[c + 1].quotes)
        PROVE  Fixture[c + 1].quotes[i] \in Replay
    <2>1. i \in DOMAIN Fixture[c + 1].quotes
      BY <1>4, <1>5
    <2>. QED  BY <1>2, <2>1 DEF Replay, QuotesOf
  <1>. QED  BY <1>4, <1>5

LEMMA StepBeginKeeps ==
    ASSUME Inv(db, mem, run), StepBegin
    PROVE  Inv(db', mem', run')
  <1>1. /\ db' = db /\ run.op = "idle" /\ ~mem.needs /\ mem.cursor # Len(Fixture)
        /\ mem.clock <= Fixture[mem.cursor + 1].at
        /\ mem' = [mem EXCEPT !.clock = Fixture[mem.cursor + 1].at]
        /\ run' = [op |-> "step", pc |-> "quote", p |-> "none", i |-> 1]
    BY DEF StepBegin, Idle, Operation, Complete, Group
  <1>2. /\ mem'.ledger = mem.ledger /\ mem'.cursor = mem.cursor
        /\ mem'.clock = Fixture[mem.cursor + 1].at
        /\ mem'.dirty = mem.dirty /\ mem'.ckptOk = mem.ckptOk /\ mem'.needs = mem.needs
        /\ TypeInv(db', mem', run')
    BY <1>1 DEF Inv, TypeInv, Process, Standing
  <1>3. mem.cursor \in 0..Len(Fixture) /\ mem.cursor < Len(Fixture) /\ Len(Fixture) \in Nat
    <2>1. mem.cursor \in 0..Len(Fixture) /\ Len(Fixture) \in Nat
      BY RuntimeAssumption DEF Inv, BooksInv
    <2>. QED  BY <1>1, <2>1
  <1>4. BooksInv(db'.snap, mem')
    <2>1. ReplayLedger(mem.ledger, mem.clock) /\ Fixture[mem.cursor + 1].at \in Nat
      BY <1>3, GroupFacts DEF Inv, BooksInv
    <2>2. ReplayLedger(mem'.ledger, mem'.clock)
      BY <1>1, <1>2, <2>1, SeenLater
    <2>. QED  BY <1>1, <1>2, <2>2 DEF Inv, BooksInv
  <1>5. ControlInv(db', mem', run') /\ AdmissionInv(db', mem', run') /\ JournalInv(db', mem', run')
    BY <1>1, <1>2, <1>3 DEF Inv, ControlInv, AdmissionInv, JournalInv, Saving, Quiet, Whole
  <1>. QED  BY <1>1, <1>2, <1>4, <1>5 DEF Inv

LEMMA SkipQuoteKeeps ==
    ASSUME Inv(db, mem, run), SkipQuote
    PROVE  Inv(db', mem', run')
  <1>1. /\ db' = db /\ mem' = mem /\ run.op = "step" /\ run.pc = "quote"
        /\ run.i <= Len(Fixture[mem.cursor + 1].quotes) /\ run' = [run EXCEPT !.pc = "event"]
    BY DEF SkipQuote, At, Goto, MoreQuotes, Group
  <1>2. /\ run'.op = "step" /\ run'.pc = "event" /\ run'.i = run.i /\ TypeInv(db', mem', run')
    BY <1>1 DEF Inv, TypeInv, Process, Standing
  <1>3. ControlInv(db', mem', run') /\ AdmissionInv(db', mem', run') /\ JournalInv(db', mem', run')
    BY <1>1, <1>2 DEF Inv, ControlInv, AdmissionInv, JournalInv, Saving, Quiet
  <1>. QED  BY <1>1, <1>2, <1>3, FlagsOnly

LEMMA ConsumeQuoteKeeps ==
    ASSUME Inv(db, mem, run), ConsumeQuote
    PROVE  Inv(db', mem', run')
  <1>1. /\ db' = db /\ run.op = "step" /\ run.pc = "quote"
        /\ run.i <= Len(Fixture[mem.cursor + 1].quotes)
    BY DEF ConsumeQuote, At, MoreQuotes, Group
  <1>2. CASE quote_refused
    <2>1. mem' = Failed(mem) /\ run' = IdleRun
      BY <1>2 DEF ConsumeQuote, Finish
    <2>. QED  BY <1>1, <2>1, OperationFails DEF Saving
  <1>3. CASE ~quote_refused
    <2> DEFINE q == NextQuote
               M == observe_quote(mem.ledger, q, mem.clock, {})
    <2>1. /\ mem' = [mem EXCEPT !.ledger = M] /\ run' = [run EXCEPT !.pc = "persist"]
          /\ ~observe_raises(mem.ledger, q, mem.clock)
      BY <1>3 DEF ConsumeQuote, Goto, quote_refused
    <2>2. q \in Replay
      <3>1. /\ mem.cursor \in 0..Len(Fixture) /\ mem.cursor < Len(Fixture) /\ run.i \in Nat \ {0}
        BY <1>1 DEF Inv, BooksInv, ControlInv
      <3>. QED  BY <1>1, <3>1, GroupFacts DEF NextQuote, Group
    <2> HIDE DEF q
    <2>3. ReplayLedger(mem.ledger, mem.clock) /\ Within(mem.ledger) /\ Sound(mem.ledger)
          /\ mem.clock \in Nat
      BY DEF Inv, BooksInv, ReplayLedger
    <2>4. ReplayLedger(M, mem.clock) /\ Grows(mem.ledger, M)
      BY <2>1, <2>2, <2>3, ObserveReplay
    <2>5. Within(M)
      BY <2>2, <2>3, ReplayFeed, ObserveWithin
    <2> HIDE DEF M
    <2>6. /\ mem'.ledger = M /\ mem'.cursor = mem.cursor /\ mem'.clock = mem.clock
          /\ mem'.dirty = mem.dirty /\ mem'.ckptOk = mem.ckptOk /\ mem'.needs = mem.needs
          /\ run'.op = "step" /\ run'.pc = "persist" /\ run'.i = run.i
          /\ TypeInv(db', mem', run')
      BY <1>1, <2>1 DEF Inv, TypeInv, Process, Standing
    <2>7. BooksInv(db'.snap, mem')
      <3>1. Sound(db.snap.ledger) /\ Sound(M) /\ Grows(db.snap.ledger, mem.ledger)
        BY <2>4 DEF Inv, BooksInv, ReplayLedger
      <3>2. Grows(db.snap.ledger, M)
        BY <2>3, <2>4, <3>1, GrowsTransitive
      <3>. QED  BY <1>1, <2>4, <2>5, <2>6, <3>2 DEF Inv, BooksInv
    <2>8. ControlInv(db', mem', run') /\ AdmissionInv(db', mem', run') /\ JournalInv(db', mem', run')
      BY <1>1, <2>6 DEF Inv, ControlInv, AdmissionInv, JournalInv, Saving, Quiet
    <2>. QED  BY <1>1, <2>6, <2>7, <2>8 DEF Inv
  <1>. QED  BY <1>2, <1>3

LEMMA EventHandledKeeps ==
    ASSUME Inv(db, mem, run), EventHandled
    PROVE  Inv(db', mem', run')
  <1> DEFINE q == NextQuote
             f == [p \in Keys |->
                     IF /\ db.proposals[p] = NoTerms
                        /\ \E e \in DOMAIN Candidates : p = entry(e) /\ Candidates[e] = q.id
                     THEN entry_terms(q, mem.clock) ELSE db.proposals[p]]
  <1>1. /\ mem' = mem /\ run.op = "step" /\ run.pc = "event"
        /\ db' = [db EXCEPT !.proposals = f] /\ run' = [run EXCEPT !.pc = "quote", !.i = @ + 1]
    BY DEF EventHandled, At
  <1>2. q \in Replay /\ run.i \in Nat \ {0} /\ mem.cursor < Len(Fixture)
    <2>1. /\ mem.cursor \in 0..Len(Fixture) /\ mem.cursor < Len(Fixture) /\ run.i \in Nat \ {0}
          /\ run.i <= Len(Fixture[mem.cursor + 1].quotes)
      BY <1>1 DEF Inv, BooksInv, ControlInv
    <2>. QED  BY <2>1, GroupFacts DEF NextQuote, Group
  <1> HIDE DEF q
  <1>3. TermsType(entry_terms(q, mem.clock))
    BY <1>2, ReplayFeed DEF entry_terms, TermsType, Sides
  <1>4. \A p \in Keys : f[p] = NoTerms \/ TermsType(f[p])
    <2>1. \A p \in Keys : f[p] = entry_terms(q, mem.clock) \/ f[p] = db.proposals[p]
      OBVIOUS
    <2> HIDE DEF f
    <2>. QED  BY <1>3, <2>1 DEF Inv, ProposalsInv
  <1>5. f = [p \in Keys |-> f[p]]
    OBVIOUS
  <1> HIDE DEF f
  <1>6. /\ db'.proposals = f /\ db'.evidence = db.evidence /\ db'.row = db.row
        /\ db'.denied = db.denied /\ db'.fills = db.fills /\ db'.snap = db.snap
        /\ run'.op = "step" /\ run'.pc = "quote" /\ run'.i = run.i + 1
        /\ TypeInv(db', mem', run')
    BY <1>1, <1>5 DEF Inv, TypeInv, Process, Standing
  <1>7. BooksInv(db'.snap, mem') /\ BehindInv(db') /\ ProposalsInv(db')
    BY <1>1, <1>4, <1>6, BehindKept DEF Inv, ProposalsInv
  <1>8. ControlInv(db', mem', run') /\ AdmissionInv(db', mem', run')
    BY <1>1, <1>2, <1>6 DEF Inv, ControlInv, AdmissionInv, Saving
  <1>9. JournalInv(db', mem', run')
    BY <1>1, <1>6, WholeKept DEF Inv, JournalInv, Quiet
  <1>. QED  BY <1>6, <1>7, <1>8, <1>9 DEF Inv

LEMMA ExitReusedKeeps ==
    ASSUME Inv(db, mem, run), ExitReused
    PROVE  Inv(db', mem', run')
  <1>1. db' = db /\ mem' = Failed(mem) /\ run' = IdleRun /\ run.op = "step" /\ run.pc = "exits"
    BY DEF ExitReused, Finish, At
  <1>. QED  BY <1>1, OperationFails DEF Saving

LEMMA ExitsDoneKeeps ==
    ASSUME Inv(db, mem, run), ExitsDone
    PROVE  Inv(db', mem', run')
  <1>1. /\ db' = db /\ mem' = mem /\ run.op = "step" /\ run.pc = "exits"
        /\ run' = [run EXCEPT !.pc = "end"]
    BY DEF ExitsDone, Goto, At
  <1>2. /\ run'.op = "step" /\ run'.pc = "end" /\ run'.i = run.i /\ TypeInv(db', mem', run')
    BY <1>1 DEF Inv, TypeInv, Process, Standing
  <1>3. ControlInv(db', mem', run') /\ AdmissionInv(db', mem', run') /\ JournalInv(db', mem', run')
    BY <1>1, <1>2 DEF Inv, ControlInv, AdmissionInv, JournalInv, Saving, Quiet
  <1>. QED  BY <1>1, <1>2, <1>3, FlagsOnly

LEMMA ProposeExitKeeps ==
    ASSUME Inv(db, mem, run), NEW i \in Instruments, ProposeExit(i)
    PROVE  Inv(db', mem', run')
  <1> DEFINE q == MarketQuote(i)
             x == exit(q)
             terms == exit_terms(i)
             f == [db.proposals EXCEPT ![x] = terms]
             L == mem.ledger
  <1>1. /\ mem' = mem /\ run' = run /\ run.op = "step" /\ run.pc = "exits"
        /\ db' = [db EXCEPT !.proposals[x] = terms] /\ L.pos[i] # NoPosition
    BY DEF ProposeExit, At, ExitsDue
  <1>2. q \in Replay /\ L.pos[i].qty \in Nat \ {0}
    <2>1. /\ Sound(L) /\ mem.clock \in Nat /\ SeenBy(L, mem.clock) /\ FillsSound(L, Replay)
      BY DEF Inv, BooksInv, ReplayLedger
    <2>2. L.pos[i].qty \in Nat \ {0}
      <3>1. L.pos[i].qty \in Nat
        BY <2>1, SoundTotals
      <3>2. PositionsSound(L.pos)
        BY <2>1 DEF Sound
      <3>. QED  BY <1>1, <3>1, <3>2 DEF PositionsSound
    <2>3. L.quotes[i] # NoQuote
      BY <2>1, <2>2 DEF SeenBy
    <2>4. L.quotes[i] \in visible_quotes(i, mem.clock)
      BY <2>1, <2>3 DEF SeenBy, FillsSound, visible_quotes, Replay
    <2>5. q \in visible_quotes(i, mem.clock)
      BY <2>1, <2>4, LatestQuote DEF MarketQuote
    <2>. QED  BY <2>2, <2>5 DEF visible_quotes, Replay
  <1>3. TermsType(terms)
    <2>1. q.bid \in Nat
      BY <1>2, ReplayFeed
    <2> HIDE DEF q
    <2>. QED  BY <1>2, <2>1 DEF exit_terms, TermsType, Sides, q
  <1>4. x \in Keys
    BY <1>2, ReplayFeed
  <1> HIDE DEF q, x, terms
  <1>5. /\ f = [p \in Keys |-> f[p]]
        /\ \A p \in Keys : f[p] = terms \/ f[p] = db.proposals[p]
    <2>1. db.proposals = [p \in Keys |-> db.proposals[p]]
      BY DEF Inv, TypeInv
    <2>. QED  BY <1>4, <2>1
  <1>6. db' = [db EXCEPT !.proposals = f]
    BY <1>1
  <1> HIDE DEF f
  <1>7. \A p \in Keys : f[p] = NoTerms \/ TermsType(f[p])
    BY <1>3, <1>5 DEF Inv, ProposalsInv
  <1>8. /\ db'.proposals = f /\ db'.evidence = db.evidence /\ db'.row = db.row
        /\ db'.denied = db.denied /\ db'.fills = db.fills /\ db'.snap = db.snap
        /\ TypeInv(db', mem', run')
    BY <1>1, <1>5, <1>6 DEF Inv, TypeInv
  <1>9. BooksInv(db'.snap, mem') /\ BehindInv(db') /\ ProposalsInv(db')
    BY <1>1, <1>7, <1>8, BehindKept DEF Inv, ProposalsInv
  <1>10. ControlInv(db', mem', run') /\ AdmissionInv(db', mem', run')
    BY <1>1, <1>8 DEF Inv, ControlInv, AdmissionInv, Saving
  <1>11. JournalInv(db', mem', run')
    BY <1>1, <1>8, WholeKept DEF Inv, JournalInv, Quiet
  <1>. QED  BY <1>8, <1>9, <1>10, <1>11 DEF Inv

-----------------------------------------------------------------------------
\* What a committed append leaves

\* _persist commits: the snapshot is the process, and the journal is behind it.
LEMMA PersistKeeps ==
    ASSUME Inv(db, mem, run), NEW m, NEW c \in 0..Len(Fixture), Persist(m, c),
           Process(m), m.ledger = mem.ledger, m.cursor = c, m.clock = mem.clock, m.dirty = FALSE,
           run' = [op |-> run'.op, pc |-> run'.pc, p |-> run'.p, i |-> run'.i], Standing(run')
    PROVE  /\ TypeInv(db', mem', run')
           /\ BooksInv(db'.snap, mem') /\ BehindInv(db') /\ ProposalsInv(db')
           /\ mem'.ledger = mem.ledger /\ mem'.clock = mem.clock /\ mem'.cursor = c
           /\ ~mem'.dirty /\ mem'.ckptOk /\ mem'.needs = m.needs
           /\ db'.snap.ledger = mem'.ledger /\ db'.snap.cursor = mem'.cursor
           /\ db'.proposals = db.proposals /\ db'.evidence = db.evidence /\ db'.row = db.row
           /\ db'.denied = db.denied /\ db'.fills = db.fills
  <1> DEFINE z == [ledger |-> mem.ledger, cursor |-> c, at |-> mem.clock]
  <1>1. db' = [db EXCEPT !.snap = z] /\ mem' = [m EXCEPT !.ckptOk = TRUE]
    BY DEF Persist, SnapshotAt
  <1>2. z.ledger = mem.ledger /\ z.cursor = c /\ z.at = mem.clock
    OBVIOUS
  <1> HIDE DEF z
  <1>3. /\ db'.proposals = db.proposals /\ db'.evidence = db.evidence /\ db'.row = db.row
        /\ db'.denied = db.denied /\ db'.fills = db.fills /\ db'.outcomes = db.outcomes
        /\ db'.snap = z
        /\ db' = [proposals |-> db.proposals, evidence |-> db.evidence, row |-> db.row,
                  denied |-> db.denied, fills |-> db.fills, outcomes |-> db.outcomes,
                  snap |-> z]
    BY <1>1 DEF Inv, TypeInv
  <1>4. /\ mem'.ledger = mem.ledger /\ mem'.clock = mem.clock /\ mem'.cursor = c
        /\ mem'.dirty = FALSE /\ mem'.ckptOk = TRUE /\ mem'.needs = m.needs
        /\ Process(mem')
    BY <1>1 DEF Process
  <1>5. TypeInv(db', mem', run')
    BY <1>3, <1>4 DEF Inv, TypeInv
  <1>6. BooksInv(db'.snap, mem')
    BY <1>2, <1>3, <1>4, Saved DEF Inv
  <1>7. BehindInv(db')
    <2>1. /\ ReplayLedger(db.snap.ledger, db.snap.at) /\ ReplayLedger(mem.ledger, mem.clock)
          /\ Grows(db.snap.ledger, mem.ledger) /\ BehindInv(db) /\ db.row \in [Keys -> RowType]
      BY DEF Inv, BooksInv, TypeInv
    <2>2. db'.snap.ledger = mem.ledger
      BY <1>2, <1>3
    <2>. QED  BY <1>3, <2>1, <2>2, BehindAdvances
  <1>8. ProposalsInv(db')
    BY <1>3 DEF Inv, ProposalsInv
  <1>. QED  BY <1>2, <1>3, <1>4, <1>5, <1>6, <1>7, <1>8

LEMMA FlagCleared ==
    ASSUME NEW m, Process(m), NEW f \in {"jh", "dirty"}, NEW n, n = [m EXCEPT ![f] = FALSE]
    PROVE  /\ Process(n) /\ n.ledger = m.ledger /\ n.cursor = m.cursor /\ n.clock = m.clock
           /\ n.needs = m.needs /\ n[f] = FALSE
  BY DEF Process

\* The rest of the invariant after a persist.
LEMMA PersistLedgerKeeps ==
    ASSUME Inv(db, mem, run), NEW m, PersistLedger(m), m \in {mem, [mem EXCEPT !.jh = FALSE]},
           run' = [op |-> run'.op, pc |-> run'.pc, p |-> run'.p, i |-> run'.i], Standing(run')
    PROVE  /\ TypeInv(db', mem', run')
           /\ BooksInv(db'.snap, mem') /\ BehindInv(db') /\ ProposalsInv(db')
           /\ mem'.ledger = mem.ledger /\ mem'.clock = mem.clock /\ mem'.cursor = mem.cursor
           /\ ~mem'.dirty /\ mem'.ckptOk /\ mem'.needs = mem.needs
           /\ db'.snap.ledger = mem'.ledger /\ db'.snap.cursor = mem'.cursor
           /\ db'.proposals = db.proposals /\ db'.evidence = db.evidence /\ db'.row = db.row
           /\ db'.denied = db.denied /\ db'.fills = db.fills
  <1>1. Process(mem) /\ mem.cursor \in 0..Len(Fixture)
    BY DEF Inv, TypeInv, BooksInv
  <1>2. /\ Process(m) /\ m.ledger = mem.ledger /\ m.cursor = mem.cursor
        /\ m.clock = mem.clock /\ m.needs = mem.needs
    BY <1>1, FlagCleared
  <1> DEFINE n == [m EXCEPT !.dirty = FALSE]
  <1>3. Persist(n, mem.cursor) /\ n = [m EXCEPT !.dirty = FALSE]
    BY <1>2 DEF PersistLedger
  <1> HIDE DEF n
  <1>4. /\ Process(n) /\ n.ledger = mem.ledger /\ n.cursor = mem.cursor /\ n.clock = mem.clock
        /\ n.dirty = FALSE /\ n.needs = mem.needs
    BY <1>2, <1>3 DEF Process
  <1>. QED  BY <1>1, <1>3, <1>4, PersistKeeps

LEMMA FlushKeeps ==
    ASSUME Inv(db, mem, run), Flush
    PROVE  Inv(db', mem', run')
  <1>1. /\ run.op = "reconcile" /\ run.pc = "flush" /\ run' = [run EXCEPT !.pc = "sync"]
        /\ PersistLedger([mem EXCEPT !.jh = FALSE])
    BY DEF Flush, At, Goto
  <1>2. /\ run'.op = "reconcile" /\ run'.pc = "sync"
        /\ run' = [op |-> run'.op, pc |-> run'.pc, p |-> run'.p, i |-> run'.i] /\ Standing(run')
    BY <1>1 DEF Inv, TypeInv, Standing
  <1>3. /\ TypeInv(db', mem', run')
        /\ BooksInv(db'.snap, mem') /\ BehindInv(db') /\ ProposalsInv(db')
        /\ ~mem'.dirty /\ mem'.ckptOk /\ mem'.needs = mem.needs
        /\ db'.snap.ledger = mem'.ledger /\ db'.snap.cursor = mem'.cursor
    BY <1>1, <1>2, PersistLedgerKeeps
  <1>4. mem.needs
    BY <1>1 DEF Inv, ControlInv
  <1>5. ControlInv(db', mem', run') /\ AdmissionInv(db', mem', run') /\ JournalInv(db', mem', run')
    BY <1>2, <1>3, <1>4 DEF ControlInv, AdmissionInv, JournalInv, Saving
  <1>. QED  BY <1>3, <1>5 DEF Inv

LEMMA FirstCheckpointKeeps ==
    ASSUME Inv(db, mem, run), FirstCheckpoint
    PROVE  Inv(db', mem', run')
  <1> DEFINE m == [mem EXCEPT !.init = TRUE, !.needs = FALSE]
  <1>1. /\ run.op = "reconcile" /\ run.pc = "first" /\ run' = IdleRun /\ Persist(m, mem.cursor)
    BY DEF FirstCheckpoint, At, Finish
  <1>2. /\ run'.op = "idle" /\ run'.pc = "idle"
        /\ run' = [op |-> run'.op, pc |-> run'.pc, p |-> run'.p, i |-> run'.i] /\ Standing(run')
    BY <1>1 DEF IdleRun, Standing
  <1>3. /\ Process(mem) /\ mem.dirty = FALSE /\ mem.cursor \in 0..Len(Fixture)
        /\ Whole(db, mem.ledger, Keys)
    BY <1>1 DEF Inv, TypeInv, Process, BooksInv, ControlInv, JournalInv, Whole
  <1>4. /\ Process(m) /\ m.ledger = mem.ledger /\ m.cursor = mem.cursor /\ m.clock = mem.clock
        /\ m.dirty = mem.dirty /\ m.needs = FALSE
    <2>1. m = [mem EXCEPT !.init = TRUE, !.needs = FALSE]
      OBVIOUS
    <2> HIDE DEF m
    <2>. QED  BY <1>3, <2>1 DEF Process
  <1> HIDE DEF m
  <1>5. /\ TypeInv(db', mem', run')
        /\ BooksInv(db'.snap, mem') /\ BehindInv(db') /\ ProposalsInv(db')
        /\ ~mem'.dirty /\ mem'.ckptOk /\ mem'.ledger = mem.ledger
        /\ db'.snap.ledger = mem'.ledger /\ db'.snap.cursor = mem'.cursor
        /\ db'.evidence = db.evidence /\ db'.row = db.row
        /\ db'.denied = db.denied /\ db'.fills = db.fills
    BY <1>1, <1>2, <1>3, <1>4, PersistKeeps
  <1>6. Whole(db', mem'.ledger, Keys)
    BY <1>3, <1>5, WholeKept
  <1>7. ControlInv(db', mem', run') /\ AdmissionInv(db', mem', run') /\ JournalInv(db', mem', run')
    BY <1>2, <1>5, <1>6 DEF ControlInv, AdmissionInv, JournalInv, Saving
  <1>. QED  BY <1>5, <1>7 DEF Inv

LEMMA QuotePersistedKeeps ==
    ASSUME Inv(db, mem, run), QuotePersisted
    PROVE  Inv(db', mem', run')
  <1>1. /\ run.op = "step" /\ run.pc = "persist" /\ run' = [run EXCEPT !.pc = "sync"]
        /\ PersistLedger([mem EXCEPT !.jh = FALSE])
    BY DEF QuotePersisted, At, Goto
  <1>2. /\ run'.op = "step" /\ run'.pc = "sync" /\ run'.i = run.i
        /\ run' = [op |-> run'.op, pc |-> run'.pc, p |-> run'.p, i |-> run'.i] /\ Standing(run')
    BY <1>1 DEF Inv, TypeInv, Standing
  <1>3. /\ TypeInv(db', mem', run')
        /\ BooksInv(db'.snap, mem') /\ BehindInv(db') /\ ProposalsInv(db')
        /\ ~mem'.dirty /\ mem'.ckptOk /\ mem'.needs = mem.needs /\ mem'.cursor = mem.cursor
        /\ db'.snap.ledger = mem'.ledger /\ db'.snap.cursor = mem'.cursor
        /\ db'.evidence = db.evidence /\ db'.row = db.row
        /\ db'.denied = db.denied /\ db'.fills = db.fills
    BY <1>1, <1>2, PersistLedgerKeeps
  <1>4. Resolved(db, Keys) => Resolved(db', Keys)
    BY <1>3, WholeKept
  <1>5. ControlInv(db', mem', run') /\ AdmissionInv(db', mem', run') /\ JournalInv(db', mem', run')
    BY <1>1, <1>2, <1>3, <1>4 DEF Inv, ControlInv, AdmissionInv, JournalInv, Saving, Quiet
  <1>. QED  BY <1>3, <1>5 DEF Inv

LEMMA CheckpointKeeps ==
    ASSUME Inv(db, mem, run), Checkpoint
    PROVE  Inv(db', mem', run')
  <1> DEFINE m == [mem EXCEPT !.cursor = @ + 1]
             c == mem.cursor + 1
  <1>1. /\ run.op = "step" /\ run.pc = "quote" /\ run' = [run EXCEPT !.pc = "exits"]
        /\ Persist(m, c)
    BY DEF Checkpoint, At, Goto
  <1>2. /\ run'.op = "step" /\ run'.pc = "exits" /\ run'.i = run.i
        /\ run' = [op |-> run'.op, pc |-> run'.pc, p |-> run'.p, i |-> run'.i] /\ Standing(run')
    BY <1>1 DEF Inv, TypeInv, Standing
  <1>3. /\ mem.dirty = FALSE /\ ~mem.needs /\ c \in 0..Len(Fixture)
        /\ Whole(db, mem.ledger, Keys) /\ run.i \in Nat \ {0} /\ Resolved(db, Keys)
    <2>1. mem.cursor \in 0..Len(Fixture) /\ mem.cursor < Len(Fixture) /\ Len(Fixture) \in Nat
      BY <1>1, RuntimeAssumption DEF Inv, BooksInv, ControlInv
    <2>2. c \in 0..Len(Fixture)
      BY <2>1
    <2>. QED  BY <1>1, <2>2 DEF Inv, TypeInv, Process, ControlInv, JournalInv, Quiet
  <1>4. /\ Process(m) /\ m.ledger = mem.ledger /\ m.cursor = c /\ m.clock = mem.clock
        /\ m.dirty = mem.dirty /\ m.needs = mem.needs
    BY DEF Inv, TypeInv, Process
  <1> HIDE DEF m, c
  <1>5. /\ TypeInv(db', mem', run')
        /\ BooksInv(db'.snap, mem') /\ BehindInv(db') /\ ProposalsInv(db')
        /\ ~mem'.dirty /\ mem'.ckptOk /\ mem'.ledger = mem.ledger /\ mem'.needs = mem.needs
        /\ db'.snap.ledger = mem'.ledger /\ db'.snap.cursor = mem'.cursor
        /\ db'.evidence = db.evidence /\ db'.row = db.row
        /\ db'.denied = db.denied /\ db'.fills = db.fills
    BY <1>1, <1>2, <1>3, <1>4, PersistKeeps
  <1>6. Whole(db', mem'.ledger, Keys) /\ Resolved(db', Keys)
    BY <1>3, <1>5, WholeKept
  <1>7. ControlInv(db', mem', run') /\ AdmissionInv(db', mem', run') /\ JournalInv(db', mem', run')
    BY <1>2, <1>3, <1>5, <1>6 DEF ControlInv, AdmissionInv, JournalInv, Saving, Quiet
  <1>. QED  BY <1>5, <1>7 DEF Inv

LEMMA ReviewedKeeps ==
    ASSUME Inv(db, mem, run), Reviewed
    PROVE  Inv(db', mem', run')
  <1> DEFINE terms == db.proposals[run.p]
             pc == IF review_accepts(mem.ledger, terms, mem.clock) THEN "intent" ELSE "end"
  <1>1. /\ run.op = "dispatch" /\ run.pc = "review" /\ run' = [run EXCEPT !.pc = pc]
        /\ PersistLedger(mem)
    BY DEF Reviewed, At, Goto
  <1>2. pc \in {"intent", "end"}
    OBVIOUS
  <1>3. pc = "intent" => ~rejects(mem.ledger, terms, mem.clock)
    <2>1. SUFFICES ASSUME review_accepts(mem.ledger, terms, mem.clock)
                   PROVE  ~rejects(mem.ledger, terms, mem.clock)
      OBVIOUS
    <2>2. TermsType(terms) /\ Sound(mem.ledger) /\ mem.clock \in Nat
      BY <1>1 DEF Inv, ControlInv, ProposalsInv, BooksInv, ReplayLedger
    <2> DEFINE w == terms.limit * terms.qty
    <2>3. /\ terms.qty \in Nat /\ terms.limit \in Nat /\ w \in Nat
          /\ buying_power(mem.ledger) \in Int
          /\ available_position_quantity(mem.ledger, terms.inst) \in Int
          /\ Expiration[terms.inst] \in Nat /\ Day(mem.clock) \in Int
      <3>1. terms.qty \in Nat /\ terms.limit \in Nat /\ terms.inst \in Instruments
        BY <2>2 DEF TermsType
      <3>2. buying_power(mem.ledger) \in Int
        BY <2>2, SoundTotals DEF buying_power, reserved_buying_power, SetAside
      <3>3. available_position_quantity(mem.ledger, terms.inst) \in Int
        BY <2>2, <3>1, SoundTotals DEF available_position_quantity, Committed
      <3>. QED  BY <2>2, <3>1, <3>2, <3>3, LedgerAssumption DEF Day
    <2> HIDE DEF terms
    <2>. QED  BY <2>1, <2>3 DEF review_accepts, rejects
  <1> HIDE DEF pc, terms
  <1>4. /\ run'.op = "dispatch" /\ run'.pc = pc /\ run'.p = run.p
        /\ run' = [op |-> run'.op, pc |-> run'.pc, p |-> run'.p, i |-> run'.i] /\ Standing(run')
    BY <1>1, <1>2 DEF Inv, TypeInv, Standing
  <1>5. /\ TypeInv(db', mem', run')
        /\ BooksInv(db'.snap, mem') /\ BehindInv(db') /\ ProposalsInv(db')
        /\ mem'.ledger = mem.ledger /\ mem'.clock = mem.clock
        /\ ~mem'.dirty /\ mem'.ckptOk /\ mem'.needs = mem.needs
        /\ db'.snap.ledger = mem'.ledger /\ db'.snap.cursor = mem'.cursor
        /\ db'.proposals = db.proposals /\ db'.evidence = db.evidence /\ db'.row = db.row
        /\ db'.denied = db.denied /\ db'.fills = db.fills
    BY <1>1, <1>4, PersistLedgerKeeps
  <1>6. /\ ~mem.needs /\ run.p \in Keys /\ db.proposals[run.p] # NoTerms
        /\ Whole(db, mem.ledger, Keys) /\ Whole(db, mem.ledger, Keys \ {run.p})
        /\ Fits(mem.ledger, terms, mem.clock) /\ db.evidence[run.p] = "none"
    BY <1>1 DEF Inv, ControlInv, AdmissionInv, JournalInv, Quiet, Underway, terms
  <1>7. Whole(db', mem'.ledger, Keys) /\ Whole(db', mem'.ledger, Keys \ {run.p})
    BY <1>5, <1>6, WholeKept
  <1>8. ControlInv(db', mem', run')
    BY <1>2, <1>4, <1>5, <1>6 DEF ControlInv, Saving
  <1>9. AdmissionInv(db', mem', run')
    BY <1>2, <1>3, <1>4, <1>5, <1>6 DEF AdmissionInv, terms
  <1>10. JournalInv(db', mem', run')
    BY <1>2, <1>4, <1>5, <1>6, <1>7 DEF JournalInv, Underway
  <1>. QED  BY <1>5, <1>8, <1>9, <1>10 DEF Inv

LEMMA OrderPersistedKeeps ==
    ASSUME Inv(db, mem, run), OrderPersisted
    PROVE  Inv(db', mem', run')
  <1>1. /\ run.op = "dispatch" /\ run.pc = "persist" /\ run' = [run EXCEPT !.pc = "reply"]
        /\ PersistLedger(mem)
    BY DEF OrderPersisted, At, Goto
  <1>2. /\ run'.op = "dispatch" /\ run'.pc = "reply" /\ run'.p = run.p
        /\ run' = [op |-> run'.op, pc |-> run'.pc, p |-> run'.p, i |-> run'.i] /\ Standing(run')
    BY <1>1 DEF Inv, TypeInv, Standing
  <1>3. /\ TypeInv(db', mem', run')
        /\ BooksInv(db'.snap, mem') /\ BehindInv(db') /\ ProposalsInv(db')
        /\ mem'.ledger = mem.ledger /\ mem'.clock = mem.clock
        /\ ~mem'.dirty /\ mem'.ckptOk /\ mem'.needs = mem.needs
        /\ db'.snap.ledger = mem'.ledger /\ db'.snap.cursor = mem'.cursor
        /\ db'.proposals = db.proposals /\ db'.evidence = db.evidence /\ db'.row = db.row
        /\ db'.denied = db.denied /\ db'.fills = db.fills
    BY <1>1, <1>2, PersistLedgerKeeps
  <1>4. /\ ~mem.needs /\ run.p \in Keys /\ db.proposals[run.p] # NoTerms
        /\ mem.ledger.keys[run.p] # 0
        /\ Whole(db, mem.ledger, Keys \ {run.p}) /\ db.evidence[run.p] = "command"
    BY <1>1 DEF Inv, ControlInv, JournalInv, Underway
  <1>5. Whole(db', mem'.ledger, Keys \ {run.p})
    BY <1>3, <1>4, WholeKept
  <1>6. ControlInv(db', mem', run') /\ AdmissionInv(db', mem', run')
    BY <1>2, <1>3, <1>4 DEF ControlInv, AdmissionInv, Saving
  <1>7. JournalInv(db', mem', run')
    BY <1>2, <1>3, <1>4, <1>5 DEF JournalInv, Underway, Quiet
  <1>. QED  BY <1>3, <1>6, <1>7 DEF Inv

-----------------------------------------------------------------------------
\* The journal is synchronised; dispatch and review

LEMMA SyncOrderKeeps ==
    ASSUME Inv(db, mem, run), NEW p \in Keys, SyncOrder(p)
    PROVE  Inv(db', mem', run')
  <1> DEFINE w == Published(mem.ledger, p)
             f == [db.row EXCEPT ![p] = w]
  <1>1. /\ run.pc = "sync" /\ mem' = mem /\ run' = run
        /\ mem.ledger.keys[p] # 0 /\ db.evidence[p] = "command" /\ db' = [db EXCEPT !.row[p] = w]
    BY DEF SyncOrder, LedgerOrders
  <1>2. db.snap.ledger = mem.ledger /\ run.op \in {"reconcile", "step"}
    BY <1>1, SyncBooks
  <1>3. /\ w \in RowType /\ w.st \in OrderStates
        /\ w.filled = mem.ledger.orders[mem.ledger.keys[p]].filled /\ w.filled \in Nat
    BY <1>1, PublishedType DEF Inv, BooksInv
  <1> HIDE DEF w
  <1>4. f \in [Keys -> RowType] /\ f[p] = w /\ \A k \in Keys \ {p} : f[k] = db.row[k]
    BY <1>3 DEF Inv, TypeInv
  <1>5. db' = [db EXCEPT !.row = f]
    BY <1>1
  <1> HIDE DEF f
  <1>6. /\ db'.proposals = db.proposals /\ db'.evidence = db.evidence /\ db'.row = f
        /\ db'.denied = db.denied /\ db'.fills = db.fills /\ db'.snap = db.snap
        /\ TypeInv(db', mem', run')
    BY <1>1, <1>4, <1>5 DEF Inv, TypeInv
  <1>7. BehindInv(db')
    <2>1. w.filled <= db.snap.ledger.orders[db.snap.ledger.keys[p]].filled
      BY <1>2, <1>3
    <2>. QED  BY <1>1, <1>2, <1>4, <1>6, <2>1 DEF Inv, BehindInv
  <1>8. BooksInv(db'.snap, mem') /\ ProposalsInv(db')
    BY <1>1, <1>6 DEF Inv, ProposalsInv
  <1>9. ControlInv(db', mem', run') /\ AdmissionInv(db', mem', run')
    BY <1>1, <1>2, <1>6 DEF Inv, ControlInv, AdmissionInv
  <1>10. Resolved(db, Keys) => Resolved(db', Keys)
    BY <1>3, <1>4, <1>6 DEF Resolved, OrderStates, Unsettled
  <1>11. JournalInv(db', mem', run')
    BY <1>1, <1>2, <1>10 DEF Inv, JournalInv, Quiet
  <1>. QED  BY <1>6, <1>7, <1>8, <1>9, <1>11 DEF Inv

LEMMA SyncFillKeeps ==
    ASSUME Inv(db, mem, run), SyncFill
    PROVE  Inv(db', mem', run')
  <1> DEFINE n == Len(db.fills) + 1
             g == mem.ledger.fills
             f == Append(db.fills, g[n])
  <1>1. /\ run.pc = "sync" /\ mem' = mem /\ run' = run /\ unsaved_fills # {}
        /\ db' = [db EXCEPT !.fills = Append(@, g[Min(unsaved_fills)])]
    BY DEF SyncFill
  <1>2. /\ db.snap.ledger = mem.ledger /\ run.op \in {"reconcile", "step"}
        /\ Min(unsaved_fills) = n /\ n \in DOMAIN g
    BY <1>1, SyncBooks, UnsavedFills
  <1>3. db' = [db EXCEPT !.fills = f]
    BY <1>1, <1>2
  <1>4. /\ db.fills \in Seq(FillType) /\ g \in Seq(FillType)
        /\ \A j \in DOMAIN db.fills : db.fills[j] = g[j]
    BY <1>2 DEF Inv, BehindInv, BooksInv, ReplayLedger, Sound, LedgerType
  <1>5. /\ f \in Seq(FillType) /\ Len(f) <= Len(g) /\ \A j \in DOMAIN f : f[j] = g[j]
    <2>1. g[n] \in FillType /\ n <= Len(g) /\ n \in Nat
      BY <1>2, <1>4
    <2>2. /\ f \in Seq(FillType) /\ Len(f) = n /\ f[n] = g[n]
          /\ \A j \in DOMAIN f : j = n \/ j \in DOMAIN db.fills
          /\ \A j \in DOMAIN db.fills : f[j] = db.fills[j]
      BY <1>4, <2>1, AppendProperties
    <2> HIDE DEF f, g, n
    <2>3. Len(f) <= Len(g)
      BY <2>1, <2>2
    <2>. QED  BY <1>4, <2>2, <2>3
  <1> HIDE DEF f
  <1>6. /\ db'.proposals = db.proposals /\ db'.evidence = db.evidence /\ db'.row = db.row
        /\ db'.denied = db.denied /\ db'.fills = f /\ db'.snap = db.snap
        /\ TypeInv(db', mem', run')
    BY <1>1, <1>3 DEF Inv, TypeInv
  <1>7. BehindInv(db')
    BY <1>2, <1>5, <1>6 DEF Inv, BehindInv
  <1>8. BooksInv(db'.snap, mem') /\ ProposalsInv(db')
    BY <1>1, <1>6 DEF Inv, ProposalsInv
  <1>9. ControlInv(db', mem', run') /\ AdmissionInv(db', mem', run')
    BY <1>1, <1>2, <1>6 DEF Inv, ControlInv, AdmissionInv
  <1>10. Resolved(db, Keys) => Resolved(db', Keys)
    BY <1>6 DEF Resolved
  <1>11. JournalInv(db', mem', run')
    BY <1>1, <1>2, <1>10 DEF Inv, JournalInv, Quiet
  <1>. QED  BY <1>6, <1>7, <1>8, <1>9, <1>11 DEF Inv

LEMMA DispatchKeeps ==
    ASSUME Inv(db, mem, run), NEW p \in Keys, Dispatch(p)
    PROVE  Inv(db', mem', run')
  <1>1. /\ db' = db /\ mem' = mem /\ run.op = "idle" /\ ~mem.needs
        /\ db.evidence[p] = "none" /\ db.proposals[p] # NoTerms
        /\ risk_allows(db.proposals[p], account_snapshot(mem.ledger, mem.clock),
                       MarketQuote(db.proposals[p].inst), mem.clock)
        /\ run' = [op |-> "dispatch", pc |-> "review", p |-> p, i |-> 1]
    BY DEF Dispatch, Idle, healthcheck, Operation
  <1>2. Fits(mem.ledger, db.proposals[p], mem.clock)
    <2>1. Sound(mem.ledger) /\ mem.clock \in Nat
      BY DEF Inv, BooksInv, ReplayLedger
    <2>. QED  BY <1>1, <2>1, SnapshotFits
  <1>3. TypeInv(db', mem', run')
    BY <1>1 DEF Inv, TypeInv, Standing
  <1>4. Whole(db, mem.ledger, Keys)
    BY <1>1 DEF Inv, JournalInv, Quiet
  <1>5. Whole(db, mem.ledger, Keys \ {p})
    BY <1>4 DEF Whole, RowsWhole, Resolved
  <1>6. ControlInv(db', mem', run') /\ AdmissionInv(db', mem', run')
    BY <1>1, <1>2 DEF Inv, ControlInv, AdmissionInv, Saving
  <1>7. JournalInv(db', mem', run')
    BY <1>1, <1>4, <1>5 DEF JournalInv, Underway
  <1>. QED  BY <1>1, <1>3, <1>6, <1>7, FlagsOnly

\* An operation ends where the journal is whole.
LEMMA OperationEnds ==
    ASSUME Inv(db, mem, run), run.op \in {"step", "dispatch", "review"}, Quiet(run),
           db' = db, mem' = mem, run' = IdleRun
    PROVE  Inv(db', mem', run')
  <1>1. TypeInv(db', mem', run')
    BY DEF Inv, TypeInv, Standing, IdleRun
  <1>2. ~Saving(run)
    BY DEF Quiet, Saving
  <1>3. ControlInv(db', mem', run') /\ AdmissionInv(db', mem', run') /\ JournalInv(db', mem', run')
    BY <1>2 DEF Inv, ControlInv, AdmissionInv, JournalInv, Saving, IdleRun
  <1>. QED  BY <1>1, <1>3, FlagsOnly

LEMMA DeniedBeforeIntentKeeps ==
    ASSUME Inv(db, mem, run), DeniedBeforeIntent
    PROVE  Inv(db', mem', run')
  <1>1. db' = db /\ mem' = mem /\ run' = IdleRun /\ run.op = "dispatch" /\ run.pc = "intent"
    BY DEF DeniedBeforeIntent, Finish, At
  <1>. QED  BY <1>1, OperationEnds DEF Quiet

LEMMA EndKeeps ==
    ASSUME Inv(db, mem, run), End
    PROVE  Inv(db', mem', run')
  <1>1. db' = db /\ mem' = mem /\ run' = IdleRun /\ run.pc = "end"
    BY DEF End, Finish
  <1>2. run.op \in {"step", "dispatch", "review"} /\ Quiet(run)
    BY <1>1 DEF Inv, TypeInv, Standing, Quiet
  <1>. QED  BY <1>1, <1>2, OperationEnds

LEMMA GateDeniesKeeps ==
    ASSUME Inv(db, mem, run), GateDenies
    PROVE  Inv(db', mem', run')
  <1>1. /\ db' = db /\ mem' = mem /\ run.op = "dispatch" /\ run.pc = "gate"
        /\ run' = [run EXCEPT !.pc = "deny"]
    BY DEF GateDenies, Goto, At
  <1>2. run'.op = "dispatch" /\ run'.pc = "deny" /\ run'.p = run.p /\ TypeInv(db', mem', run')
    BY <1>1 DEF Inv, TypeInv, Standing
  <1>3. ControlInv(db', mem', run') /\ AdmissionInv(db', mem', run')
    BY <1>1, <1>2 DEF Inv, ControlInv, AdmissionInv, Saving
  <1>4. JournalInv(db', mem', run')
    BY <1>1, <1>2 DEF Inv, JournalInv, Underway, Quiet
  <1>. QED  BY <1>1, <1>2, <1>3, <1>4, FlagsOnly

LEMMA ReviewBeginKeeps ==
    ASSUME Inv(db, mem, run), ReviewBegin
    PROVE  Inv(db', mem', run')
  <1>1. /\ db' = db /\ mem' = mem /\ run.op = "idle" /\ ~mem.needs
        /\ run' = [op |-> "review", pc |-> "outcomes", p |-> "none", i |-> 1]
    BY DEF ReviewBegin, Operation, Idle
  <1>2. TypeInv(db', mem', run')
    BY <1>1 DEF Inv, TypeInv, Standing
  <1>3. ControlInv(db', mem', run') /\ AdmissionInv(db', mem', run') /\ JournalInv(db', mem', run')
    BY <1>1 DEF Inv, ControlInv, AdmissionInv, JournalInv, Saving, Quiet
  <1>. QED  BY <1>1, <1>2, <1>3, FlagsOnly

LEMMA RecordOutcomeKeeps ==
    ASSUME Inv(db, mem, run), RecordOutcome
    PROVE  Inv(db', mem', run')
  <1>1. PICK o : /\ run.op = "review" /\ run.pc = "outcomes" /\ mem' = mem
                 /\ db' = [db EXCEPT !.outcomes = @ \cup {o}]
                 /\ run' = [run EXCEPT !.pc = IF db.outcomes \cup {o} = derived_outcomes
                                              THEN "end" ELSE "outcomes"]
    BY DEF RecordOutcome, At, Goto
  <1>2. /\ db'.proposals = db.proposals /\ db'.evidence = db.evidence /\ db'.row = db.row
        /\ db'.denied = db.denied /\ db'.fills = db.fills /\ db'.snap = db.snap
        /\ run'.op = "review" /\ run'.pc \in {"end", "outcomes"} /\ TypeInv(db', mem', run')
    BY <1>1 DEF Inv, TypeInv, Standing
  <1>3. BooksInv(db'.snap, mem') /\ ProposalsInv(db') /\ BehindInv(db')
    BY <1>1, <1>2, BehindKept DEF Inv, ProposalsInv
  <1>4. Whole(db, mem.ledger, Keys) => Whole(db', mem'.ledger, Keys)
    BY <1>1, <1>2, WholeKept
  <1>5. ControlInv(db', mem', run') /\ AdmissionInv(db', mem', run') /\ JournalInv(db', mem', run')
    BY <1>1, <1>2, <1>4 DEF Inv, ControlInv, AdmissionInv, JournalInv, Saving, Quiet
  <1>. QED  BY <1>2, <1>3, <1>5 DEF Inv

-----------------------------------------------------------------------------
\* What the execution service writes of a proposal

\* What is written of one proposal leaves the journal of the others as whole as it was.
LEMMA OthersWhole ==
    ASSUME NEW d, NEW e, NEW p, NEW L, Whole(d, L, Keys \ {p}), e.fills = d.fills,
           \A k \in Keys \ {p} : /\ e.row[k] = d.row[k] /\ e.evidence[k] = d.evidence[k]
                                 /\ k \in d.denied => k \in e.denied
    PROVE  Whole(e, L, Keys \ {p})
  <1>1. RowsWhole(e, L, Keys \ {p})
    BY DEF Whole, RowsWhole, DeniedRow
  <1>2. Resolved(e, Keys \ {p})
    BY DEF Whole, Resolved
  <1>. QED  BY <1>1, <1>2 DEF Whole

\* The proposal in the execution service, before an await that only writes to the journal.
LEMMA DispatchFacts ==
    ASSUME Inv(db, mem, run), run.op = "dispatch"
    PROVE  /\ ~mem.needs /\ mem.ckptOk = TRUE /\ mem.dirty = FALSE
           /\ run.p \in Keys /\ db.proposals[run.p] # NoTerms /\ TermsType(db.proposals[run.p])
           /\ ~Saving(run) => db.snap.ledger = mem.ledger /\ db.snap.cursor = mem.cursor
           /\ Whole(db, mem.ledger, Keys \ {run.p}) /\ Underway(db, mem, run)
           /\ Quiet(run) => Whole(db, mem.ledger, Keys)
  BY DEF Inv, TypeInv, Process, ControlInv, ProposalsInv, JournalInv

\* The evidence of the intent, and then of the command.
LEMMA SaveEvidenceOf ==
    ASSUME Inv(db, mem, run), NEW e, NEW pc, run.op = "dispatch", mem' = mem,
           \/ run.pc = "intent" /\ e = "intent" /\ pc = "command"
           \/ run.pc = "command" /\ e = "command" /\ pc = "pending",
           db' = [db EXCEPT !.evidence[run.p] = e], run' = [run EXCEPT !.pc = pc]
    PROVE  Inv(db', mem', run')
  <1> DEFINE f == [db.evidence EXCEPT ![run.p] = e]
             p == run.p
  <1>1. /\ ~mem.needs /\ mem.ckptOk = TRUE /\ mem.dirty = FALSE
        /\ p \in Keys /\ db.proposals[p] # NoTerms
        /\ db.snap.ledger = mem.ledger /\ db.snap.cursor = mem.cursor
        /\ Whole(db, mem.ledger, Keys \ {p}) /\ Underway(db, mem, run)
        /\ run.pc = "intent" => Whole(db, mem.ledger, Keys)
    BY DispatchFacts DEF Saving, Quiet
  <1>2. f \in [Keys -> {"none", "intent", "command"}] /\ f[p] = e
        /\ \A k \in Keys \ {p} : f[k] = db.evidence[k]
    BY <1>1 DEF Inv, TypeInv
  <1>3. db' = [db EXCEPT !.evidence = f]
    OBVIOUS
  <1> HIDE DEF f, p
  <1>4. /\ db'.proposals = db.proposals /\ db'.evidence = f /\ db'.row = db.row
        /\ db'.denied = db.denied /\ db'.fills = db.fills /\ db'.snap = db.snap
        /\ run'.op = "dispatch" /\ run'.pc = pc /\ run'.p = p
        /\ TypeInv(db', mem', run')
    BY <1>2, <1>3 DEF Inv, TypeInv, Standing, p
  <1>5. BooksInv(db'.snap, mem') /\ ProposalsInv(db') /\ BehindInv(db')
    BY <1>4, BehindKept DEF Inv, ProposalsInv
  <1>6. mem.ledger.keys[p] = 0
    <2>1. CASE run.pc = "intent"
      <3>1. db.evidence[p] = "none" /\ RowsWhole(db, mem.ledger, Keys)
        BY <1>1, <2>1 DEF Underway, Whole, p
      <3>. QED  BY <1>1, <3>1 DEF RowsWhole
    <2>2. CASE run.pc = "command"
      BY <1>1, <2>2 DEF Underway, p
    <2>. QED  BY <2>1, <2>2
  <1>7. ControlInv(db', mem', run') /\ AdmissionInv(db', mem', run')
    BY <1>1, <1>4 DEF Inv, ControlInv, AdmissionInv, Saving, p
  <1>8. Whole(db', mem.ledger, Keys \ {p})
    <2>1. \A k \in Keys \ {p} : /\ db'.row[k] = db.row[k] /\ db'.evidence[k] = db.evidence[k]
                                /\ k \in db.denied => k \in db'.denied
      BY <1>2, <1>4
    <2>. QED  BY <1>1, <1>4, <2>1, OthersWhole
  <1>9. JournalInv(db', mem', run')
    BY <1>1, <1>2, <1>4, <1>6, <1>8 DEF JournalInv, Underway, Quiet
  <1>. QED  BY <1>4, <1>5, <1>7, <1>9 DEF Inv

\* A row of the proposal is written.
LEMMA SaveRow ==
    ASSUME Inv(db, mem, run), run.op = "dispatch", ~Saving(run), mem' = mem,
           NEW w \in RowType, NEW pc, run' = [run EXCEPT !.pc = pc],
           pc \in {"gate", "denied", "end"},
           db' = [db EXCEPT !.row[run.p] = w],
           w.st \in {"OPEN", "PARTIAL", "FILLED"} =>
              /\ mem.ledger.keys[run.p] # 0
              /\ w.filled <= mem.ledger.orders[mem.ledger.keys[run.p]].filled
    PROVE  /\ db'.proposals = db.proposals /\ db'.evidence = db.evidence /\ db'.row[run.p] = w
           /\ db'.denied = db.denied /\ db'.fills = db.fills /\ db'.snap = db.snap
           /\ run'.op = "dispatch" /\ run'.pc = pc /\ run'.p = run.p
           /\ TypeInv(db', mem', run') /\ BooksInv(db'.snap, mem') /\ ProposalsInv(db')
           /\ BehindInv(db') /\ Whole(db', mem.ledger, Keys \ {run.p})
  <1> DEFINE f == [db.row EXCEPT ![run.p] = w]
             p == run.p
  <1>1. /\ p \in Keys /\ db.snap.ledger = mem.ledger /\ Whole(db, mem.ledger, Keys \ {p})
    BY DispatchFacts
  <1>2. f \in [Keys -> RowType] /\ f[p] = w /\ \A k \in Keys \ {p} : f[k] = db.row[k]
    BY <1>1 DEF Inv, TypeInv
  <1>3. db' = [db EXCEPT !.row = f]
    OBVIOUS
  <1> HIDE DEF f, p
  <1>4. /\ db'.proposals = db.proposals /\ db'.evidence = db.evidence /\ db'.row = f
        /\ db'.denied = db.denied /\ db'.fills = db.fills /\ db'.snap = db.snap
        /\ run'.op = "dispatch" /\ run'.pc = pc /\ run'.p = p
        /\ TypeInv(db', mem', run')
    BY <1>2, <1>3 DEF Inv, TypeInv, Standing, p
  <1>5. BooksInv(db'.snap, mem') /\ ProposalsInv(db')
    BY <1>4 DEF Inv, ProposalsInv
  <1>6. BehindInv(db')
    <2>1. w.st \in {"OPEN", "PARTIAL", "FILLED"} =>
            /\ db.snap.ledger.keys[p] # 0
            /\ w.filled <= db.snap.ledger.orders[db.snap.ledger.keys[p]].filled
      BY <1>1 DEF p
    <2>. QED  BY <1>1, <1>2, <1>4, <2>1 DEF Inv, BehindInv
  <1>7. Whole(db', mem.ledger, Keys \ {p})
    <2>1. \A k \in Keys \ {p} : /\ db'.row[k] = db.row[k] /\ db'.evidence[k] = db.evidence[k]
                                /\ k \in db.denied => k \in db'.denied
      BY <1>2, <1>4
    <2>. QED  BY <1>1, <1>4, <2>1, OthersWhole
  <1>. QED  BY <1>2, <1>4, <1>5, <1>6, <1>7 DEF p

LEMMA SavePendingKeeps ==
    ASSUME Inv(db, mem, run), run.op = "dispatch", run.pc = "pending", mem' = mem,
           db' = [db EXCEPT !.row[run.p] = [st |-> "SUBMITTING", filled |-> 0]],
           run' = [run EXCEPT !.pc = "gate"]
    PROVE  Inv(db', mem', run')
  <1> DEFINE w == [st |-> "SUBMITTING", filled |-> 0]
  <1>1. w \in RowType /\ w.st \notin {"OPEN", "PARTIAL", "FILLED"} /\ ~Saving(run)
    BY DEF RowType, Saving
  <1>2. db' = [db EXCEPT !.row[run.p] = w]
    OBVIOUS
  <1> HIDE DEF w
  <1>3. /\ db'.proposals = db.proposals /\ db'.evidence = db.evidence /\ db'.row[run.p] = w
        /\ db'.denied = db.denied /\ db'.fills = db.fills /\ db'.snap = db.snap
        /\ run'.op = "dispatch" /\ run'.pc = "gate" /\ run'.p = run.p
        /\ TypeInv(db', mem', run') /\ BooksInv(db'.snap, mem') /\ ProposalsInv(db')
        /\ BehindInv(db') /\ Whole(db', mem.ledger, Keys \ {run.p})
    BY <1>1, <1>2, SaveRow
  <1>4. ~mem.needs /\ Underway(db, mem, run)
    BY DispatchFacts
  <1>5. ControlInv(db', mem', run') /\ AdmissionInv(db', mem', run')
    BY <1>1, <1>3 DEF Inv, ControlInv, AdmissionInv, Saving
  <1>6. JournalInv(db', mem', run')
    BY <1>3, <1>4 DEF JournalInv, Underway, Quiet, w
  <1>. QED  BY <1>3, <1>5, <1>6 DEF Inv

LEMMA SaveEvidenceKeeps ==
    ASSUME Inv(db, mem, run), SaveEvidence
    PROVE  Inv(db', mem', run')
  <1>1. mem' = mem /\ run.op = "dispatch"
    BY DEF SaveEvidence, At
  <1>2. CASE /\ run.pc = "intent" /\ db' = [db EXCEPT !.evidence[run.p] = "intent"]
             /\ run' = [run EXCEPT !.pc = "command"]
    BY <1>1, <1>2, SaveEvidenceOf
  <1>3. CASE /\ run.pc = "command" /\ db' = [db EXCEPT !.evidence[run.p] = "command"]
             /\ run' = [run EXCEPT !.pc = "pending"]
    BY <1>1, <1>3, SaveEvidenceOf
  <1>4. CASE /\ run.pc = "pending" /\ run' = [run EXCEPT !.pc = "gate"]
             /\ db' = [db EXCEPT !.row[run.p] = [st |-> "SUBMITTING", filled |-> 0]]
    BY <1>1, <1>4, SavePendingKeeps
  <1>. QED  BY <1>2, <1>3, <1>4 DEF SaveEvidence, At, Goto

LEMMA RecordDenialKeeps ==
    ASSUME Inv(db, mem, run), RecordDenial
    PROVE  Inv(db', mem', run')
  <1> DEFINE p == run.p
             w == [st |-> "REJECTED", filled |-> 0]
  <1>1. mem' = mem /\ run.op = "dispatch" /\ run.pc \in {"deny", "denied"}
    BY DEF RecordDenial, At
  <1>2. /\ ~mem.needs /\ p \in Keys /\ db.proposals[p] # NoTerms
        /\ Whole(db, mem.ledger, Keys \ {p}) /\ db.evidence[p] = "command"
        /\ mem.ledger.keys[p] = 0
        /\ run.pc = "deny" => db.row[p] = [st |-> "SUBMITTING", filled |-> 0]
        /\ run.pc = "denied" => db.row[p] = w
    BY <1>1, DispatchFacts DEF Underway
  <1>3. CASE /\ run.pc = "deny" /\ run' = [run EXCEPT !.pc = "denied"]
             /\ db' = [db EXCEPT !.row[run.p].st = "REJECTED"]
    <2>1. [db.row[p] EXCEPT !.st = "REJECTED"] = w
      BY <1>2, <1>3
    <2>2. db' = [db EXCEPT !.row[run.p] = w]
      BY <1>3, <2>1
    <2>3. w \in RowType /\ w.st \notin {"OPEN", "PARTIAL", "FILLED"} /\ ~Saving(run)
      BY <1>3 DEF RowType, OrderStates, Saving
    <2> HIDE DEF w
    <2>4. /\ db'.proposals = db.proposals /\ db'.evidence = db.evidence /\ db'.row[run.p] = w
          /\ db'.denied = db.denied /\ db'.fills = db.fills /\ db'.snap = db.snap
          /\ run'.op = "dispatch" /\ run'.pc = "denied" /\ run'.p = run.p
          /\ TypeInv(db', mem', run') /\ BooksInv(db'.snap, mem') /\ ProposalsInv(db')
          /\ BehindInv(db') /\ Whole(db', mem.ledger, Keys \ {run.p})
      BY <1>1, <1>3, <2>2, <2>3, SaveRow
    <2>5. ControlInv(db', mem', run') /\ AdmissionInv(db', mem', run')
      BY <1>1, <1>3, <2>3, <2>4 DEF Inv, ControlInv, AdmissionInv, Saving
    <2>6. JournalInv(db', mem', run')
      BY <1>1, <1>2, <2>4 DEF JournalInv, Underway, Quiet, w
    <2>. QED  BY <2>4, <2>5, <2>6 DEF Inv
  <1>4. CASE /\ run.pc = "denied" /\ run' = [run EXCEPT !.pc = "end"]
             /\ db' = [db EXCEPT !.denied = @ \cup {run.p}]
    <2>1. /\ db'.proposals = db.proposals /\ db'.evidence = db.evidence /\ db'.row = db.row
          /\ db'.denied = db.denied \cup {p} /\ db'.fills = db.fills /\ db'.snap = db.snap
          /\ run'.op = "dispatch" /\ run'.pc = "end" /\ run'.p = p
          /\ TypeInv(db', mem', run')
      BY <1>1, <1>4 DEF Inv, TypeInv, Standing
    <2>2. BooksInv(db'.snap, mem') /\ ProposalsInv(db') /\ BehindInv(db')
      BY <1>1, <2>1, BehindKept DEF Inv, ProposalsInv
    <2>3. Whole(db', mem.ledger, Keys \ {p})
      BY <1>2, <2>1, OthersWhole
    <2>4. Whole(db', mem.ledger, Keys)
      <3>1. DeniedRow(db', p) /\ db'.row[p].st = "REJECTED"
        BY <1>2, <1>4, <2>1 DEF DeniedRow
      <3>2. RowsWhole(db', mem.ledger, Keys)
        BY <1>2, <2>3, <3>1 DEF Whole, RowsWhole
      <3>3. Resolved(db', Keys)
        BY <1>2, <2>1, <2>3, <3>1 DEF Whole, Resolved, Unsettled
      <3>. QED  BY <2>3, <3>2, <3>3 DEF Whole
    <2>5. ControlInv(db', mem', run') /\ AdmissionInv(db', mem', run')
      BY <1>1, <1>4, <2>1 DEF Inv, ControlInv, AdmissionInv, Saving
    <2>6. JournalInv(db', mem', run')
      BY <1>1, <1>2, <2>1, <2>3, <2>4 DEF JournalInv, Underway
    <2>. QED  BY <2>1, <2>2, <2>5, <2>6 DEF Inv
  <1>. QED  BY <1>3, <1>4 DEF RecordDenial, At, Goto

LEMMA SaveReplyKeeps ==
    ASSUME Inv(db, mem, run), SaveReply
    PROVE  Inv(db', mem', run')
  <1> DEFINE p == run.p
             w == Published(mem.ledger, run.p)
  <1>1. /\ mem' = mem /\ run.op = "dispatch" /\ run.pc = "reply" /\ run' = [run EXCEPT !.pc = "end"]
        /\ db' = [db EXCEPT !.row[run.p] = w]
    BY DEF SaveReply, At, Goto
  <1>2. /\ ~mem.needs /\ p \in Keys /\ db.evidence[p] = "command" /\ ~Saving(run)
        /\ mem.ledger.keys[p] # 0
    BY <1>1, DispatchFacts DEF Underway, Saving, Inv, ControlInv
  <1>3. /\ w \in RowType /\ w.st \in OrderStates /\ w.filled \in Nat
        /\ w.filled = mem.ledger.orders[mem.ledger.keys[p]].filled
    BY <1>2, PublishedType DEF Inv, BooksInv
  <1>4. w.filled <= mem.ledger.orders[mem.ledger.keys[p]].filled
    <2> HIDE DEF w
    <2>. QED  BY <1>3
  <1> HIDE DEF w
  <1>5. /\ db'.proposals = db.proposals /\ db'.evidence = db.evidence /\ db'.row[run.p] = w
        /\ db'.denied = db.denied /\ db'.fills = db.fills /\ db'.snap = db.snap
        /\ run'.op = "dispatch" /\ run'.pc = "end" /\ run'.p = run.p
        /\ TypeInv(db', mem', run') /\ BooksInv(db'.snap, mem') /\ ProposalsInv(db')
        /\ BehindInv(db') /\ Whole(db', mem.ledger, Keys \ {run.p})
    BY <1>1, <1>2, <1>3, <1>4, SaveRow
  <1>6. Whole(db', mem.ledger, Keys)
    <2>1. RowsWhole(db', mem.ledger, Keys)
      BY <1>2, <1>5 DEF Whole, RowsWhole, w
    <2>2. Resolved(db', Keys)
      BY <1>2, <1>3, <1>5 DEF Whole, Resolved, Unsettled, OrderStates
    <2>. QED  BY <1>5, <2>1, <2>2 DEF Whole
  <1>7. ControlInv(db', mem', run') /\ AdmissionInv(db', mem', run')
    BY <1>1, <1>5 DEF Inv, ControlInv, AdmissionInv, Saving
  <1>8. JournalInv(db', mem', run')
    BY <1>1, <1>2, <1>5, <1>6 DEF JournalInv, Underway
  <1>. QED  BY <1>5, <1>7, <1>8 DEF Inv

-----------------------------------------------------------------------------
\* The order is placed; faults and restarts

LEMMA PlaceKeeps ==
    ASSUME Inv(db, mem, run), Place
    PROVE  Inv(db', mem', run')
  <1> DEFINE p == run.p
             terms == db.proposals[run.p]
             L == mem.ledger
             M == submit(L, p, terms, mem.clock)
  <1>1. /\ db' = db /\ run.op = "dispatch" /\ run.pc = "gate" /\ run' = [run EXCEPT !.pc = "persist"]
        /\ mem' = [mem EXCEPT !.ledger = M]
    BY DEF Place, At, Goto
  <1>2. /\ ~mem.needs /\ mem.ckptOk = TRUE /\ mem.dirty = FALSE
        /\ p \in Keys /\ terms # NoTerms /\ TermsType(terms)
        /\ Whole(db, L, Keys \ {p}) /\ db.evidence[p] = "command" /\ L.keys[p] = 0
        /\ db.snap.ledger = L /\ db.snap.cursor = mem.cursor
    BY <1>1, DispatchFacts DEF Underway, Saving
  <1>3. /\ ReplayLedger(L, mem.clock) /\ Sound(L) /\ mem.clock \in Nat /\ Within(L)
        /\ Fits(L, terms, mem.clock) /\ ~rejects(L, terms, mem.clock)
    BY <1>1 DEF Inv, BooksInv, ReplayLedger, AdmissionInv
  <1>4. M = submit(L, p, terms, mem.clock)
    OBVIOUS
  <1> HIDE DEF p, terms, L, M
  <1>5. /\ ReplayLedger(M, mem.clock) /\ Grows(L, M) /\ M.keys[p] # 0 /\ M.fills = L.fills
        /\ \A k \in Keys \ {p} :
              /\ M.keys[k] = L.keys[k]
              /\ L.keys[k] # 0 => Published(M, k) = Published(L, k)
    BY <1>2, <1>3, <1>4, SubmitReplay
  <1>6. Within(M)
    BY <1>2, <1>3, <1>4, SubmitWithin
  <1>7. /\ mem'.ledger = M /\ mem'.cursor = mem.cursor /\ mem'.clock = mem.clock
        /\ mem'.dirty = mem.dirty /\ mem'.ckptOk = mem.ckptOk /\ mem'.needs = mem.needs
        /\ run'.op = "dispatch" /\ run'.pc = "persist" /\ run'.p = p
        /\ TypeInv(db', mem', run')
    BY <1>1 DEF Inv, TypeInv, Process, Standing, p
  <1>8. BooksInv(db'.snap, mem')
    BY <1>1, <1>2, <1>5, <1>6, <1>7 DEF Inv, BooksInv
  <1>9. ControlInv(db', mem', run') /\ AdmissionInv(db', mem', run')
    BY <1>1, <1>2, <1>5, <1>7 DEF ControlInv, AdmissionInv, Saving, terms, p
  <1>10. Whole(db', M, Keys \ {p})
    <2>1. RowsWhole(db, M, Keys \ {p})
      BY <1>2, <1>5 DEF Whole, RowsWhole
    <2>. QED  BY <1>1, <1>2, <1>5, <2>1 DEF Whole
  <1>11. JournalInv(db', mem', run')
    BY <1>1, <1>2, <1>7, <1>10 DEF JournalInv, Underway, Quiet
  <1>. QED  BY <1>1, <1>7, <1>8, <1>9, <1>11 DEF Inv

\* No operation runs, and the process must reconcile before the next one.
LEMMA Abandoned ==
    ASSUME Inv(db, mem, run), TypeInv(db', mem', run'), BooksInv(db'.snap, mem'), BehindInv(db'),
           db'.proposals = db.proposals, run'.op \in {"idle", "refused"}, mem'.needs = TRUE,
           mem'.ckptOk /\ ~mem'.dirty =>
               db'.snap.ledger = mem'.ledger /\ db'.snap.cursor = mem'.cursor
    PROVE  Inv(db', mem', run')
  <1>1. ProposalsInv(db')
    BY DEF Inv, ProposalsInv
  <1>2. ControlInv(db', mem', run') /\ AdmissionInv(db', mem', run') /\ JournalInv(db', mem', run')
    BY DEF ControlInv, AdmissionInv, JournalInv
  <1>. QED  BY <1>1, <1>2 DEF Inv

\* The snapshot an append may have left behind is the old one or the process.
LEMMA MaybeSaved ==
    ASSUME Inv(db, mem, run), NEW c \in 0..Len(Fixture), NEW s \in {db.snap, SnapshotAt(mem, c)},
           NEW e, e.fills = db.fills, e.row = db.row, e.snap = s,
           NEW n, n.ledger = mem.ledger, n.clock = mem.clock, n.cursor = mem.cursor
    PROVE  BooksInv(s, n) /\ BehindInv(e)
  <1>1. CASE s = db.snap
    BY <1>1, BooksKept, BehindKept DEF Inv
  <1>2. CASE s = SnapshotAt(mem, c)
    <2>1. s.ledger = mem.ledger /\ s.at = mem.clock /\ s.cursor = c
      BY <1>2 DEF SnapshotAt
    <2>2. mem.cursor \in 0..Len(Fixture) /\ BooksInv(db.snap, mem)
      BY DEF Inv, BooksInv
    <2>3. BooksInv(s, n)
      BY <2>1, <2>2, Saved
    <2>4. /\ ReplayLedger(db.snap.ledger, db.snap.at) /\ ReplayLedger(e.snap.ledger, mem.clock)
          /\ Grows(db.snap.ledger, e.snap.ledger) /\ BehindInv(db) /\ db.row \in [Keys -> RowType]
      BY <2>1 DEF Inv, BooksInv, TypeInv
    <2>. QED  BY <2>3, <2>4, BehindAdvances
  <1>. QED  BY <1>1, <1>2

LEMMA PersistFailsKeeps ==
    ASSUME Inv(db, mem, run), PersistFails
    PROVE  Inv(db', mem', run')
  <1> DEFINE c == IF At("step", "quote") THEN mem.cursor + 1 ELSE mem.cursor
             n == Failed(mem)
             b == mem.dirty \/ <<run.op, run.pc>> \in LedgerPersists
  <1>1. /\ run' = IdleRun /\ <<run.op, run.pc>> \in LedgerPersists \cup CheckpointPersists
        /\ \E s \in {db.snap, SnapshotAt(mem, c)} : db' = [db EXCEPT !.snap = s]
    BY DEF PersistFails, Finish
  <1>2. mem' = [n EXCEPT !.ckptOk = FALSE, !.dirty = @ \/ <<run.op, run.pc>> \in LedgerPersists]
    BY DEF PersistFails
  <1>3. run.op \in {"reconcile", "step", "dispatch"}
    BY <1>1 DEF LedgerPersists, CheckpointPersists
  <1>4. n = Failed(mem)
    OBVIOUS
  <1> HIDE DEF n
  <1>5. /\ Process(n) /\ n.ledger = mem.ledger /\ n.cursor = mem.cursor /\ n.clock = mem.clock
        /\ n.dirty = mem.dirty /\ n.needs = (mem.needs \/ run.op \notin {"reconcile", "review"})
    BY <1>4, FailedFields
  <1>6. n.needs = TRUE
    BY <1>3, <1>5 DEF Inv, ControlInv, TypeInv, Process
  <1>7. mem' = [n EXCEPT !.ckptOk = FALSE, !.dirty = b] /\ b \in BOOLEAN
    BY <1>2, <1>5 DEF Process
  <1> HIDE DEF b
  <1>8. /\ Process(mem') /\ mem'.ledger = mem.ledger /\ mem'.cursor = mem.cursor
        /\ mem'.clock = mem.clock /\ mem'.ckptOk = FALSE /\ mem'.needs = TRUE
    BY <1>5, <1>6, <1>7 DEF Process
  <1>9. c \in 0..Len(Fixture)
    <2>1. mem.cursor \in 0..Len(Fixture) /\ Len(Fixture) \in Nat
      BY RuntimeAssumption DEF Inv, BooksInv
    <2>2. At("step", "quote") => mem.cursor < Len(Fixture)
      BY DEF Inv, ControlInv, At
    <2>. QED  BY <2>1, <2>2
  <1> HIDE DEF c
  <1>10. PICK s \in {db.snap, SnapshotAt(mem, c)} : db' = [db EXCEPT !.snap = s]
    BY <1>1
  <1>11. /\ db'.proposals = db.proposals /\ db'.row = db.row /\ db'.fills = db.fills
         /\ db'.snap = s /\ run'.op = "idle" /\ TypeInv(db', mem', run')
    BY <1>1, <1>8, <1>10 DEF Inv, TypeInv, Standing, IdleRun
  <1>12. BooksInv(db'.snap, mem') /\ BehindInv(db')
    BY <1>8, <1>9, <1>11, MaybeSaved
  <1>. QED  BY <1>8, <1>11, <1>12, Abandoned

LEMMA AwaitFailsKeeps ==
    ASSUME Inv(db, mem, run), AwaitFails
    PROVE  Inv(db', mem', run')
  <1>1. /\ db' = db /\ mem' = Failed(mem) /\ run' = IdleRun
        /\ <<run.op, run.pc>> \notin LedgerPersists /\ run.pc # "idle"
    BY DEF AwaitFails, Finish
  <1>2. run.op \in {"reconcile", "step", "dispatch", "review"}
    BY <1>1 DEF Inv, TypeInv, Standing
  <1>3. ~Saving(run)
    BY <1>1 DEF Saving, LedgerPersists
  <1>. QED  BY <1>1, <1>2, <1>3, OperationFails

LEMMA InterruptedKeeps ==
    ASSUME Inv(db, mem, run), Interrupted
    PROVE  Inv(db', mem', run')
  <1> DEFINE p == run.p
             u == [Published(mem.ledger, p) EXCEPT !.st = "SUBMISSION_UNKNOWN"]
             n == Failed(mem)
             good == mem.ckptOk /\ run.pc # "persist"
             bad == mem.dirty \/ run.pc = "persist"
             k == mem.latch \cup {run.p}
  <1>1. /\ run' = IdleRun /\ run.op = "dispatch" /\ mem.ledger.keys[p] # 0
        /\ \E s \in {db.snap, SnapshotAt(mem, mem.cursor)}, r \in {db.row[p], u} :
              db' = [db EXCEPT !.snap = IF run.pc = "persist" THEN s ELSE @, !.row[run.p] = r]
        /\ mem' = [n EXCEPT !.latch = @ \cup {run.p}, !.ckptOk = @ /\ run.pc # "persist",
                            !.dirty = @ \/ run.pc = "persist"]
    BY DEF Interrupted, Finish
  <1>2. n = Failed(mem)
    OBVIOUS
  <1> HIDE DEF n
  <1>3. /\ Process(n) /\ n.ledger = mem.ledger /\ n.cursor = mem.cursor /\ n.clock = mem.clock
        /\ n.dirty = mem.dirty /\ n.ckptOk = mem.ckptOk /\ n.latch = mem.latch /\ n.needs = TRUE
    BY <1>1, <1>2, FailedFields
  <1>4. mem' = [n EXCEPT !.latch = k, !.ckptOk = good, !.dirty = bad]
        /\ good \in BOOLEAN /\ bad \in BOOLEAN
    BY <1>1, <1>3 DEF Process
  <1>5. good /\ ~bad => run.pc # "persist" /\ mem.ckptOk /\ ~mem.dirty
    OBVIOUS
  <1> HIDE DEF good, bad, k
  <1>6. /\ Process(mem') /\ mem'.ledger = mem.ledger /\ mem'.cursor = mem.cursor
        /\ mem'.clock = mem.clock /\ mem'.ckptOk = good /\ mem'.dirty = bad /\ mem'.needs = TRUE
    BY <1>3, <1>4 DEF Process
  <1>7. p \in Keys /\ mem.cursor \in 0..Len(Fixture)
    BY <1>1 DEF Inv, ControlInv, BooksInv
  <1>8. u.st = "SUBMISSION_UNKNOWN" /\ u \in RowType
    BY <1>1, <1>7, PublishedType DEF Inv, BooksInv, RowType, Published
  <1> HIDE DEF p, u
  <1>9. PICK s \in {db.snap, SnapshotAt(mem, mem.cursor)}, r \in {db.row[p], u} :
              db' = [db EXCEPT !.snap = IF run.pc = "persist" THEN s ELSE @, !.row[run.p] = r]
    BY <1>1
  <1> DEFINE z == IF run.pc = "persist" THEN s ELSE db.snap
             f == [db.row EXCEPT ![p] = r]
             e == [db EXCEPT !.snap = z]
  <1>10. db' = [db EXCEPT !.snap = z, !.row = f]
    BY <1>9 DEF p
  <1>11. /\ f \in [Keys -> RowType]
         /\ \A j \in Keys : f[j] = db.row[j] \/ f[j].st = "SUBMISSION_UNKNOWN"
    BY <1>7, <1>8 DEF Inv, TypeInv
  <1>12. z \in {db.snap, SnapshotAt(mem, mem.cursor)} /\ (run.pc # "persist" => z = db.snap)
    OBVIOUS
  <1> HIDE DEF z, f
  <1>13. /\ db'.proposals = db.proposals /\ db'.row = f /\ db'.fills = db.fills
         /\ db'.snap = z /\ run'.op = "idle" /\ TypeInv(db', mem', run')
         /\ e.row = db.row /\ e.fills = db.fills /\ e.snap = z
    BY <1>1, <1>6, <1>10, <1>11 DEF Inv, TypeInv, Standing, IdleRun
  <1> HIDE DEF e
  <1>14. BooksInv(z, mem') /\ BehindInv(e)
    BY <1>6, <1>7, <1>12, <1>13, MaybeSaved
  <1>15. BehindInv(db')
    BY <1>11, <1>13, <1>14 DEF BehindInv
  <1>16. good /\ ~bad => db'.snap.ledger = mem'.ledger /\ db'.snap.cursor = mem'.cursor
    BY <1>5, <1>6, <1>12, <1>13 DEF Inv, ControlInv, Saving
  <1>. QED  BY <1>6, <1>13, <1>14, <1>15, <1>16, Abandoned

\* The process a restart makes of a snapshot.
LEMMA RestoredFields ==
    ASSUME NEW s, ReplayLedger(s.ledger, s.at), Within(s.ledger), s.cursor \in 0..Len(Fixture),
           NEW m, m = Restored(s)
    PROVE  /\ Process(m) /\ m.ledger = s.ledger /\ m.cursor = s.cursor
           /\ m.dirty = FALSE /\ m.ckptOk = TRUE /\ m.needs = TRUE
           /\ s.at <= m.clock /\ BooksInv(s, m)
  <1>1. s.at \in Nat /\ Sound(s.ledger)
    BY DEF ReplayLedger
  <1>2. replay_time(s.cursor) \in Nat
    <2> DEFINE c == Max({1, s.cursor})
               G == [at : Nat, quotes : Seq(Quotes)]
    <2>1. Fixture \in Seq(G) /\ Fixture # <<>>
      BY RuntimeAssumption
    <2> HIDE DEF G
    <2>2. /\ Len(Fixture) \in Nat /\ Len(Fixture) # 0 /\ DOMAIN Fixture = 1..Len(Fixture)
          /\ \A g \in DOMAIN Fixture : Fixture[g] \in G
      BY <2>1
    <2>3. 1 \in Int /\ s.cursor \in Int
      OBVIOUS
    <2>4. c \in {1, s.cursor} /\ c >= 1
      BY <2>3, MaxOfTwo
    <2> HIDE DEF c
    <2>5. c \in DOMAIN Fixture
      BY <2>2, <2>4
    <2>6. Fixture[c] \in G
      BY <2>2, <2>5
    <2>. QED  BY <2>6 DEF replay_time, c, G
  <1>3. Max({replay_time(s.cursor), s.at}) \in Nat /\ Max({replay_time(s.cursor), s.at}) >= s.at
    <2> DEFINE a == replay_time(s.cursor)
               b == s.at
    <2>1. a \in Nat /\ b \in Nat /\ a \in Int /\ b \in Int
      BY <1>1, <1>2
    <2> HIDE DEF a, b
    <2>2. Max({a, b}) \in {a, b} /\ Max({a, b}) >= b
      BY <2>1, MaxOfTwo
    <2>3. Max({a, b}) \in Nat
      BY <2>1, <2>2
    <2>. QED  BY <2>2, <2>3 DEF a, b
  <1>4. /\ Process(m) /\ m.ledger = s.ledger /\ m.cursor = s.cursor
        /\ m.clock = Max({replay_time(s.cursor), s.at})
        /\ m.dirty = FALSE /\ m.ckptOk = TRUE /\ m.needs = TRUE
    BY DEF Restored, Process
  <1>5. ReplayLedger(m.ledger, m.clock)
    BY <1>1, <1>3, <1>4, SeenLater
  <1>6. Grows(s.ledger, m.ledger)
    BY <1>1, <1>4, GrowsReflexive
  <1>7. s.at <= m.clock
    BY <1>1, <1>3, <1>4
  <1>. QED  BY <1>4, <1>5, <1>6, <1>7 DEF BooksInv

LEMMA CrashKeeps ==
    ASSUME Inv(db, mem, run), Crash
    PROVE  Inv(db', mem', run')
  <1>1. /\ db' = db /\ mem' = Restored(db.snap)
        /\ run' \in {IdleRun, Operation("refused", "idle", "none")}
    BY DEF Crash
  <1>2. /\ ReplayLedger(db.snap.ledger, db.snap.at) /\ Within(db.snap.ledger)
        /\ db.snap.cursor \in 0..Len(Fixture)
    BY DEF Inv, BooksInv
  <1>3. /\ Process(mem') /\ mem'.ledger = db.snap.ledger /\ mem'.cursor = db.snap.cursor
        /\ mem'.dirty = FALSE /\ mem'.ckptOk = TRUE /\ mem'.needs = TRUE
        /\ BooksInv(db.snap, mem')
    BY <1>1, <1>2, RestoredFields
  <1>4. run'.op \in {"idle", "refused"} /\ TypeInv(db', mem', run')
    BY <1>1, <1>3 DEF Inv, TypeInv, Standing, IdleRun, Operation
  <1>5. BehindInv(db')
    BY <1>1 DEF Inv
  <1>. QED  BY <1>1, <1>3, <1>4, <1>5, Abandoned

-----------------------------------------------------------------------------
\* The invariants of the offline runtime

LEMMA RuntimeInitially == Init => RuntimeInvariant
  <1> SUFFICES ASSUME Init PROVE Inv(db, mem, run)
    BY DEF RuntimeInvariant
  <1> DEFINE s == FirstSnapshot
  <1>1. /\ db = [proposals |-> [p \in Keys |-> NoTerms], evidence |-> [p \in Keys |-> "none"],
                 row |-> [p \in Keys |-> NoRow], denied |-> {}, fills |-> <<>>,
                 outcomes |-> {}, snap |-> s]
        /\ mem = Restored(s) /\ run = IdleRun
    BY DEF Init
  <1>2. s.ledger = NewLedger /\ s.cursor = 0 /\ s.at = Fixture[1].at
    BY DEF FirstSnapshot
  <1> HIDE DEF s
  <1>3. 0 \in 0..Len(Fixture) /\ 0 < Len(Fixture)
    BY RuntimeAssumption
  <1>4. s.at \in Nat
    BY <1>2, <1>3, GroupFacts
  <1>5. ReplayLedger(s.ledger, s.at) /\ Within(s.ledger)
    BY <1>2, <1>4, NewReplayLedger, NewLedgerWithin
  <1>6. /\ Process(mem) /\ mem.ledger = s.ledger /\ mem.cursor = s.cursor
        /\ mem.needs = TRUE /\ BooksInv(s, mem)
    BY <1>1, <1>2, <1>3, <1>5, RestoredFields
  <1>7. NoRow \in RowType /\ NoRow.st = "NONE"
    BY DEF NoRow, RowType
  <1>8. /\ db.proposals = [p \in Keys |-> NoTerms] /\ db.evidence = [p \in Keys |-> "none"]
        /\ db.row = [p \in Keys |-> NoRow] /\ db.fills = <<>> /\ db.snap = s
        /\ run.op = "idle" /\ TypeInv(db, mem, run)
    BY <1>1, <1>6, <1>7 DEF TypeInv, Standing, IdleRun
  <1>9. BehindInv(db)
    <2>1. s.ledger.fills = <<>>
      BY <1>2 DEF NewLedger
    <2>. QED  BY <1>7, <1>8, <2>1 DEF BehindInv
  <1>10. ProposalsInv(db)
    BY <1>8 DEF ProposalsInv
  <1>11. ControlInv(db, mem, run) /\ AdmissionInv(db, mem, run) /\ JournalInv(db, mem, run)
    BY <1>6, <1>8 DEF ControlInv, AdmissionInv, JournalInv
  <1>. QED  BY <1>6, <1>8, <1>9, <1>10, <1>11 DEF Inv

\* Every step of the runtime, faults and restarts included, keeps the invariant.
LEMMA RuntimeStep == RuntimeInvariant /\ [Next]_vars => RuntimeInvariant'
  <1>1. RuntimeInvariant' <=> Inv(db', mem', run')
    BY DEF RuntimeInvariant
  <1> SUFFICES ASSUME Inv(db, mem, run), [Next]_vars PROVE Inv(db', mem', run')
    BY <1>1 DEF RuntimeInvariant
  <1>2. CASE Reconcile
    BY <1>2, ReconcileBeginKeeps, FlushKeeps, SettleKeeps, FirstCheckpointKeeps DEF Reconcile
  <1>3. CASE Sync
    BY <1>3, SyncOrderKeeps, SyncFillKeeps, SyncDoneKeeps, SyncRefusedKeeps DEF Sync
  <1>4. CASE Step
    BY <1>4, StepBeginKeeps, SkipQuoteKeeps, ConsumeQuoteKeeps, QuotePersistedKeeps,
       EventHandledKeeps, CheckpointKeeps, ProposeExitKeeps, ExitReusedKeeps, ExitsDoneKeeps
       DEF Step
  <1>5. CASE Execute
    BY <1>5, DispatchKeeps, ReviewedKeeps, DeniedBeforeIntentKeeps, SaveEvidenceKeeps, PlaceKeeps,
       GateDeniesKeeps, RecordDenialKeeps, OrderPersistedKeeps, SaveReplyKeeps, EndKeeps
       DEF Execute
  <1>6. CASE Review
    BY <1>6, ReviewBeginKeeps, RecordOutcomeKeeps DEF Review
  <1>7. CASE Faults
    BY <1>7, PersistFailsKeeps, AwaitFailsKeeps, InterruptedKeeps, CrashKeeps DEF Faults
  <1>8. CASE UNCHANGED vars
    BY <1>8 DEF vars
  <1>. QED  BY <1>2, <1>3, <1>4, <1>5, <1>6, <1>7, <1>8 DEF Next

LEMMA RuntimeInvariance == Spec => []RuntimeInvariant
  BY RuntimeInitially, RuntimeStep, PTL DEF Spec

\* Whatever write fails and wherever the process dies, the order rows and the fill rows of the
\* execution journal never tell more than the durable ledger snapshot.
THEOREM JournalIsNeverAhead == Spec => []JournalNeverAhead
  <1>1. RuntimeInvariant => JournalNeverAhead
    <2> SUFFICES ASSUME Inv(db, mem, run) PROVE JournalNeverAhead
      BY DEF RuntimeInvariant
    <2> DEFINE s == db.fills
               f == db.snap.ledger.fills
    <2>1. BehindInv(db)
      BY DEF Inv
    <2>2. /\ s \in Seq(FillType) /\ f \in Seq(FillType) /\ Len(s) <= Len(f)
          /\ \A j \in DOMAIN s : s[j] = f[j]
      BY <2>1 DEF Inv, BehindInv, BooksInv, ReplayLedger, Sound, LedgerType
    <2> HIDE DEF s, f
    <2>3. \A j \in DOMAIN s : j \in DOMAIN f
      BY <2>2
    <2>4. ToSet(s) \subseteq ToSet(f)
      BY <2>2, <2>3 DEF ToSet
    <2>. QED  BY <2>1, <2>4 DEF JournalNeverAhead, BehindInv, LedgerOrders, Published, s, f
  <1>. QED  BY <1>1, RuntimeInvariance, PTL

\* Between operations, a runtime that claims a healthy journal and needs no reconciliation has
\* saved its ledger and its cursor, and its journal tells every order, fill and intent of it.
THEOREM HealthyJournalTellsAll == Spec => []HealthyJournalIsComplete
  <1>1. RuntimeInvariant => HealthyJournalIsComplete
    <2> SUFFICES ASSUME Inv(db, mem, run), run.op = "idle", ~mem.needs
                 PROVE  /\ mem.ledger = db.snap.ledger /\ mem.cursor = db.snap.cursor
                        /\ db.fills = mem.ledger.fills
                        /\ RowsAgree /\ Missing = {} /\ unresolved_intents = {}
      BY DEF RuntimeInvariant, HealthyJournalIsComplete, Idle
    <2>1. mem.ledger = db.snap.ledger /\ mem.cursor = db.snap.cursor
      BY DEF Inv, ControlInv, Saving
    <2>2. Whole(db, mem.ledger, Keys)
      BY DEF Inv, JournalInv, Quiet
    <2>3. db.fills = mem.ledger.fills /\ RowsWhole(db, mem.ledger, Keys) /\ Resolved(db, Keys)
      BY <2>2 DEF Whole
    <2>4. RowsAgree
      BY <2>3 DEF RowsWhole, RowsAgree, LedgerOrders
    <2>5. Missing = {}
      BY <2>3 DEF RowsWhole, DeniedRow, Missing, LedgerOrders
    <2>6. unresolved_intents = {}
      BY <2>3 DEF Resolved, unresolved_intents
    <2>. QED  BY <2>1, <2>3, <2>4, <2>5, <2>6
  <1>. QED  BY <1>1, RuntimeInvariance, PTL

\* The account the runtime trades stays within the configured open risk, number of positions
\* and entries of a day, across partial fills, lost answers and restored snapshots.
THEOREM RiskStaysWithinLimits == Spec => []RiskLimitsHold
  <1>1. RuntimeInvariant => RiskLimitsHold
    <2> SUFFICES ASSUME Inv(db, mem, run) PROVE RiskLimitsHold
      BY DEF RuntimeInvariant
    <2> DEFINE L == mem.ledger
               entered == {k \in DOMAIN L.orders : L.orders[k].side = "BUY"}
               waiting == {k \in entered : L.orders[k].st \in OpenStates}
    <2>1. Within(L) /\ Sound(L)
      BY DEF Inv, BooksInv, ReplayLedger
    <2> HIDE DEF L
    <2>2. cost_basis(L) + reserved_buying_power(L) <= Limits.openRisk
      <3>1. RiskOf(L.pos, L.orders) = cost_basis(L) + reserved_buying_power(L)
        BY DEF RiskOf, cost_basis, reserved_buying_power, SetAside
      <3>. QED  BY <2>1, <3>1 DEF Within
    <2>3. Cardinality({i \in Instruments : L.pos[i].qty > 0}
                        \cup {L.orders[k].inst : k \in waiting}) <= Limits.positions
      <3>1. \A k \in DOMAIN L.orders : L.orders[k].inst \in Instruments
        BY <2>1, SoundOrders DEF OrderType
      <3>2. {i \in Instruments : L.pos[i].qty > 0} \cup {L.orders[k].inst : k \in waiting}
              = ExposedTo(L)
        BY <3>1 DEF ExposedTo, Exposed, working
      <3>. QED  BY <2>1, <3>2 DEF Within
    <2>4. ASSUME NEW d \in {Day(L.orders[k].at) : k \in entered}
          PROVE  Cardinality({k \in entered : Day(L.orders[k].at) = d}) <= Limits.entries
      <3>1. d \in Int
        <4>1. \A k \in DOMAIN L.orders : L.orders[k].at \in Nat
          BY <2>1, SoundOrders DEF OrderType
        <4>2. \A t \in Nat : Day(t) \in Int
          BY LedgerAssumption DEF Day
        <4>. QED  BY <4>1, <4>2
      <3>2. {k \in entered : Day(L.orders[k].at) = d} = EnteredOn(L, d)
        BY DEF EnteredOn
      <3>. QED  BY <2>1, <3>1, <3>2 DEF Within
    <2>. QED  BY <2>2, <2>3, <2>4 DEF RiskLimitsHold, L
  <1>. QED  BY <1>1, RuntimeInvariance, PTL

-----------------------------------------------------------------------------
\* The clock, and the restart

\* The time of a checkpoint has not passed the group that comes next, and a completed replay
\* has not passed its last group.
Timely(c, t) == t <= Fixture[IF c = Len(Fixture) THEN c ELSE c + 1].at

\* The step is at work on the group of the cursor.
WithinGroup(r) == r.op = "step" /\ r.pc \in {"quote", "persist", "sync", "event"}

ClockInv(s, m, r) ==
    /\ Timely(m.cursor, m.clock) /\ Timely(s.cursor, s.at)
    /\ WithinGroup(r) => m.clock = Fixture[m.cursor + 1].at

\* A step that moves neither the clock nor the cursor; it may save them.
Stays == /\ mem'.clock = mem.clock /\ mem'.cursor = mem.cursor
         /\ \/ db'.snap = db.snap
            \/ db'.snap.cursor = mem.cursor /\ db'.snap.at = mem.clock
         /\ WithinGroup(run') => WithinGroup(run)

LEMMA StaysTimely ==
    ASSUME ClockInv(db.snap, mem, run), Stays
    PROVE  ClockInv(db'.snap, mem', run')
  BY DEF ClockInv, Stays

\* The records of the state.
LEMMA RecordShapes ==
    ASSUME Inv(db, mem, run)
    PROVE  /\ db = [proposals |-> db.proposals, evidence |-> db.evidence, row |-> db.row,
                    denied |-> db.denied, fills |-> db.fills, outcomes |-> db.outcomes,
                    snap |-> db.snap]
           /\ mem = [ledger |-> mem.ledger, cursor |-> mem.cursor, clock |-> mem.clock,
                     consumed |-> mem.consumed, dirty |-> mem.dirty, ckptOk |-> mem.ckptOk,
                     jh |-> mem.jh, needs |-> mem.needs, init |-> mem.init, latch |-> mem.latch]
           /\ run = [op |-> run.op, pc |-> run.pc, p |-> run.p, i |-> run.i]
  BY DEF Inv, TypeInv, Process

LEMMA FailedStays ==
    ASSUME Inv(db, mem, run), mem' = Failed(mem), run' = IdleRun, db' = db
    PROVE  Stays
  BY FailedFields DEF Stays, WithinGroup, IdleRun

LEMMA ReconcileStays ==
    ASSUME Inv(db, mem, run), Reconcile
    PROVE  Stays
  <1>1. CASE ReconcileBegin
    BY <1>1, RecordShapes DEF ReconcileBegin, Operation, Stays, WithinGroup
  <1>2. CASE Flush
    <2>1. /\ mem' = [[[mem EXCEPT !.jh = FALSE] EXCEPT !.dirty = FALSE] EXCEPT !.ckptOk = TRUE]
          /\ db' = [db EXCEPT !.snap = SnapshotAt([[mem EXCEPT !.jh = FALSE] EXCEPT !.dirty = FALSE],
                                                  [mem EXCEPT !.jh = FALSE].cursor)]
          /\ run' = [run EXCEPT !.pc = "sync"] /\ run.op = "reconcile"
      BY <1>2 DEF Flush, PersistLedger, Persist, Goto, At
    <2>. QED  BY <2>1, RecordShapes DEF SnapshotAt, Stays, WithinGroup
  <1>3. CASE Settle
    BY <1>3, RecordShapes DEF Settle, At, Goto, Finish, IdleRun, Stays, WithinGroup
  <1>4. CASE FirstCheckpoint
    <2>1. /\ mem' = [[mem EXCEPT !.init = TRUE, !.needs = FALSE] EXCEPT !.ckptOk = TRUE]
          /\ db' = [db EXCEPT !.snap = SnapshotAt([mem EXCEPT !.init = TRUE, !.needs = FALSE],
                                                  mem.cursor)]
          /\ run' = IdleRun
      BY <1>4 DEF FirstCheckpoint, Persist, Finish
    <2>. QED  BY <2>1, RecordShapes DEF SnapshotAt, Stays, WithinGroup, IdleRun
  <1>. QED  BY <1>1, <1>2, <1>3, <1>4 DEF Reconcile

LEMMA SyncStays ==
    ASSUME Inv(db, mem, run), Sync
    PROVE  Stays
  <1>1. ASSUME NEW p \in Keys, SyncOrder(p) PROVE Stays
    BY <1>1, RecordShapes DEF SyncOrder, Stays
  <1>2. CASE SyncFill
    BY <1>2, RecordShapes DEF SyncFill, Stays
  <1>3. CASE SyncDone
    BY <1>3, SyncBooks, RecordShapes DEF SyncDone, Goto, Stays, WithinGroup
  <1>4. CASE SyncRefused
    BY <1>4, FailedStays DEF SyncRefused, Finish
  <1>. QED  BY <1>1, <1>2, <1>3, <1>4 DEF Sync

LEMMA ExecuteStays ==
    ASSUME Inv(db, mem, run), Execute
    PROVE  Stays
  <1>1. ASSUME NEW p \in Keys, Dispatch(p) PROVE Stays
    BY <1>1 DEF Dispatch, Operation, Stays, WithinGroup
  <1>2. ASSUME PersistLedger(mem), run.op = "dispatch", NEW pc, run' = [run EXCEPT !.pc = pc]
        PROVE  Stays
    <2>1. /\ mem' = [[mem EXCEPT !.dirty = FALSE] EXCEPT !.ckptOk = TRUE]
          /\ db' = [db EXCEPT !.snap = SnapshotAt([mem EXCEPT !.dirty = FALSE], mem.cursor)]
      BY <1>2 DEF PersistLedger, Persist
    <2>. QED  BY <1>2, <2>1, RecordShapes DEF SnapshotAt, Stays, WithinGroup
  <1>3. CASE Reviewed
    BY <1>2, <1>3 DEF Reviewed, At, Goto
  <1>4. CASE OrderPersisted
    BY <1>2, <1>4 DEF OrderPersisted, At, Goto
  <1>5. CASE DeniedBeforeIntent
    BY <1>5 DEF DeniedBeforeIntent, Finish, IdleRun, Stays, WithinGroup
  <1>6. CASE SaveEvidence
    BY <1>6, RecordShapes DEF SaveEvidence, At, Goto, Stays, WithinGroup
  <1>7. CASE Place
    <2>1. \E L : mem' = [mem EXCEPT !.ledger = L]
      BY <1>7 DEF Place
    <2>2. db' = db /\ run.op = "dispatch" /\ run' = [run EXCEPT !.pc = "persist"]
      BY <1>7 DEF Place, At, Goto
    <2>. QED  BY <2>1, <2>2, RecordShapes DEF Stays, WithinGroup
  <1>8. CASE GateDenies
    BY <1>8, RecordShapes DEF GateDenies, At, Goto, Stays, WithinGroup
  <1>9. CASE RecordDenial
    BY <1>9, RecordShapes DEF RecordDenial, At, Goto, Stays, WithinGroup
  <1>10. CASE SaveReply
    BY <1>10, RecordShapes DEF SaveReply, At, Goto, Stays, WithinGroup
  <1>11. CASE End
    BY <1>11 DEF End, Finish, IdleRun, Stays, WithinGroup
  <1>. QED  BY <1>1, <1>3, <1>4, <1>5, <1>6, <1>7, <1>8, <1>9, <1>10, <1>11 DEF Execute

LEMMA ReviewStays ==
    ASSUME Inv(db, mem, run), Review
    PROVE  Stays
  <1>1. CASE ReviewBegin
    BY <1>1 DEF ReviewBegin, Operation, Stays, WithinGroup
  <1>2. CASE RecordOutcome
    <2>1. /\ mem' = mem /\ run.op = "review" /\ \E o : db' = [db EXCEPT !.outcomes = @ \cup {o}]
          /\ \E pc : run' = [run EXCEPT !.pc = pc]
      BY <1>2 DEF RecordOutcome, At, Goto
    <2>. QED  BY <2>1, RecordShapes DEF Stays, WithinGroup
  <1>. QED  BY <1>1, <1>2 DEF Review

\* The times of the groups.
LEMMA GroupTimes ==
    /\ Len(Fixture) \in Nat \ {0}
    /\ \A g \in 1..Len(Fixture) : Fixture[g].at \in Nat
    /\ \A g \in 1..Len(Fixture) : g > 1 => Fixture[g].at > Fixture[g - 1].at
  <1> DEFINE G == [at : Nat, quotes : Seq(Quotes)]
  <1>1. Fixture \in Seq(G) /\ Fixture # <<>>
    BY RuntimeAssumption
  <1>2. \A x \in G : x.at \in Nat
    OBVIOUS
  <1>3. \A g \in DOMAIN Fixture : g > 1 => Fixture[g].at > Fixture[g - 1].at
    BY RuntimeAssumption
  <1> HIDE DEF G
  <1>4. Len(Fixture) \in Nat \ {0} /\ DOMAIN Fixture = 1..Len(Fixture)
    BY <1>1
  <1>5. \A g \in DOMAIN Fixture : Fixture[g] \in G
    BY <1>1
  <1>. QED  BY <1>2, <1>3, <1>4, <1>5

\* A checkpoint taken at the time of its group.
LEMMA NextTimely ==
    ASSUME NEW c \in 0..Len(Fixture), c < Len(Fixture)
    PROVE  Timely(c + 1, Fixture[c + 1].at) /\ Timely(c, Fixture[c + 1].at)
  <1> DEFINE n == Len(Fixture)
             a == Fixture[c + 1].at
             b == Fixture[c + 2].at
  <1>1. n \in Nat \ {0} /\ c \in 0..n /\ c < n
    BY GroupTimes
  <1>2. a \in Nat
    BY <1>1, GroupTimes
  <1>3. c + 1 # n => a <= b
    <2>1. SUFFICES ASSUME c + 1 # n PROVE a <= b
      OBVIOUS
    <2>2. c + 2 \in 1..n /\ c + 2 > 1 /\ (c + 2) - 1 = c + 1
      BY <1>1, <2>1
    <2>3. b \in Nat /\ b > Fixture[(c + 2) - 1].at
      BY <2>2, GroupTimes
    <2>. QED  BY <1>2, <2>2, <2>3
  <1>4. c # n /\ (c + 1) + 1 = c + 2
    BY <1>1
  <1>5. Timely(c, a)
    BY <1>2, <1>4 DEF Timely
  <1>6. Timely(c + 1, a)
    <2>1. CASE c + 1 = n
      BY <1>2, <2>1 DEF Timely
    <2>2. CASE c + 1 # n
      BY <1>3, <1>4, <2>2 DEF Timely
    <2>. QED  BY <2>1, <2>2
  <1>. QED  BY <1>5, <1>6

\* A process restored from a timely checkpoint is timely, and the replay session takes it.
LEMMA RestoredTimely ==
    ASSUME NEW s, ReplayLedger(s.ledger, s.at), Within(s.ledger), s.cursor \in 0..Len(Fixture),
           Timely(s.cursor, s.at), NEW m, m = Restored(s)
    PROVE  Timely(m.cursor, m.clock) /\ session_accepts(m)
  <1> DEFINE c == s.cursor
             n == Len(Fixture)
             t == s.at
             r == replay_time(c)
             g == Max({1, c})
  <1>1. /\ n \in Nat \ {0} /\ c \in 0..n /\ t \in Nat
    BY GroupTimes DEF ReplayLedger
  <1>2. g \in {1, c} /\ g >= 1 /\ g >= c
    <2>1. 1 \in Int /\ c \in Int
      BY <1>1
    <2>. QED  BY <2>1, MaxOfTwo
  <1>3. r = Fixture[g].at
    BY DEF replay_time
  <1>4. m.clock = Max({r, t}) /\ m.cursor = c
    BY DEF Restored
  <1>5. Timely(c, t)
    OBVIOUS
  <1> HIDE DEF c, n, t, r, g
  <1>6. g \in 1..n
    BY <1>1, <1>2
  <1>7. r \in Nat
    BY <1>3, <1>6, GroupTimes DEF n
  <1>8. Max({r, t}) \in {r, t} /\ Max({r, t}) >= r /\ Max({r, t}) >= t
    <2>1. r \in Int /\ t \in Int
      BY <1>1, <1>7
    <2>. QED  BY <2>1, MaxOfTwo
  <1>9. Timely(c, r) /\ (c = n => r = Fixture[n].at)
    <2>1. CASE c = 0
      <3>1. g = 1 /\ c # n /\ c + 1 = 1
        BY <1>1, <1>2, <2>1
      <3>. QED  BY <1>3, <1>7, <3>1 DEF Timely, n
    <2>2. CASE c # 0
      <3>1. g = c
        BY <1>1, <1>2, <2>2
      <3>2. c - 1 \in 0..n /\ c - 1 < n /\ (c - 1) + 1 = c
        BY <1>1, <2>2
      <3>3. Timely((c - 1) + 1, Fixture[(c - 1) + 1].at)
        BY <3>2, NextTimely DEF n
      <3>. QED  BY <1>3, <3>1, <3>2, <3>3
    <2>. QED  BY <2>1, <2>2
  <1>10. Timely(c, Max({r, t}))
    BY <1>5, <1>8, <1>9
  <1>11. m.clock >= r
    BY <1>4, <1>8
  <1>12. CASE c = n
    <2>1. t <= r
      BY <1>5, <1>9, <1>12 DEF Timely, n
    <2>2. Max({r, t}) = r
      BY <1>1, <1>7, <1>8, <2>1
    <2>. QED  BY <1>4, <1>10, <1>11, <1>12, <2>2 DEF session_accepts, Complete, n, r
  <1>13. CASE c # n
    BY <1>4, <1>10, <1>11, <1>13 DEF session_accepts, Complete, Group, Timely, n, r
  <1>. QED  BY <1>12, <1>13

LEMMA StepTimely ==
    ASSUME Inv(db, mem, run), ClockInv(db.snap, mem, run), Step
    PROVE  ClockInv(db'.snap, mem', run')
  <1>1. CASE StepBegin
    <2> DEFINE c == mem.cursor
    <2>1. /\ db' = db /\ mem' = [mem EXCEPT !.clock = Fixture[c + 1].at] /\ c # Len(Fixture)
      BY <1>1 DEF StepBegin, Complete, Group
    <2>2. c \in 0..Len(Fixture) /\ c < Len(Fixture)
      BY <2>1, GroupTimes DEF Inv, BooksInv
    <2>3. mem'.clock = Fixture[c + 1].at /\ mem'.cursor = c
      BY <2>1, RecordShapes
    <2> HIDE DEF c
    <2>4. Timely(mem'.cursor, mem'.clock)
      BY <2>2, <2>3, NextTimely
    <2>. QED  BY <2>1, <2>3, <2>4 DEF ClockInv
  <1>2. CASE SkipQuote
    BY <1>2, StaysTimely, RecordShapes DEF SkipQuote, At, Goto, Stays, WithinGroup
  <1>3. CASE ConsumeQuote
    <2>1. CASE quote_refused
      <3>1. Stays
        BY <1>3, <2>1, FailedStays DEF ConsumeQuote, Finish
      <3>. QED  BY <3>1, StaysTimely
    <2>2. CASE ~quote_refused
      <3>1. \E L : mem' = [mem EXCEPT !.ledger = L]
        BY <1>3, <2>2 DEF ConsumeQuote
      <3>2. db' = db /\ run.op = "step" /\ run.pc = "quote" /\ run' = [run EXCEPT !.pc = "persist"]
        BY <1>3, <2>2 DEF ConsumeQuote, At, Goto
      <3>3. Stays
        BY <3>1, <3>2, RecordShapes DEF Stays, WithinGroup
      <3>. QED  BY <3>3, StaysTimely
    <2>. QED  BY <2>1, <2>2
  <1>4. CASE QuotePersisted
    <2>1. /\ mem' = [[[mem EXCEPT !.jh = FALSE] EXCEPT !.dirty = FALSE] EXCEPT !.ckptOk = TRUE]
          /\ db' = [db EXCEPT !.snap = SnapshotAt([[mem EXCEPT !.jh = FALSE] EXCEPT !.dirty = FALSE],
                                                  [mem EXCEPT !.jh = FALSE].cursor)]
          /\ run' = [run EXCEPT !.pc = "sync"] /\ run.op = "step" /\ run.pc = "persist"
      BY <1>4 DEF QuotePersisted, PersistLedger, Persist, Goto, At
    <2>2. Stays
      BY <2>1, RecordShapes DEF SnapshotAt, Stays, WithinGroup
    <2>. QED  BY <2>2, StaysTimely
  <1>5. CASE EventHandled
    <2>1. /\ mem' = mem /\ run.op = "step" /\ run.pc = "event" /\ \E f : db' = [db EXCEPT !.proposals = f]
      BY <1>5 DEF EventHandled, At
    <2>2. Stays
      BY <2>1, RecordShapes DEF Stays, WithinGroup
    <2>. QED  BY <2>2, StaysTimely
  <1>6. CASE Checkpoint
    <2> DEFINE c == mem.cursor
    <2>1. /\ mem' = [[mem EXCEPT !.cursor = c + 1] EXCEPT !.ckptOk = TRUE]
          /\ db' = [db EXCEPT !.snap = SnapshotAt([mem EXCEPT !.cursor = c + 1], c + 1)]
          /\ run' = [run EXCEPT !.pc = "exits"] /\ run.op = "step" /\ run.pc = "quote"
      BY <1>6 DEF Checkpoint, Persist, Goto, At
    <2>2. c \in 0..Len(Fixture) /\ c < Len(Fixture) /\ mem.clock = Fixture[c + 1].at
      BY <2>1 DEF Inv, BooksInv, ControlInv, ClockInv, WithinGroup
    <2>3. /\ mem'.clock = mem.clock /\ mem'.cursor = c + 1
          /\ db'.snap.cursor = c + 1 /\ db'.snap.at = mem.clock /\ ~WithinGroup(run')
      BY <2>1, RecordShapes DEF SnapshotAt, WithinGroup
    <2> HIDE DEF c
    <2>4. Timely(c + 1, mem.clock)
      BY <2>2, NextTimely
    <2>. QED  BY <2>3, <2>4 DEF ClockInv
  <1>7. ASSUME NEW i \in Instruments, ProposeExit(i) PROVE ClockInv(db'.snap, mem', run')
    <2>1. Stays
      BY <1>7, RecordShapes DEF ProposeExit, Stays
    <2>. QED  BY <2>1, StaysTimely
  <1>8. CASE ExitReused
    BY <1>8, FailedStays, StaysTimely DEF ExitReused, Finish
  <1>9. CASE ExitsDone
    BY <1>9, StaysTimely, RecordShapes DEF ExitsDone, At, Goto, Stays, WithinGroup
  <1>. QED  BY <1>1, <1>2, <1>3, <1>4, <1>5, <1>6, <1>7, <1>8, <1>9 DEF Step

LEMMA FaultsTimely ==
    ASSUME Inv(db, mem, run), ClockInv(db.snap, mem, run), Faults
    PROVE  ClockInv(db'.snap, mem', run')
  <1>1. CASE PersistFails
    <2> DEFINE c == mem.cursor
               n == Failed(mem)
               z == IF At("step", "quote") THEN c + 1 ELSE c
    <2>1. /\ run' = IdleRun
          /\ \E s \in {db.snap, SnapshotAt(mem, z)} : db' = [db EXCEPT !.snap = s]
      BY <1>1 DEF PersistFails, Finish
    <2>2. mem'.clock = mem.clock /\ mem'.cursor = c
      <3>1. n = Failed(mem)
        OBVIOUS
      <3>2. mem' = [n EXCEPT !.ckptOk = FALSE, !.dirty = @ \/ <<run.op, run.pc>> \in LedgerPersists]
        BY <1>1 DEF PersistFails
      <3> HIDE DEF n
      <3>3. Process(n) /\ n.cursor = mem.cursor /\ n.clock = mem.clock
        BY <3>1, FailedFields
      <3>. QED  BY <3>2, <3>3 DEF Process
    <2>3. c \in 0..Len(Fixture)
      BY DEF Inv, BooksInv
    <2>4. At("step", "quote") => c < Len(Fixture) /\ mem.clock = Fixture[c + 1].at
      BY DEF Inv, ControlInv, ClockInv, WithinGroup, At
    <2>5. Timely(c, mem.clock) /\ Timely(db.snap.cursor, db.snap.at)
      BY DEF ClockInv
    <2> HIDE DEF c, n
    <2>6. Timely(z, mem.clock)
      BY <2>3, <2>4, <2>5, NextTimely
    <2> HIDE DEF z
    <2>7. PICK s \in {db.snap, SnapshotAt(mem, z)} : db' = [db EXCEPT !.snap = s]
      BY <2>1
    <2>8. db'.snap = s
      BY <2>7, RecordShapes
    <2>9. Timely(s.cursor, s.at)
      BY <2>5, <2>6 DEF SnapshotAt
    <2>. QED  BY <2>1, <2>2, <2>5, <2>8, <2>9 DEF ClockInv, WithinGroup, IdleRun
  <1>2. CASE AwaitFails
    BY <1>2, FailedStays, StaysTimely DEF AwaitFails, Finish
  <1>3. CASE Interrupted
    <2> DEFINE n == Failed(mem)
    <2>1. n = Failed(mem)
      OBVIOUS
    <2>2. /\ \E l, a, b : mem' = [n EXCEPT !.latch = l, !.ckptOk = a, !.dirty = b]
          /\ run' = IdleRun
          /\ \E s \in {db.snap, SnapshotAt(mem, mem.cursor)} : \E r :
                db' = [db EXCEPT !.snap = IF run.pc = "persist" THEN s ELSE @, !.row[run.p] = r]
      BY <1>3 DEF Interrupted, Finish
    <2> HIDE DEF n
    <2>3. Process(n) /\ n.cursor = mem.cursor /\ n.clock = mem.clock
      BY <2>1, FailedFields
    <2>4. mem'.clock = mem.clock /\ mem'.cursor = mem.cursor
      BY <2>2, <2>3 DEF Process
    <2>5. PICK s \in {db.snap, SnapshotAt(mem, mem.cursor)} : \E r :
             db' = [db EXCEPT !.snap = IF run.pc = "persist" THEN s ELSE @, !.row[run.p] = r]
      BY <2>2
    <2>6. db'.snap = db.snap \/ db'.snap = SnapshotAt(mem, mem.cursor)
      BY <2>5, RecordShapes
    <2>7. Stays
      BY <2>2, <2>4, <2>6 DEF Stays, SnapshotAt, WithinGroup, IdleRun
    <2>. QED  BY <2>7, StaysTimely
  <1>4. CASE Crash
    <2>1. /\ db' = db /\ mem' = Restored(db.snap)
          /\ run' \in {IdleRun, Operation("refused", "idle", "none")}
      BY <1>4 DEF Crash
    <2>2. /\ ReplayLedger(db.snap.ledger, db.snap.at) /\ Within(db.snap.ledger)
          /\ db.snap.cursor \in 0..Len(Fixture) /\ Timely(db.snap.cursor, db.snap.at)
      BY DEF Inv, BooksInv, ClockInv
    <2>3. Timely(mem'.cursor, mem'.clock)
      BY <2>1, <2>2, RestoredTimely
    <2>. QED  BY <2>1, <2>2, <2>3 DEF ClockInv, WithinGroup, IdleRun, Operation
  <1>. QED  BY <1>1, <1>2, <1>3, <1>4 DEF Faults

ClockInvariant == ClockInv(db.snap, mem, run)

LEMMA ClockInvariance == Spec => []ClockInvariant
  <1>1. Init => ClockInvariant
    <2> SUFFICES ASSUME Init PROVE ClockInv(db.snap, mem, run)
      BY DEF ClockInvariant
    <2> DEFINE s == FirstSnapshot
    <2>1. db.snap = s /\ mem = Restored(s) /\ run = IdleRun
      BY DEF Init
    <2>2. s.cursor = 0 /\ s.at = Fixture[1].at
      BY DEF FirstSnapshot
    <2> HIDE DEF s
    <2>3. 0 \in 0..Len(Fixture) /\ 0 < Len(Fixture) /\ 0 + 1 = 1
      BY GroupTimes
    <2>4. Timely(s.cursor, s.at)
      BY <2>2, <2>3, NextTimely
    <2>5. ReplayLedger(s.ledger, s.at) /\ Within(s.ledger) /\ s.cursor \in 0..Len(Fixture)
      BY <2>1, RuntimeInitially DEF RuntimeInvariant, Inv, BooksInv
    <2>6. Timely(mem.cursor, mem.clock)
      BY <2>1, <2>4, <2>5, RestoredTimely
    <2>. QED  BY <2>1, <2>4, <2>6 DEF ClockInv, WithinGroup, IdleRun
  <1>2. RuntimeInvariant /\ ClockInvariant /\ [Next]_vars => ClockInvariant'
    <2>1. ClockInvariant' <=> ClockInv(db'.snap, mem', run')
      BY DEF ClockInvariant
    <2> SUFFICES ASSUME Inv(db, mem, run), ClockInv(db.snap, mem, run), [Next]_vars
                 PROVE  ClockInv(db'.snap, mem', run')
      BY <2>1 DEF ClockInvariant, RuntimeInvariant
    <2>2. CASE Reconcile \/ Sync \/ Execute \/ Review
      BY <2>2, ReconcileStays, SyncStays, ExecuteStays, ReviewStays, StaysTimely
    <2>3. CASE UNCHANGED vars
      BY <2>3 DEF vars
    <2>. QED  BY <2>2, <2>3, StepTimely, FaultsTimely DEF Next
  <1>. QED  BY <1>1, <1>2, RuntimeInvariance, PTL DEF Spec

\* At every state a process may be killed in, OfflineRuntime.create takes up the snapshot that is
\* durable: restore_state and the replay session both accept it.
THEOREM RestartSucceeds == Spec => []RestartIsAccepted
  <1>1. RuntimeInvariant /\ ClockInvariant => RestartIsAccepted
    <2> SUFFICES ASSUME Inv(db, mem, run), ClockInv(db.snap, mem, run) PROVE RestartIsAccepted
      BY DEF RuntimeInvariant, ClockInvariant
    <2> DEFINE s == db.snap
               m == Restored(s)
    <2>1. /\ ReplayLedger(s.ledger, s.at) /\ Within(s.ledger) /\ s.cursor \in 0..Len(Fixture)
          /\ Timely(s.cursor, s.at)
      BY DEF Inv, BooksInv, ClockInv
    <2>2. m = Restored(s)
      OBVIOUS
    <2> HIDE DEF s, m
    <2>3. s.at <= m.clock /\ session_accepts(m)
      BY <2>1, <2>2, RestoredFields, RestoredTimely
    <2>4. /\ s.at \in Nat /\ Sound(s.ledger) /\ SeenBy(s.ledger, s.at)
          /\ KeysSound(s.ledger) /\ FillsSound(s.ledger, Replay)
      BY <2>1 DEF ReplayLedger
    <2>5. invariant_discrepancies(s.ledger) = {}
      BY <2>4, NoDiscrepancy
    <2>6. \A i \in Instruments : s.ledger.quotes[i] # NoQuote =>
             s.ledger.quotes[i].obs <= s.at /\ s.ledger.quotes[i].eff <= s.at
      BY <2>4 DEF SeenBy
    <2>7. \A p \in LedgerOrders(s.ledger) : s.ledger.keys[p] \in DOMAIN s.ledger.orders
      BY <2>4 DEF KeysSound, LedgerOrders
    <2>8. \A j \in DOMAIN s.ledger.fills : s.ledger.fills[j].order \in DOMAIN s.ledger.orders
      BY <2>4 DEF FillsSound
    <2>9. ledger_accepts(s, m)
      BY <2>3, <2>5, <2>6, <2>7, <2>8 DEF ledger_accepts
    <2>. QED  BY <2>3, <2>9 DEF RestartIsAccepted, s, m
  <1>. QED  BY <1>1, RuntimeInvariance, ClockInvariance, PTL

-----------------------------------------------------------------------------
\* The trades a review derives from the fills

\* The review of a journal, fill by fill.
Reviews(s, i, h) ==
    h = [n \in 0..Len(s) |-> IF n = 0 THEN NoTrade ELSE take(h[n - 1], s[n], i)]

LEMMA ReviewsUnique ==
    ASSUME NEW s \in Seq(FillType), NEW i, NEW g, NEW h, Reviews(s, i, g), Reviews(s, i, h)
    PROVE  g[Len(s)] = h[Len(s)]
  <1> DEFINE n == Len(s)
             Bad == {k \in 0..n : g[k] # h[k]}
  <1>1. n \in Nat
    OBVIOUS
  <1>2. \A k \in 0..n : /\ g[k] = IF k = 0 THEN NoTrade ELSE take(g[k - 1], s[k], i)
                        /\ h[k] = IF k = 0 THEN NoTrade ELSE take(h[k - 1], s[k], i)
    <2>1. \A k \in 0..n : g[k] = IF k = 0 THEN NoTrade ELSE take(g[k - 1], s[k], i)
      BY DEF Reviews
    <2>2. \A k \in 0..n : h[k] = IF k = 0 THEN NoTrade ELSE take(h[k - 1], s[k], i)
      BY DEF Reviews
    <2>. QED  BY <2>1, <2>2
  <1> HIDE DEF n
  <1>3. SUFFICES ASSUME Bad # {} PROVE FALSE
    <2>1. n \in 0..n
      BY <1>1
    <2>. QED  BY <2>1 DEF n
  <1>4. PICK k \in Bad : \A d \in Bad : k <= d
    <2>1. Bad \in SUBSET Nat
      BY <1>1
    <2> HIDE DEF Bad
    <2>. QED  BY <1>3, <2>1, LeastNumber
  <1>5. k \in 0..n /\ g[k] # h[k]
    BY <1>4
  <1>6. k # 0
    BY <1>2, <1>5
  <1>7. k - 1 \in 0..n /\ ~(k <= k - 1)
    BY <1>1, <1>5, <1>6
  <1>8. g[k - 1] = h[k - 1]
    BY <1>4, <1>7
  <1>. QED  BY <1>2, <1>5, <1>6, <1>8

\* A review of a journal that has one more fill.
LEMMA ReviewsAppend ==
    ASSUME NEW s \in Seq(FillType), NEW f \in FillType, NEW i, NEW h, Reviews(s, i, h)
    PROVE  \E g : Reviews(Append(s, f), i, g) /\ g[Len(s) + 1] = take(h[Len(s)], f, i)
  <1> DEFINE n == Len(s)
             u == Append(s, f)
             g == [k \in 0..(n + 1) |-> IF k = n + 1 THEN take(h[n], f, i) ELSE h[k]]
  <1>1. n \in Nat /\ Len(u) = n + 1 /\ u[n + 1] = f /\ \A k \in 1..n : u[k] = s[k]
    BY AppendProperties
  <1>2. \A k \in 0..n : h[k] = IF k = 0 THEN NoTrade ELSE take(h[k - 1], s[k], i)
    BY DEF Reviews
  <1> HIDE DEF n, u
  <1>3. g[n + 1] = take(h[n], f, i) /\ \A k \in 0..n : g[k] = h[k]
    BY <1>1
  <1>4. \A k \in 0..(n + 1) : g[k] = IF k = 0 THEN NoTrade ELSE take(g[k - 1], u[k], i)
    <2> SUFFICES ASSUME NEW k \in 0..(n + 1)
                 PROVE  g[k] = IF k = 0 THEN NoTrade ELSE take(g[k - 1], u[k], i)
      OBVIOUS
    <2> HIDE DEF g
    <2>1. CASE k = n + 1
      <3>1. k # 0 /\ k - 1 = n /\ n \in 0..n
        BY <1>1, <2>1
      <3>. QED  BY <1>1, <1>3, <2>1, <3>1
    <2>2. CASE k = 0
      <3>1. 0 \in 0..n
        BY <1>1
      <3>. QED  BY <1>2, <1>3, <2>2, <3>1
    <2>3. CASE k # 0 /\ k # n + 1
      <3>1. k \in 0..n /\ k - 1 \in 0..n /\ k \in 1..n
        BY <1>1, <2>3
      <3>. QED  BY <1>1, <1>2, <1>3, <2>3, <3>1
    <2>. QED  BY <2>1, <2>2, <2>3
  <1>5. g = [k \in 0..(n + 1) |-> g[k]]
    OBVIOUS
  <1> HIDE DEF g
  <1>6. Reviews(u, i, g)
    <2>1. g = [k \in 0..(n + 1) |-> IF k = 0 THEN NoTrade ELSE take(g[k - 1], u[k], i)]
      BY <1>4, <1>5, Zenon
    <2>. QED  BY <1>1, <2>1 DEF Reviews
  <1>. QED  BY <1>3, <1>6 DEF n, u

\* Every journal can be reviewed: the shortest one that cannot would be one fill longer than
\* one that can.
LEMMA ReviewsExist ==
    ASSUME NEW s \in Seq(FillType), NEW i
    PROVE  \E h : Reviews(s, i, h)
  <1> DEFINE n == Len(s)
             part(m) == SubSeq(s, 1, m)
             Bad == {m \in 0..n : ~\E h : Reviews(part(m), i, h)}
  <1>1. n \in Nat /\ part(n) = s
    OBVIOUS
  <1>2. \A m \in 0..n : part(m) \in Seq(FillType) /\ Len(part(m)) = m
    OBVIOUS
  <1> SUFFICES ASSUME Bad # {} PROVE FALSE
    <2>1. n \in 0..n
      BY <1>1
    <2>2. n \notin Bad => \E h : Reviews(part(n), i, h)
      BY <2>1
    <2>. QED  BY <1>1, <2>2
  <1> HIDE DEF n
  <1>3. PICK m \in Bad : \A d \in Bad : m <= d
    <2>1. Bad \in SUBSET Nat
      BY <1>1
    <2> HIDE DEF Bad
    <2>. QED  BY <2>1, LeastNumber
  <1>4. m \in 0..n /\ ~\E h : Reviews(part(m), i, h)
    BY <1>3
  <1>5. m # 0
    <2> DEFINE h == [k \in 0..0 |-> NoTrade]
    <2>1. SUFFICES ASSUME m = 0 PROVE FALSE
      OBVIOUS
    <2>2. h = [k \in 0..0 |-> IF k = 0 THEN NoTrade ELSE take(h[k - 1], part(0)[k], i)]
      OBVIOUS
    <2>3. Len(part(0)) = 0
      BY <1>2, <1>4, <2>1
    <2> HIDE DEF h, part
    <2>4. Reviews(part(0), i, h)
      BY <2>2, <2>3 DEF Reviews
    <2>. QED  BY <1>4, <2>1, <2>4
  <1>6. m - 1 \in 0..n /\ ~(m <= m - 1) /\ m \in 1..n
    BY <1>1, <1>4, <1>5
  <1>7. PICK h : Reviews(part(m - 1), i, h)
    BY <1>3, <1>6
  <1>8. part(m) = Append(part(m - 1), s[m]) /\ s[m] \in FillType
    BY <1>6 DEF n
  <1>9. part(m - 1) \in Seq(FillType)
    BY <1>2, <1>6
  <1> HIDE DEF part
  <1>. QED  BY <1>4, <1>7, <1>8, <1>9, ReviewsAppend

\* What a review knows of an instrument, before the first fill and after one more.
LEMMA CyclesEmpty ==
    ASSUME NEW i
    PROVE  derive_cycles(<<>>, i) = NoTrade
  <1>1. <<>> \in Seq(FillType) /\ Len(<<>>) = 0
    OBVIOUS
  <1> DEFINE h == CHOOSE h : Reviews(<<>>, i, h)
  <1>2. derive_cycles(<<>>, i) = h[0]
    BY <1>1 DEF derive_cycles, Reviews
  <1>3. Reviews(<<>>, i, h)
    BY <1>1, ReviewsExist, Zenon
  <1> HIDE DEF h
  <1>. QED  BY <1>1, <1>2, <1>3 DEF Reviews

LEMMA CyclesAppend ==
    ASSUME NEW s \in Seq(FillType), NEW f \in FillType, NEW i
    PROVE  derive_cycles(Append(s, f), i) = take(derive_cycles(s, i), f, i)
  <1> DEFINE u == Append(s, f)
             h == CHOOSE x : Reviews(s, i, x)
             g == CHOOSE x : Reviews(u, i, x)
  <1>1. u \in Seq(FillType) /\ Len(u) = Len(s) + 1
    BY AppendProperties
  <1>2. derive_cycles(s, i) = h[Len(s)]
    BY DEF derive_cycles, Reviews
  <1>3. derive_cycles(u, i) = g[Len(u)]
    <2> HIDE DEF u
    <2>. QED  BY DEF derive_cycles, Reviews
  <1>4. \E x : Reviews(s, i, x)
    BY ReviewsExist
  <1>5. \E x : Reviews(u, i, x)
    <2> HIDE DEF u
    <2>. QED  BY <1>1, ReviewsExist
  <1>6. Reviews(s, i, h)
    BY <1>4, Zenon
  <1>7. Reviews(u, i, g)
    BY <1>5, Zenon
  <1> HIDE DEF g, h
  <1>8. PICK x : Reviews(u, i, x) /\ x[Len(s) + 1] = take(h[Len(s)], f, i)
    BY <1>6, ReviewsAppend
  <1>9. g[Len(u)] = x[Len(u)]
    <2> HIDE DEF u
    <2>. QED  BY <1>1, <1>7, <1>8, ReviewsUnique
  <1>. QED  BY <1>1, <1>2, <1>3, <1>8, <1>9

CycleType == [balance : Int, cost : Int, proceeds : Int, fills : Seq(FillType)]
OutcomeType == [id : FillType, inst : Instruments, pnl : Int, evidence : Seq(FillType)]
TradeType == [cycle : CycleType, done : SUBSET OutcomeType, oversold : BOOLEAN]

\* The review of the fills seen so far: a completed trade is known by a fill of its own.
TradeSound(a, i, seen) ==
    /\ a \in TradeType
    /\ \A x \in ToSet(a.cycle.fills) : x \in seen /\ x.inst = i
    /\ \A o \in a.done : o.id \in seen /\ o.id.inst = i /\ o.id \notin ToSet(a.cycle.fills)
    /\ \A o, r \in a.done : o.id = r.id => o = r

\* The open part of a trade is the position.
Holding(a, n) == a \in TradeType /\ a.cycle.balance = n /\ a.oversold = FALSE

LEMMA ToSetAppend ==
    ASSUME NEW s \in Seq(FillType), NEW f \in FillType
    PROVE  /\ \A x : x \in ToSet(Append(s, f)) <=> x \in ToSet(s) \/ x = f
           /\ Append(s, f) \in Seq(FillType)
           /\ Head(Append(s, f)) \in ToSet(Append(s, f))
  <1> DEFINE u == Append(s, f)
             n == Len(s) + 1
  <1>1. /\ u \in Seq(FillType) /\ u[n] = f /\ n \in DOMAIN u
        /\ \A j \in DOMAIN s : j \in DOMAIN u /\ u[j] = s[j]
        /\ \A j \in DOMAIN u : j = n \/ j \in DOMAIN s
    BY AppendProperties
  <1>2. Head(u) = u[1] /\ 1 \in DOMAIN u
    BY AppendProperties
  <1> HIDE DEF u, n
  <1>3. \A x : x \in ToSet(u) <=> x \in ToSet(s) \/ x = f
    BY <1>1 DEF ToSet
  <1>4. Head(u) \in ToSet(u)
    BY <1>2 DEF ToSet
  <1>. QED  BY <1>1, <1>3, <1>4 DEF u

LEMMA NoTradeSound ==
    ASSUME NEW i
    PROVE  TradeSound(NoTrade, i, {}) /\ Holding(NoTrade, 0)
  <1>1. flat \in CycleType /\ flat.fills = <<>> /\ flat.balance = 0
    BY DEF flat, CycleType
  <1>2. /\ NoTrade.cycle = flat /\ NoTrade.done = {} /\ NoTrade.oversold = FALSE
        /\ NoTrade \in TradeType
    BY <1>1 DEF NoTrade, TradeType
  <1>3. ToSet(flat.fills) = {}
    BY <1>1 DEF ToSet
  <1>. QED  BY <1>1, <1>2, <1>3 DEF TradeSound, Holding

\* The cycle after one more fill.
LEMMA Extended ==
    ASSUME NEW a \in TradeType, NEW f \in FillType
    PROVE  LET c == extend(a.cycle, f)
           IN  /\ c \in CycleType
               /\ c.fills = Append(a.cycle.fills, f)
               /\ c.balance = IF f.side = "BUY" THEN a.cycle.balance + f.qty
                              ELSE a.cycle.balance - f.qty
  <1> DEFINE c == extend(a.cycle, f)
             w == f.price * f.qty
             s == Append(a.cycle.fills, f)
             T == Seq(FillType)
  <1>1. f.qty \in Nat /\ f.price \in Nat
    BY DEF FillType
  <1>2. w \in Nat
    BY <1>1
  <1>3. /\ a.cycle \in [balance : Int, cost : Int, proceeds : Int, fills : T]
        /\ a.cycle.fills \in Seq(FillType)
    BY DEF TradeType, CycleType
  <1>4. s \in T
    BY <1>3, ToSetAppend
  <1> DEFINE C == a.cycle
             more == C.balance + f.qty
             less == C.balance - f.qty
             cost == C.cost + w
             gain == C.proceeds + w
  <1>5. more \in Int /\ less \in Int /\ cost \in Int /\ gain \in Int
    BY <1>1, <1>2, <1>3
  <1>6. CASE f.side = "BUY"
    <2>1. c = [C EXCEPT !.balance = more, !.cost = cost, !.fills = s]
      BY <1>3, <1>6 DEF extend
    <2> HIDE DEF c, w, s, T, C, more, cost
    <2>2. /\ c \in [balance : Int, cost : Int, proceeds : Int, fills : T]
          /\ c.fills = s /\ c.balance = more
      BY <1>3, <1>4, <1>5, <2>1 DEF C
    <2>. QED  BY <1>6, <2>2 DEF c, s, T, C, more, CycleType
  <1>7. CASE f.side # "BUY"
    <2>1. c = [C EXCEPT !.balance = less, !.proceeds = gain, !.fills = s]
      BY <1>3, <1>7 DEF extend
    <2> HIDE DEF c, w, s, T, C, less, gain
    <2>2. /\ c \in [balance : Int, cost : Int, proceeds : Int, fills : T]
          /\ c.fills = s /\ c.balance = less
      BY <1>3, <1>4, <1>5, <2>1 DEF C
    <2>. QED  BY <1>7, <2>2 DEF c, s, T, C, less, CycleType
  <1>. QED  BY <1>6, <1>7

\* What one more fill makes of a trade: an oversell, a completed trade, or a longer one.
Advanced(a, c, b) ==
    /\ b \in TradeType
    /\ \/ c.balance < 0 /\ b.cycle = a.cycle /\ b.done = a.done /\ b.oversold
       \/ c.balance = 0 /\ b.cycle = flat /\ b.done = a.done \union {outcome(c)}
                        /\ b.oversold = a.oversold
       \/ c.balance > 0 /\ b.cycle = c /\ b.done = a.done /\ b.oversold = a.oversold

LEMMA Advances ==
    ASSUME NEW a \in TradeType, NEW f \in FillType
    PROVE  Advanced(a, extend(a.cycle, f), advance(a, f))
  <1> DEFINE c == extend(a.cycle, f)
             b == advance(a, f)
             o == outcome(c)
             y == IF c.balance < 0 THEN a.cycle ELSE IF c.balance = 0 THEN flat ELSE c
             d == a.done \union (IF c.balance = 0 THEN {o} ELSE {})
             v == a.oversold \/ c.balance < 0
  <1>1. c \in CycleType /\ c.balance \in Int /\ c.cost \in Int /\ c.proceeds \in Int
        /\ c.fills = Append(a.cycle.fills, f) /\ a.cycle.fills \in Seq(FillType)
    BY Extended DEF CycleType, TradeType
  <1>2. o \in OutcomeType
    <2>1. c.fills \in Seq(FillType) /\ Head(c.fills) \in FillType
      BY <1>1, AppendProperties
    <2>2. \A x \in FillType : x.inst \in Instruments
      BY DEF FillType
    <2> HIDE DEF c
    <2>3. c.proceeds - c.cost \in Int
      BY <1>1
    <2>. QED  BY <2>1, <2>2, <2>3 DEF outcome, OutcomeType
  <1>3. a.cycle \in CycleType /\ a.done \in SUBSET OutcomeType /\ a.oversold \in BOOLEAN
    <2> DEFINE P == SUBSET OutcomeType
    <2>1. a \in [cycle : CycleType, done : P, oversold : BOOLEAN]
      BY DEF TradeType
    <2> HIDE DEF P
    <2>2. a.cycle \in CycleType /\ a.done \in P
      BY <2>1
    <2>3. a.oversold \in BOOLEAN
      BY <2>1
    <2>. QED  BY <2>2, <2>3, Zenon DEF P
  <1>4. flat \in CycleType
    BY DEF flat, CycleType
  <1>5. b = [cycle |-> y, done |-> d, oversold |-> v]
    BY DEF advance
  <1> HIDE DEF c, o
  <1>6. y \in CycleType
    BY <1>1, <1>3, <1>4
  <1>7. d \in SUBSET OutcomeType
    <2> DEFINE q == a.done
               e == IF c.balance = 0 THEN {o} ELSE {}
    <2>1. \A x \in q : x \in OutcomeType
      BY <1>3
    <2>2. \A x \in e : x \in OutcomeType
      BY <1>2
    <2> HIDE DEF q, e
    <2>3. \A x \in q \union e : x \in OutcomeType
      BY <2>1, <2>2
    <2>. QED  BY <2>3, Zenon DEF q, e
  <1>8. v \in BOOLEAN
    BY Zenon
  <1> DEFINE P == SUBSET OutcomeType
  <1>9. b \in [cycle : CycleType, done : P, oversold : BOOLEAN]
    <2> HIDE DEF b, y, d, v, P
    <2>1. d \in P
      BY <1>7 DEF P
    <2>. QED  BY ONLY <1>5, <1>6, <1>8, <2>1
  <1>10. b.cycle = y /\ b.done = d /\ b.oversold = v
    <2> HIDE DEF b, y, d, v
    <2>. QED  BY ONLY <1>5
  <1>11. b \in TradeType
    BY <1>9 DEF TradeType
  <1> HIDE DEF b
  <1>12. CASE c.balance < 0
    <2>1. b.cycle = a.cycle /\ b.done = a.done
      BY <1>1, <1>10, <1>12
    <2>2. b.oversold
      BY <1>10, <1>12, Zenon
    <2>. QED  BY <1>11, <1>12, <2>1, <2>2 DEF Advanced, b, c
  <1>13. CASE c.balance = 0
    <2>1. b.cycle = flat /\ b.done = a.done \union {o}
      BY <1>1, <1>10, <1>13
    <2>2. b.oversold = a.oversold
      <3>1. ~(c.balance < 0)
        BY <1>13
      <3>. QED  BY <1>3, <1>10, <3>1, Zenon
    <2>. QED  BY <1>11, <1>13, <2>1, <2>2 DEF Advanced, b, c, o
  <1>14. CASE c.balance > 0
    <2>1. b.cycle = c /\ b.done = a.done
      BY <1>1, <1>10, <1>14
    <2>2. b.oversold = a.oversold
      <3>1. ~(c.balance < 0)
        BY <1>1, <1>14
      <3>. QED  BY <1>3, <1>10, <3>1, Zenon
    <2>. QED  BY <1>11, <1>14, <2>1, <2>2 DEF Advanced, b, c
  <1>. QED  BY <1>1, <1>12, <1>13, <1>14

\* A fill not seen before leaves every completed trade what it is.
LEMMA TradeTaken ==
    ASSUME NEW i, NEW seen, NEW a, TradeSound(a, i, seen), NEW f \in FillType, f \notin seen
    PROVE  /\ TradeSound(take(a, f, i), i, seen \union {f})
           /\ a.done \subseteq take(a, f, i).done
  <1> DEFINE c == extend(a.cycle, f)
             b == take(a, f, i)
             s == a.cycle.fills
  <1>1. /\ a \in TradeType /\ s \in Seq(FillType)
        /\ \A x \in ToSet(s) : x \in seen /\ x.inst = i
        /\ \A o \in a.done : o.id \in seen /\ o.id.inst = i /\ o.id \notin ToSet(s)
        /\ \A o, r \in a.done : o.id = r.id => o = r
    BY DEF TradeSound, TradeType, CycleType
  <1>2. CASE f.inst # i
    <2>1. b = a
      BY <1>2 DEF take
    <2> HIDE DEF b
    <2>. QED  BY <1>1, <2>1 DEF TradeSound, b
  <1>3. CASE f.inst = i
    <2>1. b = advance(a, f)
      BY <1>3 DEF take
    <2>2. c.fills = Append(s, f)
      BY <1>1, Extended
    <2>3. Advanced(a, c, b)
      BY <1>1, <2>1, Advances
    <2>4. /\ \A x : x \in ToSet(c.fills) <=> x \in ToSet(s) \/ x = f
          /\ Head(c.fills) \in ToSet(c.fills)
      BY <1>1, <2>2, ToSetAppend
    <2>5. ToSet(flat.fills) = {}
      BY DEF flat, ToSet
    <2> HIDE DEF b, c
    <2>6. b \in TradeType
      BY <2>3 DEF Advanced
    <2>7. CASE b.cycle = a.cycle /\ b.done = a.done
      BY <1>1, <2>6, <2>7 DEF TradeSound, b
    <2>8. CASE b.cycle = c /\ b.done = a.done
      BY <1>1, <1>3, <2>4, <2>6, <2>8 DEF TradeSound, b
    <2>9. CASE b.cycle = flat /\ b.done = a.done \union {outcome(c)}
      <3> DEFINE o == outcome(c)
      <3>1. o.id = Head(c.fills)
        BY DEF outcome
      <3>2. b.cycle = flat /\ b.done = a.done \union {o}
        BY <2>9
      <3> HIDE DEF o
      <3>3. o.id \in seen \union {f} /\ o.id.inst = i
        BY <1>1, <1>3, <2>4, <3>1
      <3>4. \A r \in a.done : r.id # o.id
        BY <1>1, <2>4, <3>1
      <3>. QED  BY <1>1, <2>5, <2>6, <3>2, <3>3, <3>4 DEF TradeSound, b
    <2>. QED  BY <2>3, <2>7, <2>8, <2>9 DEF Advanced
  <1>. QED  BY <1>2, <1>3

\* A fill the position covers is no oversell.
LEMMA HoldingTaken ==
    ASSUME NEW a, NEW n \in Nat, Holding(a, n), NEW f \in FillType,
           f.side = "SELL" => f.qty <= n
    PROVE  Holding(take(a, f, f.inst), IF f.side = "BUY" THEN n + f.qty ELSE n - f.qty)
  <1> DEFINE c == extend(a.cycle, f)
             b == take(a, f, f.inst)
             m == IF f.side = "BUY" THEN n + f.qty ELSE n - f.qty
  <1>1. a \in TradeType /\ a.cycle.balance = n /\ a.oversold = FALSE
    BY DEF Holding
  <1>2. f.qty \in Nat \ {0} /\ f.side \in {"BUY", "SELL"}
    BY DEF FillType, Sides
  <1>3. c.balance = m
    BY <1>1, Extended
  <1>4. m \in Nat
    BY <1>2
  <1>5. Advanced(a, c, b)
    BY <1>1, Advances DEF take
  <1>6. flat.balance = 0
    BY DEF flat
  <1> HIDE DEF b, c, m
  <1>. QED  BY <1>1, <1>3, <1>4, <1>5, <1>6 DEF Advanced, Holding, b, m

-----------------------------------------------------------------------------
\* What the fills give an order

LEMMA FilledByFunction ==
    ASSUME NEW s \in Seq(FillType), NEW p
    PROVE  /\ [j \in DOMAIN s |-> IF s[j].key = p THEN s[j].qty ELSE 0] \in [DOMAIN s -> Int]
           /\ IsFiniteSet(DOMAIN s)
  <1>1. DOMAIN s = 1..Len(s) /\ Len(s) \in Nat
    OBVIOUS
  <1>2. IsFiniteSet(DOMAIN s)
    BY <1>1, FS_Interval
  <1>3. \A x \in FillType : x.qty \in Int
    BY DEF FillType
  <1>4. \A j \in DOMAIN s : s[j] \in FillType
    OBVIOUS
  <1>. QED  BY <1>2, <1>3, <1>4

LEMMA FilledByAppend ==
    ASSUME NEW s \in Seq(FillType), NEW f \in FillType, NEW p
    PROVE  filled_by(Append(s, f), p) = filled_by(s, p) + (IF f.key = p THEN f.qty ELSE 0)
  <1> DEFINE u == Append(s, f)
             n == Len(s) + 1
             D == DOMAIN s
             E == DOMAIN u
             a == [j \in D |-> IF s[j].key = p THEN s[j].qty ELSE 0]
             b == [j \in E |-> IF u[j].key = p THEN u[j].qty ELSE 0]
  <1>1. /\ u \in Seq(FillType) /\ n \notin D /\ n \in E
        /\ \A k \in D : k \in E /\ u[k] = s[k]
        /\ \A k \in E : k = n \/ k \in D
        /\ u[n] = f
    BY AppendProperties
  <1>2. a \in [D -> Int]
    BY FilledByFunction
  <1>3. b \in [E -> Int] /\ IsFiniteSet(E)
    <2> HIDE DEF u
    <2>. QED  BY <1>1, FilledByFunction
  <1>4. (\A k \in D : b[k] = a[k]) /\ b[n] = IF f.key = p THEN f.qty ELSE 0
    BY <1>1
  <1>5. filled_by(s, p) = Total(a) /\ filled_by(u, p) = Total(b)
    BY DEF filled_by
  <1> HIDE DEF a, b, u, n, D, E
  <1>6. Total(b) = Total(a) + b[n]
    <2>1. n \in E /\ n \notin D /\ (\A k \in D : k \in E) /\ (\A k \in E : k = n \/ k \in D)
      BY <1>1
    <2>2. \A k \in D : b[k] = a[k]
      BY <1>4
    <2>. QED  BY <1>2, <1>3, <2>1, <2>2, TotalExtend
  <1>. QED  BY <1>4, <1>5, <1>6 DEF u

LEMMA FilledByType ==
    ASSUME NEW s \in Seq(FillType), NEW p
    PROVE  filled_by(s, p) \in Int
  <1> DEFINE a == [j \in DOMAIN s |-> IF s[j].key = p THEN s[j].qty ELSE 0]
  <1>1. a \in [DOMAIN s -> Int] /\ IsFiniteSet(DOMAIN s)
    BY FilledByFunction
  <1>2. filled_by(s, p) = Total(a)
    BY DEF filled_by
  <1> HIDE DEF a
  <1>. QED  BY <1>1, <1>2, TotalType

LEMMA FilledByNone ==
    ASSUME NEW s \in Seq(FillType), NEW p, \A j \in DOMAIN s : s[j].key # p
    PROVE  filled_by(s, p) = 0
  <1> DEFINE a == [j \in DOMAIN s |-> IF s[j].key = p THEN s[j].qty ELSE 0]
  <1>1. a \in [DOMAIN s -> Int] /\ IsFiniteSet(DOMAIN s) /\ \A j \in DOMAIN s : a[j] = 0
    BY FilledByFunction
  <1>2. filled_by(s, p) = Total(a)
    BY DEF filled_by
  <1> HIDE DEF a
  <1>. QED  BY <1>1, <1>2, TotalZero

-----------------------------------------------------------------------------
\* What the fills of a ledger tell

\* The fills are in the order of time, none of them later than t.
TimeOrder(fills, t) ==
    /\ \A j \in DOMAIN fills : fills[j].at <= t
    /\ \A j, k \in DOMAIN fills : j <= k => fills[j].at <= fills[k].at

\* They tell what every order filled, and what is held.
TellsOrders(fills, orders) ==
    \A k \in DOMAIN orders : orders[k].filled = filled_by(fills, orders[k].key)
TellsPositions(fills, pos) ==
    \A i \in Instruments : Holding(derive_cycles(fills, i), pos[i].qty)

\* The fills of a ledger tell all of it.
Told(L, t) ==
    /\ TimeOrder(L.fills, t)
    /\ \A k \in DOMAIN L.orders : L.keys[L.orders[k].key] = k
    /\ \A j \in DOMAIN L.fills : L.keys[L.fills[j].key] # 0
    /\ TellsOrders(L.fills, L.orders)
    /\ TellsPositions(L.fills, L.pos)

TaleInLoop(L, q, t, hits, k, acc) ==
    /\ TimeOrder(acc.fills, t)
    /\ \A j \in DOMAIN acc.fills : L.keys[acc.fills[j].key] # 0
    /\ TellsOrders(acc.fills, Turned(L, q, t, hits, k))
    /\ TellsPositions(acc.fills, acc.pos)

LEMMA TimeOrderAppend ==
    ASSUME NEW s \in Seq(FillType), NEW f \in FillType, TimeOrder(s, f.at)
    PROVE  TimeOrder(Append(s, f), f.at)
  <1> DEFINE u == Append(s, f)
             n == Len(s) + 1
             t == f.at
  <1>1. /\ u[n] = f /\ n \in Nat
        /\ \A j \in DOMAIN s : j \in Nat /\ j < n /\ u[j] = s[j]
        /\ \A j \in DOMAIN u : j = n \/ j \in DOMAIN s
    BY AppendProperties
  <1>2. /\ \A j \in DOMAIN s : s[j].at <= t
        /\ \A j, k \in DOMAIN s : j <= k => s[j].at <= s[k].at
    BY DEF TimeOrder
  <1>3. t \in Nat /\ f.at = t
    BY DEF FillType
  <1> HIDE DEF u, n, t
  <1>4. \A j \in DOMAIN u : u[j].at <= t
    BY <1>1, <1>2, <1>3
  <1>5. \A j, k \in DOMAIN u : j <= k => u[j].at <= u[k].at
    <2> SUFFICES ASSUME NEW j \in DOMAIN u, NEW k \in DOMAIN u, j <= k PROVE u[j].at <= u[k].at
      OBVIOUS
    <2>1. CASE k = n
      BY <1>1, <1>3, <1>4, <2>1
    <2>2. CASE k \in DOMAIN s
      <3>1. j # n
        BY <1>1, <2>2
      <3>. QED  BY <1>1, <1>2, <2>2, <3>1
    <2>. QED  BY <1>1, <2>1, <2>2
  <1>. QED  BY <1>4, <1>5 DEF TimeOrder, u, t

\* One more fill of an order, and what it adds to the position.
LEMMA TellsOrdersAppend ==
    ASSUME NEW s \in Seq(FillType), NEW f \in FillType,
           NEW a, NEW b, DOMAIN b = DOMAIN a, NEW k \in DOMAIN a,
           \A m \in DOMAIN a : b[m].key = a[m].key /\ a[m].filled \in Nat,
           \A m \in DOMAIN a : m # k => b[m].filled = a[m].filled /\ a[m].key # f.key,
           a[k].key = f.key, b[k].filled = a[k].filled + f.qty,
           TellsOrders(s, a)
    PROVE  TellsOrders(Append(s, f), b)
  <1> SUFFICES ASSUME NEW m \in DOMAIN a
               PROVE  b[m].filled = filled_by(Append(s, f), b[m].key)
    BY DEF TellsOrders
  <1> DEFINE p == a[m].key
             x == filled_by(s, p)
  <1>1. x \in Int /\ a[m].filled = x
    BY FilledByType DEF TellsOrders
  <1>2. filled_by(Append(s, f), p) = x + (IF f.key = p THEN f.qty ELSE 0)
    BY FilledByAppend
  <1>3. b[m].key = p
    OBVIOUS
  <1> HIDE DEF p, x
  <1>4. CASE m = k
    BY <1>1, <1>2, <1>3, <1>4 DEF p
  <1>5. CASE m # k
    <2>1. f.key # p /\ b[m].filled = x
      BY <1>1, <1>5 DEF p
    <2>. QED  BY <1>1, <1>2, <1>3, <2>1
  <1>. QED  BY <1>4, <1>5

LEMMA TellsPositionsAppend ==
    ASSUME NEW s \in Seq(FillType), NEW f \in FillType, NEW a, NEW b,
           TellsPositions(s, a), a[f.inst].qty \in Nat,
           f.side = "SELL" => f.qty <= a[f.inst].qty,
           b[f.inst].qty = IF f.side = "BUY" THEN a[f.inst].qty + f.qty ELSE a[f.inst].qty - f.qty,
           \A i \in Instruments \ {f.inst} : b[i] = a[i]
    PROVE  TellsPositions(Append(s, f), b)
  <1> SUFFICES ASSUME NEW i \in Instruments
               PROVE  Holding(derive_cycles(Append(s, f), i), b[i].qty)
    BY DEF TellsPositions
  <1>1. derive_cycles(Append(s, f), i) = take(derive_cycles(s, i), f, i)
    BY CyclesAppend
  <1>2. Holding(derive_cycles(s, i), a[i].qty)
    BY DEF TellsPositions
  <1>3. CASE i = f.inst
    <2> DEFINE n == a[i].qty
               c == derive_cycles(s, i)
    <2>1. n \in Nat /\ Holding(c, n) /\ (f.side = "SELL" => f.qty <= n)
      BY <1>2, <1>3
    <2> HIDE DEF n, c
    <2>2. Holding(take(c, f, f.inst), IF f.side = "BUY" THEN n + f.qty ELSE n - f.qty)
      BY <2>1, HoldingTaken
    <2>3. b[i].qty = IF f.side = "BUY" THEN n + f.qty ELSE n - f.qty
      BY <1>3 DEF n
    <2>. QED  BY <1>1, <1>3, <2>2, <2>3 DEF c
  <1>4. CASE i # f.inst
    BY <1>1, <1>2, <1>4 DEF take
  <1>. QED  BY <1>3, <1>4

\* The orders a before and b after the turn of the k-th, which fills n contracts.
OneTurn(orders, k, n, a, b) ==
    /\ DOMAIN a = DOMAIN orders /\ DOMAIN b = DOMAIN orders
    /\ \A m \in DOMAIN orders :
          /\ a[m].key = orders[m].key /\ b[m].key = orders[m].key
          /\ a[m].filled \in Nat
          /\ m # k => b[m] = a[m]
    /\ b[k].filled = a[k].filled + n

LEMMA OrdersTurned ==
    ASSUME NEW L, Sound(L), NEW q \in Quotes, NEW t \in Nat, NEW hits, NEW k \in DOMAIN L.orders
    PROVE  OneTurn(L.orders, k, fill_quantity(L, k, q, t, hits),
                   Turned(L, q, t, hits, k - 1), Turned(L, q, t, hits, k))
  <1> DEFINE a == Turned(L, q, t, hits, k - 1)
             b == Turned(L, q, t, hits, k)
             g(m) == fill_order(L.orders[m], fill_quantity(L, m, q, t, hits))
  <1>1. /\ DOMAIN L.orders = 1..Len(L.orders) /\ Len(L.orders) \in Nat
        /\ k \in Nat \ {0} /\ \A m \in DOMAIN L.orders : m \in Nat
    BY DEF Sound, LedgerType
  <1>2. \A m \in DOMAIN L.orders :
          /\ L.orders[m].filled \in Nat /\ g(m).filled \in Nat /\ g(m).key = L.orders[m].key
          /\ g(m).filled = L.orders[m].filled + fill_quantity(L, m, q, t, hits)
    <2> SUFFICES ASSUME NEW m \in DOMAIN L.orders
                 PROVE  /\ L.orders[m].filled \in Nat /\ g(m).filled \in Nat
                        /\ g(m).key = L.orders[m].key
                        /\ g(m).filled = L.orders[m].filled + fill_quantity(L, m, q, t, hits)
      OBVIOUS
    <2>1. L.orders[m] \in OrderType /\ OrderSound(L.orders[m])
      BY OrderOf DEF Sound, LedgerType
    <2>2. fill_quantity(L, m, q, t, hits) \in Nat
          /\ fill_quantity(L, m, q, t, hits) <= Remaining(L.orders[m])
      BY FillFacts
    <2>3. L.orders[m].filled \in Nat
      BY <2>1 DEF OrderType
    <2>4. g(m).key = L.orders[m].key
          /\ g(m).filled = L.orders[m].filled + fill_quantity(L, m, q, t, hits)
      BY <2>1, <2>2, FilledOrder
    <2>. QED  BY <2>2, <2>3, <2>4
  <1> HIDE DEF g
  <1>3. /\ DOMAIN a = DOMAIN L.orders /\ DOMAIN b = DOMAIN L.orders
        /\ \A m \in DOMAIN L.orders : /\ a[m] = IF m <= k - 1 THEN g(m) ELSE L.orders[m]
                                      /\ b[m] = IF m <= k THEN g(m) ELSE L.orders[m]
    BY DEF Turned, g
  <1> HIDE DEF a, b
  <1>4. \A m \in DOMAIN L.orders : m # k => (m <= k - 1 <=> m <= k)
    BY <1>1
  <1>5. a[k] = L.orders[k] /\ b[k] = g(k)
    <2>1. ~(k <= k - 1) /\ k <= k
      BY <1>1
    <2>. QED  BY <1>3, <2>1
  <1>. QED  BY <1>2, <1>3, <1>4, <1>5 DEF OneTurn, a, b

LEMMA TaleTurn ==
    ASSUME NEW L, Sound(L), NEW q \in Quotes, NEW t \in Nat, NEW hits, Told(L, t),
           NEW k \in DOMAIN L.orders, NEW acc, BooksInLoop(L, q, t, hits, k - 1, acc),
           TaleInLoop(L, q, t, hits, k - 1, acc)
    PROVE  TaleInLoop(L, q, t, hits, k, apply_fill(acc, fill_of(L, k, q, t, hits)))
  <1> DEFINE o == L.orders[k]
             n == fill_quantity(L, k, q, t, hits)
             f == fill_of(L, k, q, t, hits)
             r == apply_fill(acc, f)
             a == Turned(L, q, t, hits, k - 1)
             b == Turned(L, q, t, hits, k)
             s == acc.fills
  <1>1. n \in Nat /\ f.qty = n /\ f.key = o.key /\ f.at = t
    BY FillFacts DEF fill_of
  <1>2. /\ s \in Seq(FillType) /\ acc.pos \in [Instruments -> PositionType]
    BY DEF BooksInLoop, AccountsType
  <1>3. /\ TimeOrder(s, t) /\ TellsOrders(s, a) /\ TellsPositions(s, acc.pos)
        /\ \A j \in DOMAIN s : L.keys[s[j].key] # 0
    BY DEF TaleInLoop
  <1>4. CASE n = 0
    <2>1. b = a
      <3>1. AsideTurned(o, n, a, b)
        BY TurnAside
      <3> HIDE DEF o, n, a, b
      <3>. QED  BY <1>4, <3>1 DEF AsideTurned
    <2>2. r = acc
      BY <1>1, <1>4 DEF apply_fill
    <2> HIDE DEF a, b, r
    <2>. QED  BY <1>3, <2>1, <2>2 DEF TaleInLoop, b, r, f
  <1>5. CASE n > 0
    <2>1. TurnEffect(acc, f, r)
      BY <1>5, TurnResult
    <2>2. /\ DOMAIN a = DOMAIN L.orders /\ DOMAIN b = DOMAIN L.orders
          /\ \A m \in DOMAIN L.orders :
                /\ a[m].key = L.orders[m].key /\ b[m].key = L.orders[m].key
                /\ a[m].filled \in Nat
                /\ m # k => b[m] = a[m]
          /\ b[k].filled = a[k].filled + n
      <3>1. OneTurn(L.orders, k, n, a, b)
        BY OrdersTurned
      <3> HIDE DEF o, n, f, r, a, b
      <3>. QED  BY ONLY <3>1 DEF OneTurn
    <2>3. \A m \in DOMAIN L.orders : L.keys[L.orders[m].key] = m
      BY DEF Told
    <2>4. o.key = L.orders[k].key
      OBVIOUS
    <2> HIDE DEF o, n, f, r, a, b
    <2> DEFINE x == f.inst
               p == acc.pos[x]
    <2>5. /\ f \in FillType /\ r.fills = Append(s, f)
          /\ f.side = "BUY" => r.pos = [acc.pos EXCEPT ![x] = enter(p, f.qty, f.price)]
          /\ f.side = "SELL" => /\ f.qty <= p.qty
                                /\ r.pos = [acc.pos EXCEPT ![x] = leave(p, f.qty, f.price)]
      BY <2>1 DEF TurnEffect
    <2>6. /\ f.qty \in Nat \ {0} /\ f.price \in Nat /\ x \in Instruments /\ f.side \in {"BUY", "SELL"}
      BY <2>5 DEF FillType, Sides
    <2>7. p \in PositionType /\ p.qty \in Nat
      BY <1>2, <2>6 DEF PositionType
    <2>8. TimeOrder(Append(s, f), t)
      BY <1>1, <1>2, <1>3, <2>5, TimeOrderAppend
    <2>9. \A j \in DOMAIN Append(s, f) : L.keys[Append(s, f)[j].key] # 0
      <3>1. /\ \A j \in DOMAIN s : Append(s, f)[j] = s[j]
            /\ \A j \in DOMAIN Append(s, f) : Append(s, f)[j] = f \/ j \in DOMAIN s
        BY <1>2, <2>5, AppendProperties
      <3>2. L.keys[f.key] = k /\ k # 0
        <4>1. k \in 1..Len(L.orders) /\ Len(L.orders) \in Nat
          BY DEF Sound, LedgerType
        <4>. QED  BY <1>1, <2>3, <2>4, <4>1
      <3>. QED  BY <1>3, <3>1, <3>2
    <2>10. TellsOrders(Append(s, f), b)
      <3>1. \A m \in DOMAIN a : b[m].key = a[m].key /\ a[m].filled \in Nat
        BY <2>2
      <3>2. \A m \in DOMAIN a : m # k => b[m].filled = a[m].filled /\ a[m].key # f.key
        BY <1>1, <2>2, <2>3, <2>4
      <3>3. DOMAIN b = DOMAIN a /\ k \in DOMAIN a /\ a[k].key = f.key
        BY <1>1, <2>2, <2>4
      <3>4. b[k].filled = a[k].filled + f.qty
        BY <1>1, <2>2
      <3>5. s \in Seq(FillType) /\ f \in FillType /\ TellsOrders(s, a)
        BY <1>2, <1>3, <2>5
      <3> HIDE DEF s
      <3>. QED  BY ONLY <3>1, <3>2, <3>3, <3>4, <3>5, TellsOrdersAppend
    <2>11. TellsPositions(Append(s, f), r.pos)
      <3>1. \A i \in Instruments \ {x} : r.pos[i] = acc.pos[i]
        BY <1>2, <2>5, <2>6
      <3>2. r.pos[x].qty = IF f.side = "BUY" THEN p.qty + f.qty ELSE p.qty - f.qty
        <4>1. CASE f.side = "BUY"
          <5>1. r.pos[x] = enter(p, f.qty, f.price)
            BY <1>2, <2>5, <2>6, <4>1
          <5>2. enter(p, f.qty, f.price).qty = p.qty + f.qty
            <6> HIDE DEF p
            <6>. QED  BY <2>6, <2>7, EnterFacts
          <5>. QED  BY <4>1, <5>1, <5>2
        <4>2. CASE f.side = "SELL"
          <5>1. r.pos[x] = leave(p, f.qty, f.price)
            BY <1>2, <2>5, <2>6, <4>2
          <5>2. leave(p, f.qty, f.price).qty = p.qty - f.qty
            <6>1. f.qty <= p.qty
              BY <2>5, <4>2
            <6> HIDE DEF p
            <6>. QED  BY <2>6, <2>7, <6>1, LeaveFacts
          <5>. QED  BY <4>2, <5>1, <5>2
        <4>. QED  BY <2>6, <4>1, <4>2
      <3>. QED  BY <1>2, <1>3, <2>5, <2>7, <3>1, <3>2, TellsPositionsAppend
    <2>. QED  BY <2>5, <2>8, <2>9, <2>10, <2>11 DEF TaleInLoop, b, r, f
  <1>. QED  BY <1>1, <1>4, <1>5

\* The whole loop: what the fills tell of the ledger after a quote.
LEMMA TaleOfLoop ==
    ASSUME NEW L, Sound(L), NEW q \in Quotes, NEW t \in Nat, NEW hits, Told(L, t)
    PROVE  TaleInLoop(L, q, t, hits, Len(L.orders), accounts(L, q, t, hits))
  <1> DEFINE n == Len(L.orders)
  <1>1. n \in Nat /\ DOMAIN L.orders = 1..n
    BY DEF Sound, LedgerType
  <1>2. PICK h : /\ h[0] = Start(L)
                 /\ \A k \in 1..n : h[k] = apply_fill(h[k - 1], fill_of(L, k, q, t, hits))
                 /\ accounts(L, q, t, hits) = h[n]
    BY ONLY <1>1, AccountsLoop
  <1> DEFINE Good(k) == /\ BooksInLoop(L, q, t, hits, k, h[k])
                        /\ TaleInLoop(L, q, t, hits, k, h[k])
             Bad == {k \in 0..n : ~Good(k)}
  <1>3. Good(0)
    <2>1. BooksInLoop(L, q, t, hits, 0, Start(L))
      BY BooksAtStart
    <2>2. Turned(L, q, t, hits, 0) = L.orders
      <3>1. L.orders \in Seq(OrderType)
        BY DEF Sound, LedgerType
      <3>2. \A j \in DOMAIN L.orders : ~(j <= 0)
        BY <1>1
      <3>3. L.orders = [j \in DOMAIN L.orders |-> L.orders[j]]
        BY <3>1
      <3>. QED  BY <3>2, <3>3 DEF Turned
    <2>3. Start(L).fills = L.fills /\ Start(L).pos = L.pos
      BY DEF Start
    <2>4. TaleInLoop(L, q, t, hits, 0, Start(L))
      BY <2>2, <2>3 DEF TaleInLoop, Told
    <2>. QED  BY <1>2, <2>1, <2>4
  <1> HIDE DEF n
  <1>4. Bad = {}
    <2>1. SUFFICES ASSUME Bad # {} PROVE FALSE
      OBVIOUS
    <2>2. PICK k \in Bad : \A d \in Bad : k <= d
      <3>1. Bad \in SUBSET Nat
        BY <1>1
      <3> HIDE DEF Bad
      <3>. QED  BY <2>1, <3>1, LeastNumber
    <2>3. k \in 0..n /\ ~Good(k)
      BY <2>2
    <2> HIDE DEF Good
    <2>4. k # 0
      BY <1>3, <2>3
    <2>5. k - 1 \in 0..n /\ k \in 1..n /\ ~(k <= k - 1)
      BY <1>1, <2>3, <2>4
    <2>6. k - 1 \notin Bad
      BY <2>2, <2>5
    <2>7. Good(k - 1)
      BY <2>5, <2>6
    <2>8. k \in DOMAIN L.orders /\ h[k] = apply_fill(h[k - 1], fill_of(L, k, q, t, hits))
      BY <1>1, <1>2, <2>5
    <2>9. BooksInLoop(L, q, t, hits, k - 1, h[k - 1]) /\ TaleInLoop(L, q, t, hits, k - 1, h[k - 1])
      BY <2>7 DEF Good
    <2>10. BooksInLoop(L, q, t, hits, k, h[k])
      BY <2>8, <2>9, BooksTurn
    <2>11. TaleInLoop(L, q, t, hits, k, h[k])
      BY <2>8, <2>9, TaleTurn
    <2>. QED  BY <2>3, <2>10, <2>11 DEF Good
  <1>5. Good(n)
    <2>1. n \in 0..n /\ n \notin Bad
      BY <1>1, <1>4
    <2> HIDE DEF Good
    <2>. QED  BY <2>1
  <1>. QED  BY <1>2, <1>5 DEF n

LEMMA ToldLater ==
    ASSUME NEW L, Sound(L), NEW t \in Nat, Told(L, t), NEW u \in Nat, t <= u
    PROVE  Told(L, u)
  <1>1. \A j \in DOMAIN L.fills : L.fills[j].at \in Nat
    <2>1. \A x \in FillType : x.at \in Nat
      BY DEF FillType
    <2>2. \A j \in DOMAIN L.fills : L.fills[j] \in FillType
      BY DEF Sound, LedgerType
    <2>. QED  BY <2>1, <2>2
  <1>2. TimeOrder(L.fills, u)
    BY <1>1 DEF Told, TimeOrder
  <1>. QED  BY <1>2 DEF Told

LEMMA NewLedgerTold == \A t \in Nat : Told(NewLedger, t)
  <1> SUFFICES ASSUME NEW t \in Nat PROVE Told(NewLedger, t)
    OBVIOUS
  <1>1. /\ NewLedger.fills = <<>> /\ NewLedger.orders = <<>>
        /\ \A i \in Instruments : NewLedger.pos[i].qty = 0
    BY DEF NewLedger, NoPosition
  <1>2. \A i \in Instruments : Holding(derive_cycles(<<>>, i), 0)
    BY CyclesEmpty, NoTradeSound
  <1>. QED  BY <1>1, <1>2 DEF Told, TimeOrder, TellsOrders, TellsPositions

\* A quote, and an order placed.
LEMMA ObserveTold ==
    ASSUME NEW L, Sound(L), NEW q \in Quotes, NEW t \in Nat, NEW hits, Told(L, t)
    PROVE  Told(observe_quote(L, q, t, hits), t)
  <1> DEFINE M == observe_quote(L, q, t, hits)
             acc == accounts(L, q, t, hits)
             b == Turned(L, q, t, hits, Len(L.orders))
  <1>1. CASE L.quotes[q.inst].id = q.id
    BY <1>1 DEF observe_quote
  <1>2. CASE L.quotes[q.inst].id # q.id
    <2>1. ObserveEffect(L, q, t, b, acc, M)
      BY <1>2, ObserveFields
    <2>2. TaleInLoop(L, q, t, hits, Len(L.orders), acc)
      BY TaleOfLoop
    <2>3. DOMAIN b = DOMAIN L.orders /\ \A k \in DOMAIN L.orders : b[k].key = L.orders[k].key
      <3>1. DOMAIN b = DOMAIN L.orders
        BY DEF Turned
      <3>2. Grows(L, M)
        BY ObserveSound
      <3>3. M.orders = b
        <4> HIDE DEF M, b, acc
        <4>. QED  BY <2>1 DEF ObserveEffect
      <3> HIDE DEF M, b
      <3>. QED  BY <3>1, <3>2, <3>3 DEF Grows
    <2>4. /\ TimeOrder(acc.fills, t) /\ TellsOrders(acc.fills, b) /\ TellsPositions(acc.fills, acc.pos)
          /\ \A j \in DOMAIN acc.fills : L.keys[acc.fills[j].key] # 0
      <3> HIDE DEF acc
      <3>. QED  BY <2>2 DEF TaleInLoop
    <2> HIDE DEF M, acc, b
    <2>5. M.orders = b /\ M.fills = acc.fills /\ M.pos = acc.pos /\ M.keys = L.keys
      BY <2>1 DEF ObserveEffect
    <2>. QED  BY <2>3, <2>4, <2>5 DEF Told, M
  <1>. QED  BY <1>1, <1>2

LEMMA SubmitTold ==
    ASSUME NEW L, NEW t, ReplayLedger(L, t), Told(L, t), NEW key \in Keys, L.keys[key] = 0,
           NEW terms, TermsType(terms), NEW M, M = submit(L, key, terms, t)
    PROVE  Told(M, t)
  <1>1. t \in Nat /\ Sound(L)
    BY DEF ReplayLedger
  <1>2. PICK o : SubmitEffect(L, key, terms, t, o, M)
    BY <1>1, SubmitFields DEF duplicate_order
  <1> DEFINE n == Len(L.orders) + 1
  <1>3. /\ M.orders = Append(L.orders, o) /\ o.key = key /\ o \in OrderType /\ o.filled = 0
        /\ M.fills = L.fills /\ M.pos = L.pos
        /\ M.keys = [L.keys EXCEPT ![key] = n]
    BY <1>2 DEF SubmitEffect
  <1>4. L.orders \in Seq(OrderType) /\ L.keys \in [Keys -> Nat] /\ L.fills \in Seq(FillType)
    BY <1>1 DEF Sound, LedgerType
  <1>5. /\ n \in Nat \ {0} /\ M.orders[n] = o
        /\ \A k \in DOMAIN L.orders : M.orders[k] = L.orders[k]
        /\ \A k \in DOMAIN M.orders : k = n \/ k \in DOMAIN L.orders
    BY <1>3, <1>4, AppendProperties
  <1> HIDE DEF n
  <1>6. M.keys[key] = n /\ \A p \in Keys \ {key} : M.keys[p] = L.keys[p]
    BY <1>3, <1>4
  <1>7. /\ \A k \in DOMAIN L.orders : L.keys[L.orders[k].key] = k
        /\ \A j \in DOMAIN L.fills : L.keys[L.fills[j].key] # 0
        /\ TellsOrders(L.fills, L.orders)
    BY DEF Told
  <1>8. \A k \in DOMAIN L.orders : L.orders[k].key \in Keys /\ k # 0
    <2>1. \A x \in OrderType : x.key \in Keys
      BY DEF OrderType
    <2>2. \A k \in DOMAIN L.orders : L.orders[k] \in OrderType /\ k # 0
      BY <1>4
    <2>. QED  BY <2>1, <2>2
  <1>9. \A j \in DOMAIN L.fills : L.fills[j].key \in Keys
    <2>1. \A x \in FillType : x.key \in Keys
      BY DEF FillType
    <2>2. \A j \in DOMAIN L.fills : L.fills[j] \in FillType
      BY <1>4
    <2>. QED  BY <2>1, <2>2
  <1>10. \A k \in DOMAIN M.orders : M.keys[M.orders[k].key] = k
    <2>1. \A k \in DOMAIN L.orders : L.orders[k].key # key
      BY <1>7, <1>8
    <2>. QED  BY <1>3, <1>5, <1>6, <1>7, <1>8, <2>1
  <1>11. \A j \in DOMAIN M.fills : M.keys[M.fills[j].key] # 0
    BY <1>3, <1>5, <1>6, <1>7, <1>9
  <1>12. filled_by(L.fills, key) = 0
    <2>1. \A j \in DOMAIN L.fills : L.fills[j].key # key
      BY <1>7
    <2>. QED  BY <1>4, <2>1, FilledByNone
  <1>13. TellsOrders(M.fills, M.orders)
    BY <1>3, <1>5, <1>7, <1>12 DEF TellsOrders
  <1>. QED  BY <1>3, <1>10, <1>11, <1>13 DEF Told

-----------------------------------------------------------------------------
\* The outcomes of the runtime

\* The fills the journal has, taken in its order, make sound trades, and the recorded
\* outcomes are among them.
TradesInv(d) ==
    /\ \A i \in Instruments : TradeSound(derive_cycles(d.fills, i), i, ToSet(d.fills))
    /\ d.outcomes \subseteq derive(d.fills, Instruments)

TalesInv(d, m) ==
    /\ Told(m.ledger, m.clock) /\ Told(d.snap.ledger, d.snap.at)
    /\ TradesInv(d)

\* One more fill in the journal.
LEMMA TradesAppend ==
    ASSUME NEW d, NEW e, d.fills \in Seq(FillType), TradesInv(d), NEW f \in FillType,
           f \notin ToSet(d.fills), e.fills = Append(d.fills, f), e.outcomes = d.outcomes
    PROVE  TradesInv(e)
  <1> DEFINE s == d.fills
             u == Append(s, f)
             seen == ToSet(s)
  <1>1. ToSet(u) = seen \union {f}
    <2>1. \A x : x \in ToSet(u) <=> x \in seen \/ x = f
      BY ToSetAppend
    <2> HIDE DEF u, seen
    <2>. QED  BY <2>1
  <1>2. ASSUME NEW i \in Instruments
        PROVE  /\ TradeSound(derive_cycles(u, i), i, ToSet(u))
               /\ derive_cycles(s, i).done \subseteq derive_cycles(u, i).done
    <2> DEFINE a == derive_cycles(s, i)
    <2>1. TradeSound(a, i, seen) /\ f \notin seen
      BY DEF TradesInv
    <2>2. derive_cycles(u, i) = take(a, f, i)
      BY CyclesAppend
    <2> HIDE DEF a, seen, u
    <2>3. /\ TradeSound(take(a, f, i), i, seen \union {f})
          /\ a.done \subseteq take(a, f, i).done
      BY <2>1, TradeTaken
    <2>. QED  BY <1>1, <2>2, <2>3 DEF a
  <1>3. derive(s, Instruments) \subseteq derive(u, Instruments)
    <2> HIDE DEF s, u
    <2>. QED  BY <1>2 DEF derive
  <1>4. e.fills = u /\ e.outcomes \subseteq derive(s, Instruments)
    BY DEF TradesInv
  <1> HIDE DEF s, u, seen
  <1>. QED  BY <1>2, <1>3, <1>4 DEF TradesInv

\* A step that leaves the process its ledger and its time and the journal its fills and
\* outcomes; it may save the ledger.
Retells == /\ mem'.ledger = mem.ledger /\ mem'.clock = mem.clock
           /\ db'.fills = db.fills /\ db'.outcomes = db.outcomes
           /\ \/ db'.snap = db.snap
              \/ db'.snap.ledger = mem.ledger /\ db'.snap.at = mem.clock

LEMMA RetellsTales ==
    ASSUME TalesInv(db, mem), Retells
    PROVE  TalesInv(db', mem')
  <1>1. TradesInv(db')
    BY DEF TalesInv, TradesInv, Retells
  <1>2. Told(mem'.ledger, mem'.clock) /\ Told(db'.snap.ledger, db'.snap.at)
    BY DEF TalesInv, Retells
  <1>. QED  BY <1>1, <1>2 DEF TalesInv

LEMMA FailedRetells ==
    ASSUME Inv(db, mem, run), mem' = Failed(mem), db' = db
    PROVE  Retells
  BY FailedFields DEF Retells

LEMMA ReconcileRetells ==
    ASSUME Inv(db, mem, run), Reconcile
    PROVE  Retells
  <1>1. CASE ReconcileBegin
    BY <1>1, RecordShapes DEF ReconcileBegin, Retells
  <1>2. CASE Flush
    <2>1. /\ mem' = [[[mem EXCEPT !.jh = FALSE] EXCEPT !.dirty = FALSE] EXCEPT !.ckptOk = TRUE]
          /\ db' = [db EXCEPT !.snap = SnapshotAt([[mem EXCEPT !.jh = FALSE] EXCEPT !.dirty = FALSE],
                                                  [mem EXCEPT !.jh = FALSE].cursor)]
      BY <1>2 DEF Flush, PersistLedger, Persist
    <2>. QED  BY <2>1, RecordShapes DEF SnapshotAt, Retells
  <1>3. CASE Settle
    BY <1>3, RecordShapes DEF Settle, Retells
  <1>4. CASE FirstCheckpoint
    <2>1. /\ mem' = [[mem EXCEPT !.init = TRUE, !.needs = FALSE] EXCEPT !.ckptOk = TRUE]
          /\ db' = [db EXCEPT !.snap = SnapshotAt([mem EXCEPT !.init = TRUE, !.needs = FALSE],
                                                  mem.cursor)]
      BY <1>4 DEF FirstCheckpoint, Persist
    <2>. QED  BY <2>1, RecordShapes DEF SnapshotAt, Retells
  <1>. QED  BY <1>1, <1>2, <1>3, <1>4 DEF Reconcile

\* The journal takes the fills of the ledger one by one, and none of them twice.
LEMMA SyncTales ==
    ASSUME Inv(db, mem, run), TalesInv(db, mem), Sync
    PROVE  TalesInv(db', mem')
  <1>1. ASSUME NEW p \in Keys, SyncOrder(p) PROVE Retells
    BY <1>1, RecordShapes DEF SyncOrder, Retells
  <1>2. CASE SyncFill
    <2> DEFINE g == mem.ledger.fills
               n == Min(unsaved_fills)
               f == g[n]
    <2>1. run.pc = "sync" /\ mem' = mem /\ unsaved_fills # {} /\ db' = [db EXCEPT !.fills = Append(@, f)]
      BY <1>2 DEF SyncFill
    <2>2. db'.fills = Append(db.fills, f) /\ db'.outcomes = db.outcomes /\ db'.snap = db.snap
      BY <2>1, RecordShapes
    <2>3. n = Len(db.fills) + 1 /\ n \in DOMAIN g
      BY <2>1, UnsavedFills
    <2>4. g \in Seq(FillType) /\ db.fills \in Seq(FillType)
      BY DEF Inv, BehindInv, BooksInv, ReplayLedger, Sound, LedgerType
    <2>5. f \in FillType
      BY <2>3, <2>4
    <2>6. n \in unsaved_fills
      BY <2>1, UnsavedFills
    <2>7. f \notin ToSet(db.fills)
      BY <2>6 DEF unsaved_fills
    <2> HIDE DEF f, n, g
    <2>8. TradesInv(db')
      BY <2>2, <2>4, <2>5, <2>7, TradesAppend DEF TalesInv
    <2>. QED  BY <2>1, <2>2, <2>8 DEF TalesInv
  <1>3. CASE SyncDone
    <2>1. Retells
      BY <1>3, RecordShapes DEF SyncDone, Retells
    <2>. QED  BY <2>1, RetellsTales
  <1>4. CASE SyncRefused
    BY <1>4, FailedRetells, RetellsTales DEF SyncRefused
  <1>. QED  BY <1>1, <1>2, <1>3, <1>4, RetellsTales DEF Sync

LEMMA ExecuteTales ==
    ASSUME Inv(db, mem, run), TalesInv(db, mem), Execute
    PROVE  TalesInv(db', mem')
  <1>1. ASSUME NEW p \in Keys, Dispatch(p) PROVE Retells
    BY <1>1 DEF Dispatch, Retells
  <1>2. ASSUME PersistLedger(mem) PROVE Retells
    <2>1. /\ mem' = [[mem EXCEPT !.dirty = FALSE] EXCEPT !.ckptOk = TRUE]
          /\ db' = [db EXCEPT !.snap = SnapshotAt([mem EXCEPT !.dirty = FALSE], mem.cursor)]
      BY <1>2 DEF PersistLedger, Persist
    <2>. QED  BY <2>1, RecordShapes DEF SnapshotAt, Retells
  <1>3. CASE Reviewed \/ OrderPersisted
    BY <1>2, <1>3, RetellsTales DEF Reviewed, OrderPersisted
  <1>4. CASE DeniedBeforeIntent \/ GateDenies \/ End
    <2>1. Retells
      BY <1>4 DEF DeniedBeforeIntent, GateDenies, End, Retells
    <2>. QED  BY <2>1, RetellsTales
  <1>5. CASE SaveEvidence \/ RecordDenial \/ SaveReply
    <2>1. Retells
      BY <1>5, RecordShapes DEF SaveEvidence, RecordDenial, SaveReply, Retells
    <2>. QED  BY <2>1, RetellsTales
  <1>6. CASE Place
    <2> DEFINE p == run.p
               terms == db.proposals[run.p]
               L == mem.ledger
               M == submit(L, p, terms, mem.clock)
    <2>1. /\ db' = db /\ run.op = "dispatch" /\ run.pc = "gate" /\ mem' = [mem EXCEPT !.ledger = M]
      BY <1>6 DEF Place, At
    <2>2. p \in Keys /\ TermsType(terms) /\ L.keys[p] = 0
      BY <2>1, DispatchFacts DEF Underway
    <2>3. ReplayLedger(L, mem.clock) /\ Told(L, mem.clock)
      BY DEF Inv, BooksInv, TalesInv
    <2>4. M = submit(L, p, terms, mem.clock)
      OBVIOUS
    <2> HIDE DEF p, terms, L, M
    <2>5. Told(M, mem.clock)
      BY <2>2, <2>3, <2>4, SubmitTold
    <2>6. mem'.ledger = M /\ mem'.clock = mem.clock
      BY <2>1, RecordShapes
    <2>. QED  BY <2>1, <2>5, <2>6 DEF TalesInv
  <1>. QED  BY <1>1, <1>3, <1>4, <1>5, <1>6, RetellsTales DEF Execute

\* A review adds to the outcomes one that it derived.
LEMMA ReviewTales ==
    ASSUME Inv(db, mem, run), TalesInv(db, mem), Review
    PROVE  TalesInv(db', mem')
  <1>1. CASE ReviewBegin
    <2>1. Retells
      BY <1>1 DEF ReviewBegin, Retells
    <2>. QED  BY <2>1, RetellsTales
  <1>2. CASE RecordOutcome
    <2>1. PICK o \in derive(db.fills, Instruments) : db' = [db EXCEPT !.outcomes = @ \cup {o}]
      BY <1>2 DEF RecordOutcome, derived_outcomes
    <2>2. mem' = mem /\ db'.fills = db.fills /\ db'.snap = db.snap
          /\ db'.outcomes = db.outcomes \union {o}
      BY <1>2, <2>1, RecordShapes DEF RecordOutcome
    <2>3. db'.outcomes \subseteq derive(db.fills, Instruments)
      BY <2>1, <2>2 DEF TalesInv, TradesInv
    <2>. QED  BY <2>2, <2>3 DEF TalesInv, TradesInv
  <1>. QED  BY <1>1, <1>2 DEF Review

LEMMA StepTales ==
    ASSUME Inv(db, mem, run), TalesInv(db, mem), Step
    PROVE  TalesInv(db', mem')
  <1>1. CASE StepBegin
    <2> DEFINE u == Fixture[mem.cursor + 1].at
    <2>1. /\ db' = db /\ mem' = [mem EXCEPT !.clock = u] /\ mem.clock <= u
          /\ mem.cursor # Len(Fixture)
      BY <1>1 DEF StepBegin, Complete, Group
    <2>2. mem.cursor \in 0..Len(Fixture) /\ mem.cursor < Len(Fixture)
      BY <2>1, GroupTimes DEF Inv, BooksInv
    <2>3. u \in Nat
      BY <2>2, GroupFacts
    <2> HIDE DEF u
    <2>4. mem'.ledger = mem.ledger /\ mem'.clock = u
      BY <2>1, RecordShapes
    <2>5. Sound(mem.ledger) /\ mem.clock \in Nat /\ Told(mem.ledger, mem.clock)
      BY DEF Inv, BooksInv, ReplayLedger, TalesInv
    <2>6. Told(mem'.ledger, mem'.clock)
      BY <2>1, <2>3, <2>4, <2>5, ToldLater
    <2>. QED  BY <2>1, <2>6 DEF TalesInv
  <1>2. CASE SkipQuote \/ ExitsDone
    <2>1. Retells
      BY <1>2 DEF SkipQuote, ExitsDone, Retells
    <2>. QED  BY <2>1, RetellsTales
  <1>3. CASE ConsumeQuote
    <2>1. CASE quote_refused
      BY <1>3, <2>1, FailedRetells, RetellsTales DEF ConsumeQuote
    <2>2. CASE ~quote_refused
      <3> DEFINE q == NextQuote
                 M == observe_quote(mem.ledger, q, mem.clock, {})
      <3>1. /\ db' = db /\ mem' = [mem EXCEPT !.ledger = M]
            /\ run.op = "step" /\ run.pc = "quote"
            /\ run.i <= Len(Fixture[mem.cursor + 1].quotes)
        BY <1>3, <2>2 DEF ConsumeQuote, At, MoreQuotes, Group
      <3>2. /\ mem.cursor \in 0..Len(Fixture) /\ mem.cursor < Len(Fixture) /\ run.i \in Nat \ {0}
        BY <3>1 DEF Inv, BooksInv, ControlInv
      <3>3. q \in Quotes
        BY <3>1, <3>2, GroupFacts, ReplayFeed DEF NextQuote, Group
      <3>4. Sound(mem.ledger) /\ mem.clock \in Nat /\ Told(mem.ledger, mem.clock)
        BY DEF Inv, BooksInv, ReplayLedger, TalesInv
      <3> HIDE DEF q
      <3>5. Told(M, mem.clock)
        BY <3>3, <3>4, ObserveTold
      <3> HIDE DEF M
      <3>6. mem'.ledger = M /\ mem'.clock = mem.clock
        BY <3>1, RecordShapes
      <3>. QED  BY <3>1, <3>5, <3>6 DEF TalesInv
    <2>. QED  BY <2>1, <2>2
  <1>4. CASE QuotePersisted
    <2>1. /\ mem' = [[[mem EXCEPT !.jh = FALSE] EXCEPT !.dirty = FALSE] EXCEPT !.ckptOk = TRUE]
          /\ db' = [db EXCEPT !.snap = SnapshotAt([[mem EXCEPT !.jh = FALSE] EXCEPT !.dirty = FALSE],
                                                  [mem EXCEPT !.jh = FALSE].cursor)]
      BY <1>4 DEF QuotePersisted, PersistLedger, Persist
    <2>2. Retells
      BY <2>1, RecordShapes DEF SnapshotAt, Retells
    <2>. QED  BY <2>2, RetellsTales
  <1>5. CASE EventHandled
    <2>1. mem' = mem /\ \E f : db' = [db EXCEPT !.proposals = f]
      BY <1>5 DEF EventHandled
    <2>2. Retells
      BY <2>1, RecordShapes DEF Retells
    <2>. QED  BY <2>2, RetellsTales
  <1>6. CASE Checkpoint
    <2> DEFINE c == mem.cursor + 1
    <2>1. /\ mem' = [[mem EXCEPT !.cursor = c] EXCEPT !.ckptOk = TRUE]
          /\ db' = [db EXCEPT !.snap = SnapshotAt([mem EXCEPT !.cursor = c], c)]
      BY <1>6 DEF Checkpoint, Persist
    <2> HIDE DEF c
    <2>2. Retells
      BY <2>1, RecordShapes DEF SnapshotAt, Retells
    <2>. QED  BY <2>2, RetellsTales
  <1>7. ASSUME NEW i \in Instruments, ProposeExit(i) PROVE Retells
    BY <1>7, RecordShapes DEF ProposeExit, Retells
  <1>8. CASE ExitReused
    BY <1>8, FailedRetells, RetellsTales DEF ExitReused
  <1>. QED  BY <1>1, <1>2, <1>3, <1>4, <1>5, <1>6, <1>7, <1>8, RetellsTales DEF Step

LEMMA FaultsTales ==
    ASSUME Inv(db, mem, run), TalesInv(db, mem), Faults
    PROVE  TalesInv(db', mem')
  <1> DEFINE n == Failed(mem)
  <1>1. n = Failed(mem)
    OBVIOUS
  <1> HIDE DEF n
  <1>2. Process(n) /\ n.ledger = mem.ledger /\ n.clock = mem.clock
    BY <1>1, FailedFields
  <1>3. CASE PersistFails
    <2>1. \E c : \E s \in {db.snap, SnapshotAt(mem, c)} : db' = [db EXCEPT !.snap = s]
      BY <1>3 DEF PersistFails
    <2>2. \E b : mem' = [n EXCEPT !.ckptOk = FALSE, !.dirty = b]
      <3>1. mem' = [n EXCEPT !.ckptOk = FALSE, !.dirty = @ \/ <<run.op, run.pc>> \in LedgerPersists]
        BY <1>1, <1>3 DEF PersistFails
      <3>. QED  BY <3>1
    <2>3. mem'.ledger = mem.ledger /\ mem'.clock = mem.clock
      BY <1>2, <2>2 DEF Process
    <2>4. PICK c : \E s \in {db.snap, SnapshotAt(mem, c)} : db' = [db EXCEPT !.snap = s]
      BY <2>1
    <2>5. PICK s \in {db.snap, SnapshotAt(mem, c)} : db' = [db EXCEPT !.snap = s]
      BY <2>4
    <2>6. db'.snap = s /\ db'.fills = db.fills /\ db'.outcomes = db.outcomes
      BY <2>5, RecordShapes
    <2>7. Retells
      BY <2>3, <2>6 DEF Retells, SnapshotAt
    <2>. QED  BY <2>7, RetellsTales
  <1>4. CASE AwaitFails
    BY <1>4, FailedRetells, RetellsTales DEF AwaitFails
  <1>5. CASE Interrupted
    <2>1. /\ \E l, a, b : mem' = [n EXCEPT !.latch = l, !.ckptOk = a, !.dirty = b]
          /\ \E s \in {db.snap, SnapshotAt(mem, mem.cursor)} : \E r :
                db' = [db EXCEPT !.snap = IF run.pc = "persist" THEN s ELSE @, !.row[run.p] = r]
      BY <1>1, <1>5 DEF Interrupted
    <2>2. mem'.ledger = mem.ledger /\ mem'.clock = mem.clock
      BY <1>2, <2>1 DEF Process
    <2>3. PICK s \in {db.snap, SnapshotAt(mem, mem.cursor)} : \E r :
             db' = [db EXCEPT !.snap = IF run.pc = "persist" THEN s ELSE @, !.row[run.p] = r]
      BY <2>1
    <2>4. /\ db'.snap = db.snap \/ db'.snap = SnapshotAt(mem, mem.cursor)
          /\ db'.fills = db.fills /\ db'.outcomes = db.outcomes
      BY <2>3, RecordShapes
    <2>5. Retells
      BY <2>2, <2>4 DEF Retells, SnapshotAt
    <2>. QED  BY <2>5, RetellsTales
  <1>6. CASE Crash
    <2> DEFINE s == db.snap
    <2>1. db' = db /\ mem' = Restored(s)
      BY <1>6 DEF Crash
    <2>2. /\ ReplayLedger(s.ledger, s.at) /\ Within(s.ledger) /\ s.cursor \in 0..Len(Fixture)
          /\ Told(s.ledger, s.at)
      BY DEF Inv, BooksInv, TalesInv
    <2> HIDE DEF s
    <2>3. mem'.ledger = s.ledger /\ s.at <= mem'.clock /\ BooksInv(s, mem')
      BY <2>1, <2>2, RestoredFields
    <2>4. Sound(s.ledger) /\ s.at \in Nat /\ mem'.clock \in Nat
      BY <2>2, <2>3 DEF BooksInv, ReplayLedger
    <2>5. Told(mem'.ledger, mem'.clock)
      BY <2>2, <2>3, <2>4, ToldLater
    <2>. QED  BY <2>1, <2>5 DEF TalesInv
  <1>. QED  BY <1>3, <1>4, <1>5, <1>6 DEF Faults

TalesInvariant == TalesInv(db, mem)

LEMMA TalesInvariance == Spec => []TalesInvariant
  <1>1. Init => TalesInvariant
    <2> SUFFICES ASSUME Init PROVE TalesInv(db, mem)
      BY DEF TalesInvariant
    <2> DEFINE s == FirstSnapshot
    <2>1. db.fills = <<>> /\ db.outcomes = {} /\ db.snap = s /\ mem = Restored(s)
      BY DEF Init
    <2>2. s.ledger = NewLedger
      BY DEF FirstSnapshot
    <2> HIDE DEF s
    <2>3. /\ ReplayLedger(s.ledger, s.at) /\ Within(s.ledger) /\ s.cursor \in 0..Len(Fixture)
      BY <2>1, RuntimeInitially DEF RuntimeInvariant, Inv, BooksInv
    <2>4. mem.ledger = s.ledger /\ BooksInv(s, mem)
      BY <2>1, <2>3, RestoredFields
    <2>5. s.at \in Nat /\ mem.clock \in Nat
      BY <2>3, <2>4 DEF BooksInv, ReplayLedger
    <2>6. Told(mem.ledger, mem.clock) /\ Told(s.ledger, s.at)
      BY <2>2, <2>4, <2>5, NewLedgerTold
    <2>7. ToSet(db.fills) = {}
      BY <2>1 DEF ToSet
    <2>8. \A i \in Instruments : TradeSound(derive_cycles(db.fills, i), i, ToSet(db.fills))
      BY <2>1, <2>7, CyclesEmpty, NoTradeSound
    <2>9. TradesInv(db)
      BY <2>1, <2>8 DEF TradesInv
    <2>. QED  BY <2>1, <2>6, <2>9 DEF TalesInv
  <1>2. RuntimeInvariant /\ TalesInvariant /\ [Next]_vars => TalesInvariant'
    <2>1. TalesInvariant' <=> TalesInv(db', mem')
      BY DEF TalesInvariant
    <2> SUFFICES ASSUME Inv(db, mem, run), TalesInv(db, mem), [Next]_vars
                 PROVE  TalesInv(db', mem')
      BY <2>1 DEF TalesInvariant, RuntimeInvariant
    <2>2. CASE Reconcile
      BY <2>2, ReconcileRetells, RetellsTales
    <2>3. CASE UNCHANGED vars
      BY <2>3 DEF vars
    <2>. QED  BY <2>2, <2>3, SyncTales, ExecuteTales, ReviewTales, StepTales, FaultsTales DEF Next
  <1>. QED  BY <1>1, <1>2, RuntimeInvariance, PTL DEF Spec

\* No two recorded outcomes share an identity, the journaled fills are in the order of time,
\* and whenever a review may run it finds nothing to refuse.
THEOREM OutcomesStayFinal == Spec => []OutcomesAreFinal
  <1>1. RuntimeInvariant /\ TalesInvariant => OutcomesAreFinal
    <2> SUFFICES ASSUME Inv(db, mem, run), TalesInv(db, mem) PROVE OutcomesAreFinal
      BY DEF RuntimeInvariant, TalesInvariant
    <2> DEFINE s == db.fills
               D == derive(s, Instruments)
    <2>1. /\ \A i \in Instruments : TradeSound(derive_cycles(s, i), i, ToSet(s))
          /\ db.outcomes \subseteq D
      BY DEF TalesInv, TradesInv
    <2>2. \A o, r \in db.outcomes : o.id = r.id => o = r
      <3> SUFFICES ASSUME NEW o \in db.outcomes, NEW r \in db.outcomes, o.id = r.id PROVE o = r
        OBVIOUS
      <3>1. PICK i \in Instruments : o \in derive_cycles(s, i).done
        BY <2>1 DEF derive
      <3>2. PICK j \in Instruments : r \in derive_cycles(s, j).done
        BY <2>1 DEF derive
      <3>3. i = j
        BY <2>1, <3>1, <3>2 DEF TradeSound
      <3>. QED  BY <2>1, <3>1, <3>2, <3>3 DEF TradeSound
    <2>3. \A j, k \in DOMAIN s : j <= k => s[j].at <= s[k].at
      <3> DEFINE f == db.snap.ledger.fills
      <3>1. s \in Seq(FillType) /\ f \in Seq(FillType) /\ Len(s) <= Len(f)
            /\ \A j \in DOMAIN s : s[j] = f[j]
        BY DEF Inv, BehindInv, BooksInv, ReplayLedger, Sound, LedgerType
      <3>2. \A j, k \in DOMAIN f : j <= k => f[j].at <= f[k].at
        BY DEF TalesInv, Told, TimeOrder
      <3> HIDE DEF s, f
      <3>3. \A j \in DOMAIN s : j \in DOMAIN f
        BY <3>1
      <3>. QED  BY <3>1, <3>2, <3>3
    <2>4. ASSUME run.op = "idle", ~mem.needs PROVE reviewable
      <3> DEFINE L == mem.ledger
      <3>1. Whole(db, L, Keys)
        BY <2>4 DEF Inv, JournalInv, Quiet
      <3>2. /\ Sound(L) /\ KeysSound(L) /\ Told(L, mem.clock)
        BY DEF Inv, BooksInv, ReplayLedger, TalesInv
      <3> HIDE DEF L
      <3>3. s = L.fills /\ RowsWhole(db, L, Keys)
        BY <3>1 DEF Whole
      <3>4. /\ TellsOrders(L.fills, L.orders) /\ TellsPositions(L.fills, L.pos)
            /\ \A j \in DOMAIN L.fills : L.keys[L.fills[j].key] # 0
        BY <3>2 DEF Told
      <3>5. L.fills \in Seq(FillType)
        BY <3>2 DEF Sound, LedgerType
      <3>6. ASSUME NEW p \in Keys PROVE db.row[p].filled = filled_by(s, p)
        <4>1. CASE L.keys[p] # 0
          <5> DEFINE k == L.keys[p]
          <5>1. k \in DOMAIN L.orders /\ L.orders[k].key = p
            BY <3>2, <4>1 DEF KeysSound
          <5>2. db.row[p].filled = L.orders[k].filled
            <6>1. db.row[p] = Published(L, p)
              BY <3>3, <4>1 DEF RowsWhole
            <6>2. Published(L, p).filled = L.orders[k].filled
              BY DEF Published
            <6>. QED  BY <6>1, <6>2
          <5>. QED  BY <3>3, <3>4, <5>1, <5>2 DEF TellsOrders
        <4>2. CASE L.keys[p] = 0
          <5>1. db.row[p].filled = 0
            BY <3>3, <4>2 DEF RowsWhole, DeniedRow, NoRow
          <5>2. \A j \in DOMAIN L.fills : L.fills[j].key # p
            BY <3>4, <4>2
          <5>3. filled_by(L.fills, p) = 0
            BY <3>5, <5>2, FilledByNone
          <5>. QED  BY <3>3, <5>1, <5>3
        <4>. QED  BY <4>1, <4>2
      <3>7. \A i \in Instruments : ~derive_cycles(s, i).oversold
        BY <3>3, <3>4 DEF TellsPositions, Holding
      <3>. QED  BY <2>1, <3>6, <3>7 DEF reviewable, derived_outcomes
    <2>. QED  BY <2>2, <2>3, <2>4 DEF OutcomesAreFinal, Idle
  <1>. QED  BY <1>1, RuntimeInvariance, TalesInvariance, PTL
=============================================================================
