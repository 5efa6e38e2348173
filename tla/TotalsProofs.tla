----------------------------- MODULE TotalsProofs -----------------------------
(***************************************************************************)
(* The laws of sums: what Total returns, and how it changes with an entry   *)
(* or a set of entries.                                                     *)
(***************************************************************************)
EXTENDS Totals, FiniteSetTheorems, FunctionTheorems, TLAPS

\* The units x contributes beyond the first a of them.
Block(x, a, n) == {x} \X ((a + 1)..(a + n))

\* A block of n units is finite and has n elements.
LEMMA BlockSize ==
    ASSUME NEW x, NEW a \in Nat, NEW n \in Nat
    PROVE  IsFiniteSet(Block(x, a, n)) /\ Cardinality(Block(x, a, n)) = n
<1> DEFINE I == (a + 1)..(a + n)
           F == [i \in I |-> <<x, i>>]
<1>1. IsFiniteSet(I) /\ Cardinality(I) = n
  BY FS_Interval
<1>2. F \in Bijection(I, Block(x, a, n))
  <2>1. F \in [I -> Block(x, a, n)]
    BY DEF Block
  <2>2. \A i, j \in I : F[i] = F[j] => i = j
    OBVIOUS
  <2>3. \A t \in Block(x, a, n) : \E i \in I : F[i] = t
    BY DEF Block
  <2>4. QED
    BY <2>1, <2>2, <2>3 DEF Bijection, Injection, Surjection, IsInjective
<1>3. ExistsBijection(I, Block(x, a, n))
  BY <1>2 DEF ExistsBijection
<1>4. QED
  BY <1>1, <1>3, FS_Bijection

\* The size of a set grows by the size of what is added to it.
LEMMA DisjointUnion ==
    ASSUME NEW A, IsFiniteSet(A), NEW B, IsFiniteSet(B), A \cap B = {}
    PROVE  Cardinality(A \cup B) = Cardinality(A) + Cardinality(B)
<1>1. Cardinality(A) \in Nat /\ Cardinality(B) \in Nat
  BY FS_CardinalityType
<1>2. QED
  BY <1>1, FS_Union, FS_EmptySet

\* A function on a finite set has finitely many units, so its total is a number.
LEMMA TotalType ==
    ASSUME NEW S, IsFiniteSet(S), NEW f \in [S -> Nat]
    PROVE  IsFiniteSet(Units(f)) /\ Total(f) \in Nat
<1> DEFINE Parts == {{x} \X (1..f[x]) : x \in S}
           F == [x \in S |-> {x} \X (1..f[x])]
<1>1. F \in Surjection(S, Parts)
  BY DEF Surjection
<1>2. IsFiniteSet(Parts)
  BY <1>1, FS_Surjection
<1>3. ASSUME NEW P \in Parts PROVE IsFiniteSet(P)
  <2>1. PICK x \in S : P = {x} \X (1..f[x])
    OBVIOUS
  <2>2. P = Block(x, 0, f[x]) /\ f[x] \in Nat
    BY <2>1 DEF Block
  <2>3. QED
    BY <2>2, BlockSize
<1>4. IsFiniteSet(UNION Parts)
  BY <1>2, <1>3, FS_UNION
<1>5. Units(f) = UNION Parts
  BY DEF Units
<1>6. QED
  BY <1>4, <1>5, FS_CardinalityType DEF Total

\* Two functions that differ by one block of units differ by its size in total.
LEMMA TotalBlock ==
    ASSUME NEW f, NEW g, IsFiniteSet(Units(f)), NEW x, NEW a \in Nat, NEW n \in Nat,
           Units(g) = Units(f) \cup Block(x, a, n), Units(f) \cap Block(x, a, n) = {}
    PROVE  Total(g) = Total(f) + n
<1>1. IsFiniteSet(Block(x, a, n)) /\ Cardinality(Block(x, a, n)) = n
  BY BlockSize
<1>2. QED
  BY <1>1, DisjointUnion DEF Total

\* Adding a key to a function adds the key's value to the total.
LEMMA TotalExtend ==
    ASSUME NEW S, IsFiniteSet(S), NEW f \in [S -> Nat], NEW x, x \notin S,
           NEW g \in [S \cup {x} -> Nat], \A y \in S : g[y] = f[y]
    PROVE  Total(g) = Total(f) + g[x]
<1>1. Units(g) = Units(f) \cup Block(x, 0, g[x])
  <2>1. Units(g) = UNION {{y} \X (1..g[y]) : y \in S \cup {x}}
    BY DEF Units
  <2>2. Units(f) = UNION {{y} \X (1..f[y]) : y \in S}
    BY DEF Units
  <2>3. Block(x, 0, g[x]) = {x} \X (1..g[x])
    BY DEF Block
  <2>4. QED
    BY <2>1, <2>2, <2>3
<1>2. Units(f) \cap Block(x, 0, g[x]) = {}
  BY DEF Units, Block
<1>3. IsFiniteSet(Units(f)) /\ g[x] \in Nat
  BY TotalType
<1>4. QED
  BY <1>1, <1>2, <1>3, TotalBlock

\* Raising one entry by n raises the total by n. Read from g to f: lowering it by n
\* lowers the total by n.
LEMMA TotalIncrease ==
    ASSUME NEW S, IsFiniteSet(S), NEW f \in [S -> Nat], NEW g \in [S -> Nat],
           NEW x \in S, NEW n \in Nat,
           g[x] = f[x] + n, \A y \in S : y # x => g[y] = f[y]
    PROVE  Total(g) = Total(f) + n
<1>1. Units(g) = Units(f) \cup Block(x, f[x], n)
  <2>1. Units(g) = UNION {{y} \X (1..g[y]) : y \in S}
    BY DEF Units
  <2>2. Units(f) = UNION {{y} \X (1..f[y]) : y \in S}
    BY DEF Units
  <2>3. {x} \X (1..g[x]) = {x} \X (1..f[x]) \cup Block(x, f[x], n)
    <3>1. 1..g[x] = (1..f[x]) \cup ((f[x] + 1)..(f[x] + n))
      OBVIOUS
    <3>2. QED
      BY <3>1 DEF Block
  <2>4. QED
    BY <2>1, <2>2, <2>3
<1>2. Units(f) \cap Block(x, f[x], n) = {}
  BY DEF Units, Block
<1>3. IsFiniteSet(Units(f)) /\ f[x] \in Nat
  BY TotalType
<1>4. QED
  BY <1>1, <1>2, <1>3, TotalBlock

\* The total of the zero function is zero.
LEMMA TotalZero ==
    ASSUME NEW S, NEW f \in [S -> {0}]
    PROVE  Total(f) = 0
<1>1. Units(f) = {}
  BY DEF Units
<1>2. QED
  BY <1>1, FS_EmptySet DEF Total

\* One entry of a function is at most its total.
LEMMA TotalBound ==
    ASSUME NEW S, IsFiniteSet(S), NEW f \in [S -> Nat], NEW x \in S
    PROVE  f[x] <= Total(f)
<1> DEFINE g == [f EXCEPT ![x] = 0]
<1>1. /\ g \in [S -> Nat] /\ f[x] \in Nat
      /\ f[x] = g[x] + f[x] /\ \A y \in S : y # x => f[y] = g[y]
  OBVIOUS
<1> HIDE DEF g
<1>2. Total(f) = Total(g) + f[x]
  BY <1>1, TotalIncrease
<1>3. Total(g) \in Nat
  BY <1>1, TotalType
<1>4. QED
  BY <1>1, <1>2, <1>3

\* The total over two disjoint sets of keys is the sum of the totals over each.
LEMMA TotalSplit ==
    ASSUME NEW S, IsFiniteSet(S), NEW T, IsFiniteSet(T), S \cap T = {},
           NEW f \in [S \cup T -> Nat], NEW g \in [S -> Nat], NEW h \in [T -> Nat],
           \A x \in S : g[x] = f[x], \A x \in T : h[x] = f[x]
    PROVE  Total(f) = Total(g) + Total(h)
<1>1. Units(f) = Units(g) \cup Units(h)
  <2>1. Units(f) = UNION {{x} \X (1..f[x]) : x \in S \cup T}
    BY DEF Units
  <2>2. Units(g) = UNION {{x} \X (1..f[x]) : x \in S}
    BY DEF Units
  <2>3. Units(h) = UNION {{x} \X (1..f[x]) : x \in T}
    BY DEF Units
  <2>4. QED
    BY <2>1, <2>2, <2>3
<1>2. Units(g) \cap Units(h) = {}
  BY DEF Units
<1>3. QED
  BY <1>1, <1>2, TotalType, DisjointUnion DEF Total
=============================================================================
