------------------------ MODULE GroupBalancesProofs ------------------------
(***************************************************************************)
(* Proofs about GroupLedger and GroupBalances, for every finite set of     *)
(* members and expenses, any requests, bodies and payments and every       *)
(* tolerance.  The balances are sums over the expenses, so the module      *)
(* starts with what is true of a sum over a finite set; then come the sums *)
(* of a ledger, the ledger's own theorems and those about getBalances.     *)
(* What is known of the loop that lists the payments is                    *)
(* DebtSimplificationProofs'.                                              *)
(***************************************************************************)
EXTENDS GroupBalances, FiniteSetTheorems, WellFoundedInduction, TLAPS

SimplifierProofs == INSTANCE DebtSimplificationProofs WITH Balances <- [Members -> Int]

----------------------------------------------------------------------------
\* Induction over the subsets of a finite set, for a set of subsets.
LEMMA SubsetInduction ==
    ASSUME NEW X, IsFiniteSet(X), NEW T,
           \A s \in SUBSET X : (\A t \in SUBSET s : t # s => t \in T) => s \in T
    PROVE  X \in T
<1>. DEFINE Bad == {s \in SUBSET X : s \notin T}
<1>1. Bad = {}
    <2>. SUFFICES ASSUME Bad # {} PROVE FALSE
        OBVIOUS
    <2>1. IsWellFoundedOn(StrictSubsetOrdering(X), SUBSET X)
        <3>1. FiniteSubsetsOf(X) = SUBSET X
            BY FS_FiniteSubsetsOfFinite
        <3>2. IsWellFoundedOn(StrictSubsetOrdering(X), FiniteSubsetsOf(X))
            BY FS_StrictSubsetOrderingWellFounded
        <3>. QED  BY <3>1, <3>2
    <2>2. \E s \in Bad : \A t \in Bad : ~ (<<t, s>> \in StrictSubsetOrdering(X))
        <3>1. Bad \subseteq SUBSET X
            OBVIOUS
        <3>. HIDE DEF Bad
        <3>. QED  BY <2>1, <3>1, WFMin
    <2>3. PICK s \in Bad : \A t \in Bad : ~ (<<t, s>> \in StrictSubsetOrdering(X))
        BY <2>2
    <2>4. ASSUME NEW t \in SUBSET s, t # s PROVE t \in T
        <3>1. t \in SUBSET X /\ <<t, s>> \in StrictSubsetOrdering(X)
            BY <2>4 DEF StrictSubsetOrdering
        <3>. QED  BY <2>3, <3>1
    <2>. QED  BY <2>4
<1>. QED  BY <1>1

Total(f, X) == MapThenSumSet(LAMBDA x : f[x], X)

First(s) == CHOOSE x \in s : TRUE

\* Unfolds the recursion of the library's sum.
Folds(f, X, h) ==
    h = [s \in SUBSET X |-> IF s = {} THEN 0 ELSE f[First(s)] + h[s \ {First(s)}]]

\* The library's sum is the value of the function that takes a first out at a time.
LEMMA TotalUnfold ==
    ASSUME NEW f, NEW X
    PROVE  Total(f, X) = (CHOOSE h : Folds(f, X, h))[X]
BY DEF Total, MapThenSumSet, MapThenFoldSet, Folds, First

\* The first of a set that is not empty.
LEMMA FirstIn == ASSUME NEW s, s # {} PROVE First(s) \in s
BY DEF First

\* There is one such function at most.
LEMMA FoldsUnique ==
    ASSUME NEW f, NEW X, IsFiniteSet(X), NEW g, NEW h, Folds(f, X, g), Folds(f, X, h)
    PROVE  g[X] = h[X]
<1>. DEFINE T == {s \in SUBSET X : g[s] = h[s]}
<1>1. ASSUME NEW s \in SUBSET X, \A t \in SUBSET s : t # s => t \in T
      PROVE  s \in T
    <2>1. CASE s = {}
        BY <2>1 DEF Folds
    <2>2. CASE s # {}
        <3>1. First(s) \in s /\ s \ {First(s)} \in SUBSET s /\ s \ {First(s)} # s
            BY <2>2, FirstIn
        <3>2. g[s \ {First(s)}] = h[s \ {First(s)}]
            BY <1>1, <3>1
        <3>3. /\ g[s] = f[First(s)] + g[s \ {First(s)}]
              /\ h[s] = f[First(s)] + h[s \ {First(s)}]
            BY <2>2 DEF Folds
        <3>. QED  BY <3>2, <3>3
    <2>. QED  BY <2>1, <2>2
<1>. HIDE DEF T
<1>2. X \in T
    BY <1>1, SubsetInduction
<1>. QED  BY <1>2 DEF T

\* The sum over a set takes its first out.
Unfolds(f, s) ==
    /\ s = {} => Total(f, s) = 0
    /\ s # {} => Total(f, s) = f[First(s)] + Total(f, s \ {First(s)})

\* Every sum over a finite set unfolds.
LEMMA TotalUnfolds ==
    ASSUME NEW f, NEW X, IsFiniteSet(X)
    PROVE  Unfolds(f, X)
<1>. DEFINE T == {s \in SUBSET X : Unfolds(f, s)}
<1>1. ASSUME NEW s \in SUBSET X, \A t \in SUBSET s : t # s => t \in T
      PROVE  s \in T
    <2>. DEFINE r == s \ {First(s)}
                h == [t \in SUBSET s |->
                        IF t = {} THEN 0
                        ELSE IF t = s THEN f[First(s)] + Total(f, r)
                        ELSE Total(f, t)]
    <2>1. IsFiniteSet(s)
        BY FS_Subset
    <2>2. ASSUME NEW t \in SUBSET s
          PROVE  h[t] = IF t = {} THEN 0 ELSE f[First(t)] + h[t \ {First(t)}]
        <3>1. CASE t = {}
            BY <3>1
        <3>2. CASE t # {}
            <4>1. First(t) \in t
                BY <3>2, FirstIn
            <4>2. t \ {First(t)} \in SUBSET s /\ t \ {First(t)} # s
                BY <4>1
            <4>3. h[t \ {First(t)}] = Total(f, t \ {First(t)})
                <5>1. CASE t \ {First(t)} = {}
                    <6>1. {} \in T
                        BY <1>1, <3>2
                    <6>2. Total(f, {}) = 0
                        BY <6>1 DEF Unfolds
                    <6>. QED  BY <4>2, <5>1, <6>2
                <5>2. CASE t \ {First(t)} # {}
                    BY <4>2, <5>2
                <5>. QED  BY <5>1, <5>2
            <4>4. CASE t = s
                BY <3>2, <4>3, <4>4
            <4>5. CASE t # s
                <5>1. Total(f, t) = f[First(t)] + Total(f, t \ {First(t)})
                    BY <1>1, <3>2, <4>5 DEF Unfolds
                <5>2. h[t] = Total(f, t)
                    BY <3>2, <4>5
                <5>. QED  BY <3>2, <4>3, <5>1, <5>2
            <4>. QED  BY <4>4, <4>5
        <3>. QED  BY <3>1, <3>2
    <2>3. Folds(f, s, h)
        <3>1. h = [t \in SUBSET s |-> h[t]]
            OBVIOUS
        <3>. HIDE DEF h
        <3>2. [t \in SUBSET s |-> h[t]]
              = [t \in SUBSET s |-> IF t = {} THEN 0 ELSE f[First(t)] + h[t \ {First(t)}]]
            BY <2>2
        <3>. QED  BY <3>1, <3>2 DEF Folds
    <2>4. h[s] = IF s = {} THEN 0 ELSE f[First(s)] + Total(f, r)
        OBVIOUS
    <2>. HIDE DEF h
    <2>5. Total(f, s) = h[s]
        <3>1. Folds(f, s, CHOOSE g : Folds(f, s, g))
            BY <2>3
        <3>. QED  BY <2>1, <2>3, <3>1, FoldsUnique, TotalUnfold
    <2>. QED  BY <2>4, <2>5 DEF Unfolds
<1>. HIDE DEF T
<1>2. X \in T
    BY <1>1, SubsetInduction
<1>. QED  BY <1>2 DEF T

\* The empty sum.
LEMMA TotalEmpty == ASSUME NEW f PROVE Total(f, {}) = 0
BY TotalUnfolds, FS_EmptySet DEF Unfolds

\* A sum of integers is one, and of naturals.
LEMMA TotalType ==
    ASSUME NEW X, IsFiniteSet(X), NEW f, \A x \in X : f[x] \in Int
    PROVE  /\ Total(f, X) \in Int
           /\ (\A x \in X : f[x] >= 0) => Total(f, X) >= 0
<1>. DEFINE T == {s \in SUBSET X : /\ Total(f, s) \in Int
                                   /\ (\A x \in X : f[x] >= 0) => Total(f, s) >= 0}
<1>1. ASSUME NEW s \in SUBSET X, \A t \in SUBSET s : t # s => t \in T
      PROVE  s \in T
    <2>1. CASE s = {}
        BY <2>1, TotalEmpty
    <2>2. CASE s # {}
        <3>1. First(s) \in s /\ s \ {First(s)} \in SUBSET s /\ s \ {First(s)} # s
            BY <2>2, FirstIn
        <3>2. Total(f, s) = f[First(s)] + Total(f, s \ {First(s)})
            BY <2>2, TotalUnfolds, FS_Subset DEF Unfolds
        <3>3. s \ {First(s)} \in T /\ First(s) \in X
            BY <1>1, <3>1
        <3>. QED  BY <3>2, <3>3
    <2>. QED  BY <2>1, <2>2
<1>. HIDE DEF T
<1>2. X \in T
    BY <1>1, SubsetInduction
<1>. QED  BY <1>2 DEF T

\* Any element can be taken out of a sum.
LEMMA TotalStep ==
    ASSUME NEW X, IsFiniteSet(X), NEW f, \A x \in X : f[x] \in Int, NEW y \in X
    PROVE  Total(f, X) = f[y] + Total(f, X \ {y})
<1>. DEFINE T == {s \in SUBSET X : \A z \in s : Total(f, s) = f[z] + Total(f, s \ {z})}
<1>1. ASSUME NEW s \in SUBSET X, \A t \in SUBSET s : t # s => t \in T
      PROVE  s \in T
    <2>. SUFFICES ASSUME NEW z \in s PROVE Total(f, s) = f[z] + Total(f, s \ {z})
        OBVIOUS
    <2>. DEFINE first == First(s)
    <2>1. first \in s /\ s \ {first} \in SUBSET s /\ s \ {first} # s
        BY FirstIn
    <2>2. Total(f, s) = f[first] + Total(f, s \ {first})
        BY TotalUnfolds, FS_Subset DEF Unfolds
    <2>. HIDE DEF first
    <2>3. CASE z = first
        BY <2>2, <2>3
    <2>4. CASE z # first
        <3>1. s \ {first} \in T /\ s \ {z} \in T
            BY <1>1, <2>1
        <3>2. /\ Total(f, s \ {first}) = f[z] + Total(f, (s \ {first}) \ {z})
              /\ Total(f, s \ {z}) = f[first] + Total(f, (s \ {z}) \ {first})
            BY <2>1, <2>4, <3>1
        <3>3. (s \ {first}) \ {z} = (s \ {z}) \ {first}
            OBVIOUS
        <3>4. f[first] \in Int /\ f[z] \in Int /\ Total(f, (s \ {z}) \ {first}) \in Int
            <4>1. IsFiniteSet((s \ {z}) \ {first})
                BY FS_Subset
            <4>. QED  BY <2>1, <4>1, TotalType
        <3>5. PICK a \in Int, b \in Int, r \in Int :
                  a = f[first] /\ b = f[z] /\ r = Total(f, (s \ {z}) \ {first})
            BY <3>4
        <3>6. Total(f, s) = a + (b + r) /\ Total(f, s \ {z}) = a + r
            BY <2>2, <3>2, <3>3, <3>5
        <3>7. a + (b + r) = b + (a + r)
            OBVIOUS
        <3>. QED  BY <3>5, <3>6, <3>7
    <2>. QED  BY <2>3, <2>4
<1>. HIDE DEF T
<1>2. X \in T
    BY <1>1, SubsetInduction
<1>. QED  BY <1>2 DEF T

\* A sum depends on the values at its set alone.
LEMMA TotalSame ==
    ASSUME NEW X, IsFiniteSet(X), NEW f, NEW g, \A x \in X : f[x] = g[x]
    PROVE  Total(f, X) = Total(g, X)
<1>. DEFINE T == {s \in SUBSET X : Total(f, s) = Total(g, s)}
<1>1. ASSUME NEW s \in SUBSET X, \A t \in SUBSET s : t # s => t \in T
      PROVE  s \in T
    <2>1. CASE s = {}
        BY <2>1, TotalEmpty
    <2>2. CASE s # {}
        <3>1. First(s) \in s /\ s \ {First(s)} \in SUBSET s /\ s \ {First(s)} # s
            BY <2>2, FirstIn
        <3>2. /\ Total(f, s) = f[First(s)] + Total(f, s \ {First(s)})
              /\ Total(g, s) = g[First(s)] + Total(g, s \ {First(s)})
            BY <2>2, TotalUnfolds, FS_Subset DEF Unfolds
        <3>. QED  BY <1>1, <3>1, <3>2
    <2>. QED  BY <2>1, <2>2
<1>. HIDE DEF T
<1>2. X \in T
    BY <1>1, SubsetInduction
<1>. QED  BY <1>2 DEF T

IntsOn(f, X) == \A x \in X : f[x] \in Int

AddsUp(f, g, h, X) == \A x \in X : f[x] \in Int /\ g[x] \in Int /\ h[x] = f[x] + g[x]

\* Any element can be taken out of a sum over a part of a set.
LEMMA TotalOut ==
    ASSUME NEW X, IsFiniteSet(X), NEW f, IntsOn(f, X), NEW s \in SUBSET X, NEW y \in s
    PROVE  /\ Total(f, s) = f[y] + Total(f, s \ {y})
           /\ f[y] \in Int
           /\ Total(f, s \ {y}) \in Int
           /\ Total(f, s) \in Int
<1>1. IsFiniteSet(s) /\ IsFiniteSet(s \ {y})
    BY FS_Subset
<1>2. \A x \in s : f[x] \in Int
    BY DEF IntsOn
<1>3. Total(f, s) = f[y] + Total(f, s \ {y})
    BY <1>1, <1>2, TotalStep
<1>4. Total(f, s \ {y}) \in Int /\ Total(f, s) \in Int
    BY <1>1, <1>2, TotalType
<1>. QED  BY <1>2, <1>3, <1>4

\* The same, with what IntsOn says spelt out.
LEMMA TotalPart ==
    ASSUME NEW X, IsFiniteSet(X), NEW f, \A x \in X : f[x] \in Int,
           NEW s \in SUBSET X, NEW y \in s
    PROVE  /\ Total(f, s) = f[y] + Total(f, s \ {y})
           /\ f[y] \in Int
           /\ Total(f, s \ {y}) \in Int
           /\ Total(f, s) \in Int
BY TotalOut DEF IntsOn

\* The sum of sums, and of differences.
LEMMA TotalPlus ==
    ASSUME NEW X, IsFiniteSet(X),
           NEW f, NEW g, NEW h, AddsUp(f, g, h, X)
    PROVE  Total(h, X) = Total(f, X) + Total(g, X)
<1>. DEFINE T == {s \in SUBSET X : Total(h, s) = Total(f, s) + Total(g, s)}
<1>1. ASSUME NEW s \in SUBSET X, \A t \in SUBSET s : t # s => t \in T
      PROVE  s \in T
    <2>1. CASE s = {}
        BY <2>1, TotalEmpty
    <2>2. CASE s # {}
        <3>1. PICK y : y \in s
            BY <2>2
        <3>2. s \ {y} \in SUBSET s /\ s \ {y} # s /\ y \in X
            BY <3>1
        <3>3. s \ {y} \in T
            BY <1>1, <3>2
        <3>4. IntsOn(f, X) /\ IntsOn(g, X) /\ IntsOn(h, X)
            BY DEF AddsUp, IntsOn
        <3>. HIDE DEF T
        <3>5. Total(f, s) = f[y] + Total(f, s \ {y})
            BY <3>1, <3>4, TotalOut
        <3>5i. f[y] \in Int /\ Total(f, s \ {y}) \in Int
            BY <3>1, <3>4, TotalOut
        <3>6. Total(g, s) = g[y] + Total(g, s \ {y})
            BY <3>1, <3>4, TotalOut
        <3>6i. g[y] \in Int /\ Total(g, s \ {y}) \in Int
            BY <3>1, <3>4, TotalOut
        <3>7. Total(h, s) = h[y] + Total(h, s \ {y})
            BY <3>1, <3>4, TotalOut
        <3>8. h[y] = f[y] + g[y] /\ Total(h, s \ {y}) = Total(f, s \ {y}) + Total(g, s \ {y})
            BY <3>2, <3>3 DEF T, AddsUp
        <3>9. Total(h, s) = Total(f, s) + Total(g, s)
            BY <3>5, <3>6, <3>7, <3>8, <3>5i, <3>6i
        <3>. QED  BY <3>9 DEF T
    <2>. QED  BY <2>1, <2>2
<1>. HIDE DEF T
<1>2. X \in T
    BY <1>1, SubsetInduction
<1>. QED  BY <1>2 DEF T

\* The sum of differences.
LEMMA TotalMinus ==
    ASSUME NEW X, IsFiniteSet(X),
           NEW f, NEW g, NEW h,
           \A x \in X : f[x] \in Int /\ g[x] \in Int /\ h[x] = f[x] - g[x]
    PROVE  Total(h, X) = Total(f, X) - Total(g, X)
<1>1. \A x \in X : h[x] \in Int /\ g[x] \in Int /\ f[x] = h[x] + g[x]
    OBVIOUS
<1>2. Total(f, X) = Total(h, X) + Total(g, X)
    BY <1>1, TotalPlus DEF AddsUp
<1>3. Total(h, X) \in Int /\ Total(g, X) \in Int
    BY <1>1, TotalType
<1>. QED  BY <1>2, <1>3

\* Where all but one of the values are zero.
LEMMA TotalZero ==
    ASSUME NEW X, IsFiniteSet(X), NEW f, \A x \in X : f[x] = 0
    PROVE  Total(f, X) = 0
<1>1. \A x \in X : f[x] \in Int /\ f[x] = f[x] + f[x]
    OBVIOUS
<1>2. Total(f, X) = Total(f, X) + Total(f, X)
    BY <1>1, TotalPlus DEF AddsUp
<1>3. Total(f, X) \in Int
    BY <1>1, TotalType
<1>. QED  BY <1>2, <1>3

\* Where all but one of the values are zero, that one is the sum.
LEMMA TotalOne ==
    ASSUME NEW X, IsFiniteSet(X), NEW f, NEW y \in X, f[y] \in Int,
           \A x \in X \ {y} : f[x] = 0
    PROVE  Total(f, X) = f[y]
<1>1. \A x \in X : f[x] \in Int
    OBVIOUS
<1>2. Total(f, X) = f[y] + Total(f, X \ {y})
    BY <1>1, TotalStep
<1>3. IsFiniteSet(X \ {y})
    BY FS_Subset
<1>4. Total(f, X \ {y}) = 0
    BY <1>3, TotalZero
<1>. QED  BY <1>2, <1>4

\* The sum over a part is that over the whole of what is zero outside the part.
LEMMA TotalWhere ==
    ASSUME NEW X, IsFiniteSet(X), NEW Y \in SUBSET X, NEW f, \A x \in Y : f[x] \in Int,
           NEW g, \A x \in X : g[x] = IF x \in Y THEN f[x] ELSE 0
    PROVE  Total(f, Y) = Total(g, X)
<1>. DEFINE T == {s \in SUBSET X : Total(f, s \cap Y) = Total(g, s)}
<1>1. ASSUME NEW s \in SUBSET X, \A t \in SUBSET s : t # s => t \in T
      PROVE  s \in T
    <2>1. CASE s = {}
        <3>1. s \cap Y = {}
            BY <2>1
        <3>. QED  BY <2>1, <3>1, TotalEmpty
    <2>2. CASE s # {}
        <3>1. PICK y : y \in s
            BY <2>2
        <3>2. s \ {y} \in SUBSET s /\ s \ {y} # s /\ y \in X
            BY <3>1
        <3>3. Total(f, (s \ {y}) \cap Y) = Total(g, s \ {y})
            BY <1>1, <3>2
        <3>4. \A x \in X : g[x] \in Int
            OBVIOUS
        <3>5. /\ Total(g, s) = g[y] + Total(g, s \ {y})
              /\ Total(g, s \ {y}) \in Int
            BY <3>1, <3>4, TotalPart
        <3>6. CASE y \in Y
            <4>1. IsFiniteSet(Y) /\ s \cap Y \in SUBSET Y /\ y \in s \cap Y
                BY <3>1, <3>6, FS_Subset
            <4>2. Total(f, s \cap Y) = f[y] + Total(f, (s \cap Y) \ {y})
                BY <4>1, TotalPart
            <4>3. (s \cap Y) \ {y} = (s \ {y}) \cap Y /\ g[y] = f[y]
                BY <3>2, <3>6
            <4>. QED  BY <3>3, <3>5, <4>2, <4>3
        <3>7. CASE y \notin Y
            <4>1. s \cap Y = (s \ {y}) \cap Y /\ g[y] = 0
                BY <3>2, <3>7
            <4>2. PICK r \in Int : r = Total(g, s \ {y})
                BY <3>5
            <4>3. Total(g, s) = 0 + r
                BY <3>5, <4>1, <4>2
            <4>4. Total(f, s \cap Y) = r
                BY <3>3, <4>1, <4>2
            <4>. QED  BY <4>3, <4>4
        <3>. QED  BY <3>6, <3>7
    <2>. QED  BY <2>1, <2>2
<1>. HIDE DEF T
<1>2. X \in T
    BY <1>1, SubsetInduction
<1>3. X \cap Y = Y
    OBVIOUS
<1>. QED  BY <1>2, <1>3 DEF T

\* The order of summation can be turned round.
LEMMA TotalSwap ==
    ASSUME NEW X, IsFiniteSet(X), NEW Y, IsFiniteSet(Y),
           NEW F, \A x \in X, y \in Y : F[x][y] \in Int,
           NEW row, \A x \in X : row[x] = Total(F[x], Y),
           NEW col, NEW G, \A y \in Y : col[y] = Total(G[y], X),
           \A x \in X, y \in Y : G[y][x] = F[x][y]
    PROVE  Total(row, X) = Total(col, Y)
<1>. DEFINE Col(s) == [y \in Y |-> Total(G[y], s)]
            T == {s \in SUBSET X : Total(row, s) = Total(Col(s), Y)}
<1>0. \A x \in X : row[x] \in Int
    BY TotalType
<1>1. ASSUME NEW s \in SUBSET X, \A t \in SUBSET s : t # s => t \in T
      PROVE  s \in T
    <2>1. CASE s = {}
        <3>1. \A y \in Y : Col(s)[y] = 0
            BY <2>1, TotalEmpty
        <3>. HIDE DEF Col
        <3>2. Total(Col(s), Y) = 0
            BY <3>1, TotalZero
        <3>. QED  BY <2>1, <3>2, TotalEmpty
    <2>2. CASE s # {}
        <3>1. PICK x : x \in s
            BY <2>2
        <3>2. s \ {x} \in SUBSET s /\ s \ {x} # s /\ x \in X
            BY <3>1
        <3>3. Total(row, s \ {x}) = Total(Col(s \ {x}), Y)
            BY <1>1, <3>2
        <3>4. /\ Total(row, s) = row[x] + Total(row, s \ {x})
            BY <1>0, <3>1, TotalPart
        <3>5. ASSUME NEW y \in Y
              PROVE  /\ F[x][y] \in Int
                     /\ Col(s \ {x})[y] \in Int
                     /\ Col(s)[y] = F[x][y] + Col(s \ {x})[y]
            <4>1. \A z \in X : G[y][z] \in Int
                OBVIOUS
            <4>. PICK g : g = G[y]
                OBVIOUS
            <4>2. Total(g, s) = g[x] + Total(g, s \ {x}) /\ Total(g, s \ {x}) \in Int
                BY <3>1, <4>1, TotalPart
            <4>. QED  BY <3>2, <4>2
        <3>. HIDE DEF Col, T
        <3>6. Total(Col(s), Y) = Total(F[x], Y) + Total(Col(s \ {x}), Y)
            <4>. PICK p, q, r : p = F[x] /\ q = Col(s \ {x}) /\ r = Col(s)
                OBVIOUS
            <4>1. AddsUp(p, q, r, Y)
                BY <3>5 DEF AddsUp
            <4>2. Total(r, Y) = Total(p, Y) + Total(q, Y)
                BY <4>1, TotalPlus
            <4>. QED  BY <4>2
        <3>. QED  BY <3>2, <3>3, <3>4, <3>6 DEF T
    <2>. QED  BY <2>1, <2>2
<1>. HIDE DEF T
<1>2. X \in T
    BY <1>1, SubsetInduction
<1>3. \A y \in Y : Col(X)[y] = col[y]
    OBVIOUS
<1>4. Total(Col(X), Y) = Total(col, Y)
    <2>. HIDE DEF Col
    <2>. QED  BY <1>3, TotalSame
<1>. QED  BY <1>2, <1>4 DEF T

\* A sum over an image, of a function that takes no value twice.
LEMMA TotalImage ==
    ASSUME NEW X, IsFiniteSet(X), NEW k, \A x, y \in X : k[x] = k[y] => x = y,
           NEW f, NEW g, \A x \in X : g[x] \in Int /\ f[k[x]] = g[x]
    PROVE  Total(f, {k[x] : x \in X}) = Total(g, X)
<1>. DEFINE T == {s \in SUBSET X : Total(f, {k[x] : x \in s}) = Total(g, s)}
<1>1. ASSUME NEW s \in SUBSET X, \A t \in SUBSET s : t # s => t \in T
      PROVE  s \in T
    <2>1. CASE s = {}
        <3>1. {k[x] : x \in s} = {}
            BY <2>1
        <3>. QED  BY <2>1, <3>1, TotalEmpty
    <2>2. CASE s # {}
        <3>1. PICK y : y \in s
            BY <2>2
        <3>2. s \ {y} \in SUBSET s /\ s \ {y} # s /\ y \in X
            BY <3>1
        <3>. DEFINE K == {k[x] : x \in s}
        <3>3. Total(f, {k[x] : x \in s \ {y}}) = Total(g, s \ {y})
            BY <1>1, <3>2
        <3>4. Total(g, s) = g[y] + Total(g, s \ {y})
            BY <3>1, TotalPart
        <3>5. IsFiniteSet(K)
            <4>1. IsFiniteSet(s)
                BY FS_Subset
            <4>. DEFINE kk == [x \in s |-> k[x]]
            <4>2. K = {kk[x] : x \in s} /\ kk \in [s -> K]
                OBVIOUS
            <4>3. kk \in Surjection(s, K)
                BY <4>2 DEF Surjection
            <4>. QED  BY <4>1, <4>3, FS_Surjection
        <3>6. \A z \in K : f[z] \in Int
            OBVIOUS
        <3>7. k[y] \in K /\ K \ {k[y]} = {k[x] : x \in s \ {y}}
            BY <3>1
        <3>. HIDE DEF K
        <3>8. Total(f, K) = f[k[y]] + Total(f, K \ {k[y]})
            BY <3>5, <3>6, <3>7, TotalStep
        <3>. QED  BY <3>2, <3>3, <3>4, <3>7, <3>8 DEF K
    <2>. QED  BY <2>1, <2>2
<1>. HIDE DEF T
<1>2. X \in T
    BY <1>1, SubsetInduction
<1>. QED  BY <1>2 DEF T

\* The values above zero, less what the others are below it, are all of them.
LEMMA TotalSides ==
    ASSUME NEW X, IsFiniteSet(X), NEW f, NEW g,
           \A x \in X : f[x] \in Int /\ g[x] = -f[x]
    PROVE  Total(f, {x \in X : f[x] > 0}) - Total(g, {x \in X : g[x] > 0}) = Total(f, X)
<1>. DEFINE up   == [x \in X |-> IF f[x] > 0 THEN f[x] ELSE 0]
            down == [x \in X |-> IF g[x] > 0 THEN g[x] ELSE 0]
<1>1. \A x \in X : /\ up[x] \in Int /\ down[x] \in Int /\ f[x] = up[x] - down[x]
                   /\ up[x] = IF x \in {z \in X : f[z] > 0} THEN f[x] ELSE 0
                   /\ down[x] = IF x \in {z \in X : g[z] > 0} THEN g[x] ELSE 0
                   /\ g[x] \in Int
    OBVIOUS
<1>. HIDE DEF up, down
<1>2. Total(f, {x \in X : f[x] > 0}) = Total(up, X)
    <2>. DEFINE Y == {z \in X : f[z] > 0}
    <2>1. Y \in SUBSET X /\ \A x \in Y : f[x] \in Int
        OBVIOUS
    <2>2. \A x \in X : up[x] = IF x \in Y THEN f[x] ELSE 0
        BY <1>1
    <2>. HIDE DEF Y
    <2>3. Total(f, Y) = Total(up, X)
        BY <2>1, <2>2, TotalWhere
    <2>. QED  BY <2>3 DEF Y
<1>3. Total(g, {x \in X : g[x] > 0}) = Total(down, X)
    <2>. DEFINE Y == {z \in X : g[z] > 0}
    <2>1. Y \in SUBSET X /\ \A x \in Y : g[x] \in Int
        BY <1>1
    <2>2. \A x \in X : down[x] = IF x \in Y THEN g[x] ELSE 0
        BY <1>1
    <2>. HIDE DEF Y
    <2>3. Total(g, Y) = Total(down, X)
        BY <2>1, <2>2, TotalWhere
    <2>. QED  BY <2>3 DEF Y
<1>4. Total(f, X) = Total(up, X) - Total(down, X)
    BY <1>1, TotalMinus
<1>. QED  BY <1>2, <1>3, <1>4

\* What is at most zero everywhere and does not sum to less is zero everywhere.
LEMMA TotalNothing ==
    ASSUME NEW X, IsFiniteSet(X), NEW f, \A x \in X : f[x] \in Int /\ f[x] <= 0,
           Total(f, X) >= 0
    PROVE  \A x \in X : f[x] = 0
<1>. SUFFICES ASSUME NEW y \in X PROVE f[y] = 0
    OBVIOUS
<1>1. Total(f, X) = f[y] + Total(f, X \ {y}) /\ f[y] \in Int /\ Total(f, X \ {y}) \in Int
    BY TotalPart
<1>. DEFINE g == [x \in X |-> 0 - f[x]]
            z == [x \in X |-> 0]
<1>2. \A x \in X \ {y} : g[x] \in Int /\ g[x] >= 0 /\ z[x] \in Int /\ f[x] \in Int
                         /\ g[x] = z[x] - f[x] /\ z[x] = 0
    OBVIOUS
<1>3. IsFiniteSet(X \ {y})
    BY FS_Subset
<1>. HIDE DEF g, z
<1>4. /\ Total(g, X \ {y}) >= 0
      /\ Total(z, X \ {y}) = 0
      /\ Total(g, X \ {y}) = Total(z, X \ {y}) - Total(f, X \ {y})
    BY <1>2, <1>3, TotalType, TotalZero, TotalMinus
<1>5. f[y] <= 0
    OBVIOUS
<1>. QED  BY <1>1, <1>4, <1>5

\* A sum with one more.
LEMMA TotalMore ==
    ASSUME NEW X, IsFiniteSet(X), NEW e, e \notin X, NEW f, NEW k,
           IntsOn(k, X \cup {e}), \A x \in X : k[x] = f[x]
    PROVE  Total(k, X \cup {e}) = k[e] + Total(f, X)
<1>1. IsFiniteSet(X \cup {e})
  BY FS_AddElement
<1>2. Total(k, X \cup {e}) = k[e] + Total(k, (X \cup {e}) \ {e})
  BY <1>1, TotalStep DEF IntsOn
<1>3. (X \cup {e}) \ {e} = X
  OBVIOUS
<1>4. Total(k, X) = Total(f, X)
  BY TotalSame
<1>. QED  BY <1>2, <1>3, <1>4

----------------------------------------------------------------------------
\* The balances of a ledger g as sums over its expenses.
In(g) == {e \in Expenses : g[e] # None}

Docs(g) == \A e \in In(g) : g[e] \in Doc

NetOf(g) ==
    [m \in Members |->
        MapThenSumSet(LAMBDA e : (IF g[e].paidBy = m THEN g[e].total ELSE 0)
                                 - g[e].split[m],
                      In(g))]

OwesOf(g, a, b) ==
    IF a = b THEN 0
    ELSE MapThenSumSet(LAMBDA e : g[e].split[a], {e \in In(g) : g[e].paidBy = b})

\* What an expense adds to the balance of a member.
Flow(g, m) ==
    [e \in Expenses |-> (IF g[e].paidBy = m THEN g[e].total ELSE 0) - g[e].split[m]]

\* What it adds to what a owes b.
Share(g, a, b) ==
    [e \in Expenses |-> IF a # b /\ g[e].paidBy = b THEN g[e].split[a] ELSE 0]

\* What its total has over its splits.
Excess(g) == [e \in Expenses |-> g[e].total - SumFunction(g[e].split)]

\* A ledger has finitely many expenses.
LEMMA InFinite == ASSUME NEW g PROVE IsFiniteSet(In(g))
BY FiniteAssumption, FS_Subset DEF In

\* The figures of an expense are integers, with one split for each member.
LEMMA Figures ==
    ASSUME NEW g, Docs(g), NEW e \in In(g)
    PROVE  /\ e \in Expenses
           /\ g[e].paidBy \in Members
           /\ g[e].total \in Int
           /\ DOMAIN g[e].split = Members
           /\ \A m \in Members : g[e].split[m] \in Int
<1>1. g[e] \in Doc /\ e \in Expenses
  BY DEF Docs, In
<1>. QED  BY <1>1 DEF Doc, Split

\* A function's sum is the one over its domain.
LEMMA SumIsTotal == ASSUME NEW f PROVE SumFunction(f) = Total(f, DOMAIN f)
BY DEF SumFunction, SumFunctionOnSet, FoldFunctionOnSet, Total, MapThenSumSet, MapThenFoldSet

FoldsFlow(g, m, X, h) ==
    h = [s \in SUBSET X |->
            IF s = {} THEN 0
            ELSE ((IF g[First(s)].paidBy = m THEN g[First(s)].total ELSE 0)
                    - g[First(s)].split[m]) + h[s \ {First(s)}]]

\* A balance is a sum of flows.
LEMMA NetTotal ==
    ASSUME NEW g, NEW m \in Members
    PROVE  NetOf(g)[m] = Total(Flow(g, m), In(g))
<1>. DEFINE X == In(g)
            f == Flow(g, m)
<1>1. NetOf(g)[m] = (CHOOSE h : FoldsFlow(g, m, X, h))[X]
  BY DEF NetOf, MapThenSumSet, MapThenFoldSet, FoldsFlow, First
<1>2. ASSUME NEW h PROVE Folds(f, X, h) <=> FoldsFlow(g, m, X, h)
  <2>. DEFINE A(s) == IF s = {} THEN 0 ELSE f[First(s)] + h[s \ {First(s)}]
              B(s) == IF s = {} THEN 0
                      ELSE ((IF g[First(s)].paidBy = m THEN g[First(s)].total ELSE 0)
                              - g[First(s)].split[m]) + h[s \ {First(s)}]
  <2>1. ASSUME NEW s \in SUBSET X PROVE A(s) = B(s)
    <3>1. CASE s = {}
      BY <3>1
    <3>2. CASE s # {}
      <4>1. First(s) \in Expenses
        BY <3>2, FirstIn DEF In
      <4>2. f[First(s)] = (IF g[First(s)].paidBy = m THEN g[First(s)].total ELSE 0)
                              - g[First(s)].split[m]
        BY <4>1 DEF Flow
      <4>. HIDE DEF f
      <4>. QED  BY <3>2, <4>2
    <3>. QED  BY <3>1, <3>2
  <2>. HIDE DEF A, B
  <2>2. [s \in SUBSET X |-> A(s)] = [s \in SUBSET X |-> B(s)]
    BY <2>1
  <2>. QED  BY <2>2 DEF A, B, Folds, FoldsFlow
<1>. HIDE DEF f, X
<1>3. (CHOOSE h : Folds(f, X, h)) = (CHOOSE h : FoldsFlow(g, m, X, h))
  BY <1>2
<1>. QED  BY <1>1, <1>3, TotalUnfold DEF f, X

Splits(g, a) == [e \in Expenses |-> g[e].split[a]]

PaidIn(g, b) == {e \in In(g) : g[e].paidBy = b}

FoldsSplits(g, a, X, h) ==
    h = [s \in SUBSET X |->
            IF s = {} THEN 0 ELSE g[First(s)].split[a] + h[s \ {First(s)}]]

\* What a owes b, as a sum over what b has paid.
LEMMA SplitsTotal ==
    ASSUME NEW g, NEW a, NEW b, a # b
    PROVE  OwesOf(g, a, b) = Total(Splits(g, a), PaidIn(g, b))
<1>. DEFINE X == PaidIn(g, b)
            f == Splits(g, a)
<1>1. OwesOf(g, a, b) = (CHOOSE h : FoldsSplits(g, a, X, h))[X]
  BY DEF OwesOf, MapThenSumSet, MapThenFoldSet, FoldsSplits, First, PaidIn
<1>2. ASSUME NEW h PROVE Folds(f, X, h) <=> FoldsSplits(g, a, X, h)
  <2>. DEFINE A(s) == IF s = {} THEN 0 ELSE f[First(s)] + h[s \ {First(s)}]
              B(s) == IF s = {} THEN 0 ELSE g[First(s)].split[a] + h[s \ {First(s)}]
  <2>1. ASSUME NEW s \in SUBSET X PROVE A(s) = B(s)
    <3>1. CASE s = {}
      BY <3>1
    <3>2. CASE s # {}
      <4>1. First(s) \in Expenses
        BY <3>2, FirstIn DEF PaidIn, In
      <4>. QED  BY <3>2, <4>1 DEF Splits
    <3>. QED  BY <3>1, <3>2
  <2>. HIDE DEF A, B
  <2>2. [s \in SUBSET X |-> A(s)] = [s \in SUBSET X |-> B(s)]
    BY <2>1
  <2>. QED  BY <2>2 DEF A, B, Folds, FoldsSplits
<1>. HIDE DEF f, X
<1>3. (CHOOSE h : Folds(f, X, h)) = (CHOOSE h : FoldsSplits(g, a, X, h))
  BY <1>2
<1>. QED  BY <1>1, <1>3, TotalUnfold DEF f, X

\* A share is an integer.
LEMMA ShareType ==
    ASSUME NEW g, Docs(g), NEW a \in Members, NEW b \in Members, NEW e \in In(g)
    PROVE  /\ Share(g, a, b)[e] \in Int
           /\ Share(g, a, b)[e] = IF a # b /\ g[e].paidBy = b THEN g[e].split[a] ELSE 0
<1>1. e \in Expenses /\ g[e].split[a] \in Int
  BY Figures
<1>. QED  BY <1>1 DEF Share

\* What a owes b is a sum of shares.
LEMMA OwesTotal ==
    ASSUME NEW g, Docs(g), NEW a \in Members, NEW b \in Members
    PROVE  /\ OwesOf(g, a, b) = Total(Share(g, a, b), In(g))
           /\ OwesOf(g, a, b) \in Int
<1>. DEFINE X == In(g)
            Y == PaidIn(g, b)
            f == Splits(g, a)
            k == Share(g, a, b)
<1>1. \A e \in X : k[e] \in Int /\ k[e] = IF a # b /\ e \in Y THEN f[e] ELSE 0
  <2>. SUFFICES ASSUME NEW e \in X
                PROVE  k[e] \in Int /\ k[e] = IF a # b /\ e \in Y THEN f[e] ELSE 0
    OBVIOUS
  <2>1. k[e] \in Int /\ k[e] = IF a # b /\ g[e].paidBy = b THEN g[e].split[a] ELSE 0
    BY ShareType
  <2>2. e \in Expenses
    BY Figures
  <2>. QED  BY <2>1, <2>2 DEF PaidIn, Splits
<1>2. IsFiniteSet(X) /\ Y \in SUBSET X
  BY InFinite DEF PaidIn
<1>. HIDE DEF X, Y, f, k
<1>3. CASE a = b
  <2>1. Total(k, X) = 0
    BY <1>1, <1>2, <1>3, TotalZero
  <2>. QED  BY <1>3, <2>1 DEF OwesOf, k, X
<1>4. CASE a # b
  <2>1. \A e \in Y : f[e] \in Int
    BY <1>1, <1>2, <1>4
  <2>2. \A e \in X : k[e] = IF e \in Y THEN f[e] ELSE 0
    BY <1>1, <1>4
  <2>3. Total(f, Y) = Total(k, X)
    BY <1>2, <2>1, <2>2, TotalWhere
  <2>4. Total(k, X) \in Int
    BY <1>1, <1>2, TotalType
  <2>. QED  BY <1>4, <2>3, <2>4, SplitsTotal DEF f, k, X, Y
<1>. QED  BY <1>3, <1>4

\* So is a flow.
LEMMA FlowType ==
    ASSUME NEW g, Docs(g), NEW m \in Members, NEW e \in In(g)
    PROVE  /\ Flow(g, m)[e] = (IF g[e].paidBy = m THEN g[e].total ELSE 0) - g[e].split[m]
           /\ Flow(g, m)[e] \in Int
<1>1. e \in Expenses /\ g[e].split[m] \in Int /\ g[e].total \in Int
  BY Figures
<1>. QED  BY <1>1 DEF Flow

\* Balances are integers.
LEMMA NetType ==
    ASSUME NEW g, Docs(g)
    PROVE  NetOf(g) \in [Members -> Int]
<1>1. ASSUME NEW m \in Members PROVE NetOf(g)[m] \in Int
  <2>. DEFINE X == In(g)
              f == Flow(g, m)
  <2>1. IsFiniteSet(X) /\ \A e \in X : f[e] \in Int
    BY InFinite, FlowType
  <2>. HIDE DEF X, f
  <2>2. Total(f, X) \in Int
    BY <2>1, TotalType
  <2>. QED  BY <2>2, NetTotal DEF X, f
<1>2. NetOf(g) = [m \in Members |-> NetOf(g)[m]]
  BY DEF NetOf
<1>. QED  BY <1>1, <1>2

\* A split's amounts sum to an integer.
LEMMA ExcessType ==
    ASSUME NEW g, Docs(g), NEW e \in In(g)
    PROVE  /\ Total(g[e].split, Members) \in Int
           /\ Excess(g)[e] = g[e].total - Total(g[e].split, Members)
           /\ Excess(g)[e] \in Int
<1>1. /\ e \in Expenses /\ g[e].total \in Int /\ DOMAIN g[e].split = Members
      /\ \A m \in Members : g[e].split[m] \in Int
  BY Figures
<1>2. PICK q : q = g[e].split
  OBVIOUS
<1>3. Total(q, Members) \in Int
  BY <1>1, <1>2, FiniteAssumption, TotalType
<1>4. SumFunction(q) = Total(q, Members)
  BY <1>1, <1>2, SumIsTotal
<1>. QED  BY <1>1, <1>2, <1>3, <1>4 DEF Excess

\* What an expense adds to all the balances together is its drift.
LEMMA FlowsSum ==
    ASSUME NEW g, Docs(g), NEW e \in In(g), NEW row,
           \A m \in Members : row[m] = Flow(g, m)[e]
    PROVE  Total(row, Members) = Excess(g)[e]
<1>1. /\ g[e].paidBy \in Members /\ g[e].total \in Int
      /\ \A m \in Members : g[e].split[m] \in Int
  BY Figures
<1>2. PICK payer, total, q : payer = g[e].paidBy /\ total = g[e].total /\ q = g[e].split
  OBVIOUS
<1>. DEFINE paid == [m \in Members |-> IF payer = m THEN total ELSE 0]
<1>3. \A m \in Members : /\ paid[m] \in Int
                         /\ q[m] \in Int
                         /\ row[m] = paid[m] - q[m]
  <2>. SUFFICES ASSUME NEW m \in Members
                PROVE  paid[m] \in Int /\ q[m] \in Int /\ row[m] = paid[m] - q[m]
    OBVIOUS
  <2>1. Flow(g, m)[e] = (IF payer = m THEN total ELSE 0) - q[m]
    BY <1>2, FlowType
  <2>. QED  BY <1>1, <1>2, <2>1
<1>4. payer \in Members /\ paid[payer] = total /\ total \in Int
      /\ \A m \in Members \ {payer} : paid[m] = 0
  BY <1>1, <1>2
<1>. HIDE DEF paid
<1>5. Total(paid, Members) = total
  BY <1>4, FiniteAssumption, TotalOne
<1>6. Total(row, Members) = Total(paid, Members) - Total(q, Members)
  BY <1>3, FiniteAssumption, TotalMinus
<1>. QED  BY <1>2, <1>5, <1>6, ExcessType

\* The balances sum to the drift of all expenses.
LEMMA NetSum ==
    ASSUME NEW g, Docs(g)
    PROVE  SumFunction(NetOf(g)) = Total(Excess(g), In(g))
<1>. DEFINE X == In(g)
            F == [e \in X |-> [m \in Members |-> Flow(g, m)[e]]]
            row == [e \in X |-> Total(F[e], Members)]
            G == [m \in Members |-> Flow(g, m)]
            col == NetOf(g)
<1>1. \A e \in X, m \in Members : F[e][m] \in Int /\ G[m][e] = F[e][m]
  BY FlowType
<1>2. \A m \in Members : col[m] = Total(G[m], X)
  BY NetTotal
<1>3. \A e \in X : row[e] = Total(F[e], Members)
  OBVIOUS
<1>4. IsFiniteSet(X) /\ IsFiniteSet(Members)
  BY InFinite, FiniteAssumption
<1>5. \A e \in X : row[e] = Excess(g)[e]
  <2>. SUFFICES ASSUME NEW e \in X PROVE row[e] = Excess(g)[e]
    OBVIOUS
  <2>1. \A m \in Members : F[e][m] = Flow(g, m)[e]
    OBVIOUS
  <2>. HIDE DEF F
  <2>2. Total(F[e], Members) = Excess(g)[e]
    BY <2>1, FlowsSum
  <2>. QED  BY <2>2
<1>6. DOMAIN col = Members
  BY DEF NetOf
<1>. HIDE DEF X, F, row, G, col
<1>7. Total(row, X) = Total(col, Members)
  BY <1>1, <1>2, <1>3, <1>4, TotalSwap
<1>8. Total(row, X) = Total(Excess(g), X)
  BY <1>4, <1>5, TotalSame
<1>9. SumFunction(col) = Total(col, Members)
  BY <1>6, SumIsTotal
<1>. QED  BY <1>7, <1>8, <1>9 DEF X, col

----------------------------------------------------------------------------
\* What m owes each of the others less what they owe m.
Between(g, m) == [b \in Members |-> OwesOf(g, m, b) - OwesOf(g, b, m)]

\* What an expense adds to that.
Adds(g, m, b) == [e \in Expenses |-> Share(g, m, b)[e] - Share(g, b, m)[e]]

\* What an expense adds between two members is an integer.
LEMMA AddsType ==
    ASSUME NEW g, Docs(g), NEW m \in Members, NEW b \in Members, NEW e \in In(g)
    PROVE  /\ Adds(g, m, b)[e] = Share(g, m, b)[e] - Share(g, b, m)[e]
           /\ Share(g, m, b)[e] \in Int
           /\ Share(g, b, m)[e] \in Int
           /\ Adds(g, m, b)[e] \in Int
<1>1. e \in Expenses /\ Share(g, m, b)[e] \in Int /\ Share(g, b, m)[e] \in Int
  BY Figures, ShareType
<1>2. Adds(g, m, b)[e] = Share(g, m, b)[e] - Share(g, b, m)[e]
  BY <1>1 DEF Adds
<1>. QED  BY <1>1, <1>2

\* What is between two members is the sum of what each expense adds to it.
LEMMA BetweenTotal ==
    ASSUME NEW g, Docs(g), NEW m \in Members, NEW b \in Members
    PROVE  /\ Between(g, m)[b] = OwesOf(g, m, b) - OwesOf(g, b, m)
           /\ Between(g, m)[b] = Total(Adds(g, m, b), In(g))
           /\ Between(g, m)[b] \in Int
<1>1. \A e \in In(g) : /\ Share(g, m, b)[e] \in Int
                       /\ Share(g, b, m)[e] \in Int
                       /\ Adds(g, m, b)[e] = Share(g, m, b)[e] - Share(g, b, m)[e]
  BY AddsType
<1>2. PICK f, k, h, X : /\ f = Share(g, m, b) /\ k = Share(g, b, m) /\ h = Adds(g, m, b)
                        /\ X = In(g)
  OBVIOUS
<1>3. Total(h, X) = Total(f, X) - Total(k, X)
  BY <1>1, <1>2, InFinite, TotalMinus
<1>4. /\ OwesOf(g, m, b) = Total(f, X) /\ OwesOf(g, m, b) \in Int
      /\ OwesOf(g, b, m) = Total(k, X) /\ OwesOf(g, b, m) \in Int
  BY <1>2, OwesTotal
<1>5. Between(g, m)[b] = OwesOf(g, m, b) - OwesOf(g, b, m)
  BY DEF Between
<1>. QED  BY <1>2, <1>3, <1>4, <1>5

\* What an expense adds to what m owes all of them: m's share in it, or, if m has
\* paid, the others' shares, the other way.
LEMMA AddsSum ==
    ASSUME NEW g, Docs(g), NEW m \in Members, NEW e \in In(g), NEW row,
           \A b \in Members : row[b] = Adds(g, m, b)[e]
    PROVE  Total(row, Members) =
               g[e].split[m] - (IF g[e].paidBy = m THEN Total(g[e].split, Members) ELSE 0)
<1>1. g[e].paidBy \in Members /\ \A b \in Members : g[e].split[b] \in Int
  BY Figures
<1>2. PICK p, q : p = g[e].paidBy /\ q = g[e].split
  OBVIOUS
<1>3. \A b \in Members : row[b] = (IF m # b /\ p = b THEN q[m] ELSE 0)
                                  - (IF b # m /\ p = m THEN q[b] ELSE 0)
  <2>. SUFFICES ASSUME NEW b \in Members
                PROVE  row[b] = (IF m # b /\ p = b THEN q[m] ELSE 0)
                                - (IF b # m /\ p = m THEN q[b] ELSE 0)
    OBVIOUS
  <2>1. /\ Share(g, m, b)[e] = IF m # b /\ p = b THEN q[m] ELSE 0
        /\ Share(g, b, m)[e] = IF b # m /\ p = m THEN q[b] ELSE 0
    BY <1>2, ShareType
  <2>2. row[b] = Share(g, m, b)[e] - Share(g, b, m)[e]
    BY AddsType
  <2>. QED  BY <2>1, <2>2
<1>4. p \in Members /\ \A b \in Members : q[b] \in Int
  BY <1>1, <1>2
<1>5. CASE p # m
  <2>1. row[p] = q[m] /\ q[m] \in Int
    BY <1>3, <1>4, <1>5
  <2>2. \A b \in Members \ {p} : row[b] = 0
    BY <1>3, <1>5
  <2>3. Total(row, Members) = q[m]
    BY <1>4, <2>1, <2>2, FiniteAssumption, TotalOne
  <2>. QED  BY <1>2, <1>5, <2>1, <2>3
<1>6. CASE p = m
  <2>. DEFINE own == [b \in Members |-> IF b = m THEN q[m] ELSE 0]
  <2>1. \A b \in Members : own[b] \in Int /\ q[b] \in Int /\ row[b] = own[b] - q[b]
    BY <1>3, <1>4, <1>6
  <2>2. own[m] = q[m] /\ own[m] \in Int /\ \A b \in Members \ {m} : own[b] = 0
    BY <1>4
  <2>. HIDE DEF own
  <2>3. Total(own, Members) = own[m]
    BY <2>2, FiniteAssumption, TotalOne
  <2>4. Total(row, Members) = Total(own, Members) - Total(q, Members)
    BY <2>1, FiniteAssumption, TotalMinus
  <2>. QED  BY <1>2, <1>6, <2>2, <2>3, <2>4
<1>. QED  BY <1>5, <1>6

\* Once a member has paid and got what is between them and each of the others, the
\* drift of what they have paid is left.
LEMMA EvenOut ==
    ASSUME NEW g, Docs(g), NEW m \in Members
    PROVE  NetOf(g)[m] + Total(Between(g, m), Members) = Total(Excess(g), PaidIn(g, m))
<1>. DEFINE X == In(g)
            Y == PaidIn(g, m)
            F == [e \in X |-> [b \in Members |-> Adds(g, m, b)[e]]]
            row == [e \in X |-> Total(F[e], Members)]
            G == [b \in Members |-> Adds(g, m, b)]
            col == Between(g, m)
            flow == Flow(g, m)
            drift == Excess(g)
            kept == [e \in X |-> IF e \in Y THEN drift[e] ELSE 0]
<1>1. \A e \in X, b \in Members : F[e][b] \in Int /\ G[b][e] = F[e][b]
  BY AddsType
<1>2. \A b \in Members : col[b] = Total(G[b], X)
  BY BetweenTotal
<1>3. \A e \in X : row[e] = Total(F[e], Members)
  OBVIOUS
<1>4. IsFiniteSet(X) /\ IsFiniteSet(Members) /\ Y \in SUBSET X
  BY InFinite, FiniteAssumption DEF PaidIn
<1>5. \A e \in X : /\ flow[e] \in Int
                   /\ row[e] \in Int
                   /\ kept[e] = flow[e] + row[e]
  <2>. SUFFICES ASSUME NEW e \in X
                PROVE  flow[e] \in Int /\ row[e] \in Int /\ kept[e] = flow[e] + row[e]
    OBVIOUS
  <2>1. PICK p, t, q : p = g[e].paidBy /\ t = g[e].total /\ q = g[e].split[m]
    OBVIOUS
  <2>2. PICK all : all = Total(g[e].split, Members)
    OBVIOUS
  <2>3. t \in Int /\ q \in Int /\ all \in Int /\ drift[e] = t - all
    BY <2>1, <2>2, Figures, ExcessType
  <2>4. flow[e] = (IF p = m THEN t ELSE 0) - q
    BY <2>1, FlowType
  <2>5. row[e] = q - (IF p = m THEN all ELSE 0)
    <3>1. \A b \in Members : F[e][b] = Adds(g, m, b)[e]
      OBVIOUS
    <3>. HIDE DEF F
    <3>2. Total(F[e], Members) = q - (IF p = m THEN all ELSE 0)
      BY <2>1, <2>2, <3>1, AddsSum
    <3>. QED  BY <3>2
  <2>6. kept[e] = IF p = m THEN drift[e] ELSE 0
    BY <2>1 DEF PaidIn
  <2>. HIDE DEF flow, row, kept, drift, X, Y, F
  <2>. QED  BY <2>3, <2>4, <2>5, <2>6
<1>6. /\ \A e \in X : kept[e] = IF e \in Y THEN drift[e] ELSE 0
      /\ \A e \in Y : drift[e] \in Int
  BY <1>4, ExcessType
<1>. HIDE DEF X, Y, F, row, G, col, flow, drift, kept
<1>7. Total(row, X) = Total(col, Members)
  BY <1>1, <1>2, <1>3, <1>4, TotalSwap
<1>8. Total(kept, X) = Total(flow, X) + Total(row, X)
  <2>1. AddsUp(flow, row, kept, X)
    BY <1>5 DEF AddsUp
  <2>. QED  BY <1>4, <2>1, TotalPlus
<1>9. Total(drift, Y) = Total(kept, X)
  BY <1>4, <1>6, TotalWhere
<1>. QED  BY <1>7, <1>8, <1>9, NetTotal DEF X, Y, col, flow, drift

\* The debts of the ledger as it is.
LEMMA OwesNow == ASSUME NEW a, NEW b PROVE Owes(a, b) = OwesOf(ledger, a, b)
BY DEF Owes, OwesOf, Recorded, In

\* The balances of the ledger as it is.
LEMMA NetNow == Net = NetOf(ledger)
BY DEF Net, NetOf, Recorded, In

FoldsAmounts(X, h) ==
    h = [s \in SUBSET X |-> IF s = {} THEN 0 ELSE First(s).amountMinor + h[s \ {First(s)}]]

\* The sum of some payments of the pairwise list.
LEMMA AmountsTotal ==
    ASSUME NEW X, NEW f, \A s \in X : f[s] = s.amountMinor
    PROVE  MapThenSumSet(LAMBDA s : s.amountMinor, X) = Total(f, X)
<1>1. MapThenSumSet(LAMBDA s : s.amountMinor, X) = (CHOOSE h : FoldsAmounts(X, h))[X]
  BY DEF MapThenSumSet, MapThenFoldSet, FoldsAmounts, First
<1>2. ASSUME NEW h PROVE Folds(f, X, h) <=> FoldsAmounts(X, h)
  <2>. DEFINE A(s) == IF s = {} THEN 0 ELSE f[First(s)] + h[s \ {First(s)}]
              B(s) == IF s = {} THEN 0 ELSE First(s).amountMinor + h[s \ {First(s)}]
  <2>1. ASSUME NEW s \in SUBSET X PROVE A(s) = B(s)
    <3>1. CASE s = {}
      BY <3>1
    <3>2. CASE s # {}
      <4>1. First(s) \in X
        BY <3>2, FirstIn
      <4>. QED  BY <3>2, <4>1
    <3>. QED  BY <3>1, <3>2
  <2>. HIDE DEF A, B
  <2>2. [s \in SUBSET X |-> A(s)] = [s \in SUBSET X |-> B(s)]
    BY <2>1
  <2>. QED  BY <2>2 DEF A, B, Folds, FoldsAmounts
<1>3. (CHOOSE h : Folds(f, X, h)) = (CHOOSE h : FoldsAmounts(X, h))
  BY <1>2
<1>. QED  BY <1>1, <1>3, TotalUnfold

\* A payment of the list.
Payment(a, b, x) == [from |-> a, to |-> b, amountMinor |-> x]

Paying(m) == MapThenSumSet(LAMBDA s : s.amountMinor, {s \in Pairwise : s.from = m})
Getting(m) == MapThenSumSet(LAMBDA s : s.amountMinor, {s \in Pairwise : s.to = m})

\* What m pays by the pairwise list less what m gets by it is what m owes the others.
LEMMA PairwiseSum ==
    ASSUME Docs(ledger), NEW m \in Members
    PROVE  /\ Paying(m) - Getting(m) = Total(Between(ledger, m), Members)
           /\ Paying(m) \in Int
           /\ Getting(m) \in Int
<1>. DEFINE f == Between(ledger, m)
            g == [b \in Members |-> -f[b]]
            up == {b \in Members : f[b] > 0}
            down == {b \in Members : g[b] > 0}
            pays == [b \in Members |-> Payment(m, b, f[b])]
            gets == [b \in Members |-> Payment(b, m, g[b])]
            from == {pays[b] : b \in up}
            to == {gets[b] : b \in down}
            paid == [s \in from |-> s.amountMinor]
            got == [s \in to |-> s.amountMinor]
<1>1. \A b \in Members : /\ f[b] = Owes(m, b) - Owes(b, m)
                         /\ Owes(m, b) \in Int
                         /\ Owes(b, m) \in Int
  BY OwesNow, BetweenTotal, OwesTotal
<1>2. \A b \in Members : f[b] \in Int /\ g[b] = -f[b] /\ g[b] = Owes(b, m) - Owes(m, b)
  BY <1>1
<1>3. {s \in Pairwise : s.from = m} = from
  <2>. HIDE DEF f, g
  <2>1. ASSUME NEW s \in Pairwise, s.from = m PROVE s \in from
    <3>1. PICK a \in Members, b \in Members :
              /\ s = Payment(a, b, Owes(a, b) - Owes(b, a))
              /\ Owes(a, b) > Owes(b, a)
      BY DEF Pairwise, Payment
    <3>2. a = m
      BY <2>1, <3>1 DEF Payment
    <3>3. s = pays[b] /\ f[b] > 0
      BY <1>1, <3>1, <3>2
    <3>. QED  BY <3>3
  <2>2. ASSUME NEW b \in up PROVE pays[b] \in Pairwise /\ pays[b].from = m
    <3>1. Owes(m, b) > Owes(b, m) /\ pays[b] = Payment(m, b, Owes(m, b) - Owes(b, m))
      BY <1>1
    <3>2. <<m, b>> \in {q \in Members \X Members : Owes(q[1], q[2]) > Owes(q[2], q[1])}
      BY <3>1
    <3>. QED  BY <3>1, <3>2 DEF Pairwise, Payment
  <2>. QED  BY <2>1, <2>2
<1>4. {s \in Pairwise : s.to = m} = to
  <2>. HIDE DEF f, g
  <2>1. ASSUME NEW s \in Pairwise, s.to = m PROVE s \in to
    <3>1. PICK a \in Members, b \in Members :
              /\ s = Payment(a, b, Owes(a, b) - Owes(b, a))
              /\ Owes(a, b) > Owes(b, a)
      BY DEF Pairwise, Payment
    <3>2. b = m
      BY <2>1, <3>1 DEF Payment
    <3>3. s = gets[a] /\ g[a] > 0
      BY <1>1, <1>2, <3>1, <3>2
    <3>. QED  BY <3>3
  <2>2. ASSUME NEW b \in down PROVE gets[b] \in Pairwise /\ gets[b].to = m
    <3>1. Owes(b, m) > Owes(m, b) /\ gets[b] = Payment(b, m, Owes(b, m) - Owes(m, b))
      BY <1>1, <1>2
    <3>2. <<b, m>> \in {q \in Members \X Members : Owes(q[1], q[2]) > Owes(q[2], q[1])}
      BY <3>1
    <3>. QED  BY <3>1, <3>2 DEF Pairwise, Payment
  <2>. QED  BY <2>1, <2>2
<1>5. IsFiniteSet(Members) /\ IsFiniteSet(up) /\ IsFiniteSet(down)
  BY FiniteAssumption, FS_Subset
<1>6. /\ \A s \in from : paid[s] = s.amountMinor
      /\ \A s \in to : got[s] = s.amountMinor
  OBVIOUS
<1>7. \A b \in up : f[b] \in Int /\ paid[pays[b]] = f[b]
  <2>. HIDE DEF f
  <2>. QED  BY <1>2 DEF Payment
<1>8. \A b \in down : g[b] \in Int /\ got[gets[b]] = g[b]
  <2>. HIDE DEF f, g
  <2>. QED  BY <1>2 DEF Payment
<1>9. /\ \A a, b \in up : pays[a] = pays[b] => a = b
      /\ \A a, b \in down : gets[a] = gets[b] => a = b
  BY DEF Payment
<1>. HIDE DEF f, g, paid, got, pays, gets
<1>10. Total(paid, from) = Total(f, up)
  <2>. HIDE DEF up
  <2>. QED  BY <1>5, <1>7, <1>9, TotalImage
<1>11. Total(got, to) = Total(g, down)
  <2>. HIDE DEF down
  <2>. QED  BY <1>5, <1>8, <1>9, TotalImage
<1>12. Total(f, up) - Total(g, down) = Total(f, Members)
  BY <1>2, <1>5, TotalSides
<1>13. MapThenSumSet(LAMBDA s : s.amountMinor, from) = Total(paid, from)
  <2>. HIDE DEF from
  <2>. QED  BY <1>6, AmountsTotal
<1>14. MapThenSumSet(LAMBDA s : s.amountMinor, to) = Total(got, to)
  <2>. HIDE DEF to
  <2>. QED  BY <1>6, AmountsTotal
<1>15. Total(f, up) \in Int
  <2>1. \A b \in up : f[b] \in Int
    BY <1>2
  <2>. HIDE DEF up
  <2>. QED  BY <1>5, <2>1, TotalType
<1>16. Total(g, down) \in Int
  <2>1. \A b \in down : g[b] \in Int
    BY <1>2
  <2>. HIDE DEF down
  <2>. QED  BY <1>5, <2>1, TotalType
<1>. HIDE DEF from, to, up, down
<1>17. Paying(m) = Total(f, up)
  BY <1>3, <1>10, <1>13 DEF Paying
<1>18. Getting(m) = Total(g, down)
  BY <1>4, <1>11, <1>14 DEF Getting
<1>. QED  BY <1>12, <1>15, <1>16, <1>17, <1>18 DEF f

\* A settle-up in the sums: h is the ledger g with one more expense e, which from
\* has paid and to alone has a split of.
LEMMA SettleUpAdds ==
    ASSUME NEW g, Docs(g), NEW h, Docs(h),
           NEW e \in Expenses, g[e] = None, h[e] # None,
           \A o \in Expenses \ {e} : h[o] = g[o],
           NEW from \in Members, NEW to \in Members, from # to, NEW x \in Nat,
           h[e].paidBy = from, h[e].total = x,
           \A m \in Members : h[e].split[m] = IF m = to THEN x ELSE 0
    PROVE  /\ \A a, b \in Members :
                OwesOf(h, a, b) = OwesOf(g, a, b) + (IF a = to /\ b = from THEN x ELSE 0)
           /\ \A m \in Members :
                NetOf(h)[m] =
                    NetOf(g)[m] + (IF m = from THEN x ELSE IF m = to THEN -x ELSE 0)
<1>. DEFINE X == In(g)
<1>1. In(h) = X \cup {e} /\ e \notin X /\ IsFiniteSet(X)
  BY InFinite DEF In
<1>2. \A o \in X : o \in Expenses /\ h[o] = g[o]
  BY <1>1 DEF In
<1>. HIDE DEF X
<1>3. ASSUME NEW a \in Members, NEW b \in Members
      PROVE  OwesOf(h, a, b) = OwesOf(g, a, b) + (IF a = to /\ b = from THEN x ELSE 0)
  <2>. PICK f, k : f = Share(g, a, b) /\ k = Share(h, a, b)
    OBVIOUS
  <2>1. IntsOn(k, X \cup {e})
    BY <1>1, ShareType DEF IntsOn
  <2>2. \A o \in X : k[o] = f[o]
    BY <1>2 DEF Share
  <2>3. k[e] = IF a = to /\ b = from THEN x ELSE 0
    <3>1. k[e] = IF a # b /\ from = b THEN h[e].split[a] ELSE 0
      BY <1>1, ShareType
    <3>. QED  BY <3>1
  <2>4. Total(k, X \cup {e}) = k[e] + Total(f, X)
    BY <1>1, <2>1, <2>2, TotalMore
  <2>5. OwesOf(h, a, b) = Total(k, X \cup {e})
    BY <1>1, OwesTotal
  <2>6. OwesOf(g, a, b) = Total(f, X) /\ OwesOf(g, a, b) \in Int
    BY OwesTotal DEF X
  <2>. QED  BY <2>3, <2>4, <2>5, <2>6
<1>4. ASSUME NEW m \in Members
      PROVE  NetOf(h)[m] =
                 NetOf(g)[m] + (IF m = from THEN x ELSE IF m = to THEN -x ELSE 0)
  <2>. PICK f, k : f = Flow(g, m) /\ k = Flow(h, m)
    OBVIOUS
  <2>1. IntsOn(k, X \cup {e})
    BY <1>1, FlowType DEF IntsOn
  <2>2. \A o \in X : k[o] = f[o]
    BY <1>2 DEF Flow
  <2>3. k[e] = IF m = from THEN x ELSE IF m = to THEN -x ELSE 0
    <3>1. k[e] = (IF from = m THEN x ELSE 0) - (IF m = to THEN x ELSE 0)
      BY <1>1, FlowType
    <3>. QED  BY <3>1
  <2>4. Total(k, X \cup {e}) = k[e] + Total(f, X)
    BY <1>1, <2>1, <2>2, TotalMore
  <2>5. NetOf(h)[m] = Total(k, X \cup {e})
    BY <1>1, NetTotal
  <2>6. NetOf(g)[m] = Total(f, X) /\ NetOf(g)[m] \in Int
    BY NetTotal, NetType DEF X
  <2>. QED  BY <2>3, <2>4, <2>5, <2>6
<1>. QED  BY <1>3, <1>4

----------------------------------------------------------------------------
USE NoneAssumption, BodiesAssumption, PaymentsAssumption

----------------------------------------------------------------------------
\* A path written for its value is the value, one not modified is the old value.
LEMMA OrModified ==
    ASSUME NEW value, NEW old, old # None
    PROVE  Or(Modified(value, old), old) = Or(value, old)
BY DEF Or, Modified

\* No modified path is a case of some.
LEMMA NoEditTyped == NoEdit \in Edit
BY DEF NoEdit, Edit

\* A split on one member alone is one.
LEMMA EmptySplitTyped ==
    ASSUME NEW m \in Members, NEW x \in Nat
    PROVE  [n \in Members |-> IF n = m THEN x ELSE 0] \in Split
BY DEF Split

----------------------------------------------------------------------------
\* Whatever is read, checked and saved, the types stay.
LEMMA LedgerTypeStep == LedgerTypeOK /\ [LedgerNext]_ledgerVars => LedgerTypeOK'
<1> SUFFICES ASSUME LedgerTypeOK, [LedgerNext]_ledgerVars PROVE LedgerTypeOK'
  OBVIOUS
<1> USE DEF LedgerTypeOK
<1>0. ASSUME NEW doc \in Doc, Insert(doc) PROVE LedgerTypeOK'
  BY <1>0 DEF Insert
<1>1. CASE AddExpense
  <2>1. PICK b \in Bodies :
          /\ b.paidBy # None /\ b.total # None /\ b.split # None
          /\ Insert([paidBy |-> b.paidBy, total |-> b.total, split |-> b.split,
                     isSettlement |-> FALSE])
    BY <1>1 DEF AddExpense
  <2>2. [paidBy |-> b.paidBy, total |-> b.total, split |-> b.split,
         isSettlement |-> FALSE] \in Doc
    BY <2>1 DEF Body, Doc
  <2> QED BY <2>1, <2>2, <1>0
<1>2. CASE RecordSettlement
  <2>1. PICK from \in Members, to \in Members, x \in Payments :
          Insert(Settlement(from, to, x))
    BY <1>2 DEF RecordSettlement
  <2>2. Settlement(from, to, x) \in Doc
    BY EmptySplitTyped DEF Settlement, Doc
  <2> QED BY <2>1, <2>2, <1>0
<1>3. ASSUME NEW r \in Requests, UpdateRead(r) PROVE LedgerTypeOK'
  <2>1. PICK e \in Expenses, b \in Bodies :
          /\ ledger[e] # None
          /\ \E split \in {Modified(b.split, ledger[e].split), b.split} :
               edit' = [edit EXCEPT ![r] =
                 [expense |-> e, paidBy |-> Modified(b.paidBy, ledger[e].paidBy),
                  total |-> Modified(b.total, ledger[e].total), split |-> split,
                  stale |-> FALSE]]
          /\ ledger' = ledger
          /\ overlapped' \in {overlapped, overlapped \cup {e}}
    BY <1>3 DEF UpdateRead
  <2>2. PICK split \in {Modified(b.split, ledger[e].split), b.split} :
          edit' = [edit EXCEPT ![r] =
              [expense |-> e, paidBy |-> Modified(b.paidBy, ledger[e].paidBy),
               total |-> Modified(b.total, ledger[e].total), split |-> split,
               stale |-> FALSE]]
    BY <2>1
  <2>3. b \in Body
    OBVIOUS
  <2>4. [expense |-> e, paidBy |-> Modified(b.paidBy, ledger[e].paidBy),
         total |-> Modified(b.total, ledger[e].total), split |-> split,
         stale |-> FALSE] \in Edit
    BY <2>3 DEF Edit, Body, Modified
  <2> QED BY <2>1, <2>2, <2>4
<1>4. ASSUME NEW r \in Requests, UpdateSave(r) PROVE LedgerTypeOK'
  <2> DEFINE u == edit[r]
  <2>1. u \in Edit /\ u # NoEdit
    BY <1>4 DEF UpdateSave
  <2>2. Outdate(r, u.expense, u.split) \in [Requests -> Edit]
    BY NoEditTyped DEF Outdate, Edit
  <2>3. CASE /\ ledger[u.expense] # None
             /\ ledger' = [ledger EXCEPT ![u.expense] = Saved(ledger[u.expense], u)]
             /\ edit' = Outdate(r, u.expense, u.split)
             /\ overlapped' = overlapped
    <3>1. u.expense \in Expenses => Saved(ledger[u.expense], u) \in Doc
      BY <2>1, <2>3 DEF Saved, Or, Doc, Edit
    <3> QED BY <2>2, <2>3, <3>1
  <2>4. CASE edit' = [edit EXCEPT ![r] = NoEdit] /\ UNCHANGED <<ledger, overlapped>>
    BY <2>4, NoEditTyped
  <2> QED BY <1>4, <2>3, <2>4 DEF UpdateSave
<1>5. ASSUME NEW r \in Requests, UpdateFails(r) PROVE LedgerTypeOK'
  BY <1>5, NoEditTyped DEF UpdateFails
<1>6. CASE DeleteExpense
  BY <1>6 DEF DeleteExpense
<1>7. CASE UNCHANGED ledgerVars
  BY <1>7 DEF ledgerVars
<1> QED BY <1>1, <1>2, <1>3, <1>4, <1>5, <1>6, <1>7 DEF LedgerNext

\* Type correctness: whatever is read, checked and saved, the ledger holds
\* documents and the requests hold modified paths.
THEOREM LedgerTypeCorrect == LedgerSpec => []LedgerTypeOK
<1>1. LedgerInit => LedgerTypeOK
  BY NoEditTyped DEF LedgerInit, LedgerTypeOK
<1> QED BY <1>1, LedgerTypeStep, PTL DEF LedgerSpec

----------------------------------------------------------------------------
\* What a request holds back of the document it would write: nothing of the two
\* figures, or figures that fit with those of the document it leaves alone.
Fitting(doc, u) ==
    \/ u.total = None /\ u.split = None
    \/ Fits(Or(u.total, doc.total), Or(u.split, doc.split))

\* An expense never shared by two updates is still the document its update has read,
\* so what the update accepted is what it will write.
EditsFit ==
    \A r \in Requests, e \in Expenses \ overlapped :
        edit[r].expense = e =>
            /\ \A q \in Requests \ {r} : edit[q].expense # e
            /\ ledger[e] # None => Fitting(ledger[e], edit[r])

LedgerInv == LedgerTypeOK /\ EditsFit /\ SplitsAddUp

\* Writing what fits gives a document that fits.
LEMMA SavedFits ==
    ASSUME NEW doc \in Doc, NEW u \in Edit, Fitting(doc, u), Fits(doc.total, doc.split)
    PROVE  Fits(Saved(doc, u).total, Saved(doc, u).split)
<1>1. /\ Saved(doc, u).total = Or(u.total, doc.total)
      /\ Saved(doc, u).split = Or(u.split, doc.split)
  BY DEF Saved, Doc
<1>2. CASE u.total = None /\ u.split = None
  BY <1>1, <1>2 DEF Or
<1>3. CASE Fits(Or(u.total, doc.total), Or(u.split, doc.split))
  BY <1>1, <1>3
<1> QED BY <1>2, <1>3 DEF Fitting

\* An update makes no bill of a settle-up nor the reverse.
LEMMA SavedKind ==
    ASSUME NEW doc \in Doc, NEW u
    PROVE  Saved(doc, u).isSettlement = doc.isSettlement
BY DEF Saved, Doc

\* The figures an update has accepted, with the paths equal to the document's left out.
LEMMA AcceptedFits ==
    ASSUME NEW doc \in Doc, NEW b \in Body, Accepted(doc, b),
           NEW split \in {Modified(b.split, doc.split), b.split},
           NEW u, u.total = Modified(b.total, doc.total), u.split = split
    PROVE  Fitting(doc, u)
<1>1. doc.total # None /\ doc.split # None
  BY DEF Doc
<1>2. Or(u.total, doc.total) = Or(b.total, doc.total)
  BY <1>1, OrModified
<1>3. Or(u.split, doc.split) = Or(b.split, doc.split)
  BY <1>1, OrModified
<1>4. CASE b.total = None /\ b.split = None
  BY <1>1, <1>4 DEF Fitting, Modified
<1>5. CASE Fits(Or(b.total, doc.total), Or(b.split, doc.split))
  BY <1>2, <1>3, <1>5 DEF Fitting
<1> QED BY <1>4, <1>5 DEF Accepted

\* A request that is over refers to no expense.
LEMMA NoEditFields == NoEdit.expense = None /\ NoEdit.total = None /\ NoEdit.split = None
BY DEF NoEdit

\* Where requests only end, what the others hold stays true.
LEMMA EditsFitEnding ==
    ASSUME LedgerTypeOK, EditsFit, overlapped' = overlapped, edit' \in [Requests -> Edit],
           \A r \in Requests : edit'[r].expense # None =>
               /\ edit'[r].expense = edit[r].expense
               /\ edit'[r].total = edit[r].total
               /\ edit'[r].split = edit[r].split,
           \A r \in Requests, e \in Expenses \ overlapped :
               edit'[r].expense = e => ledger'[e] \in {ledger[e], None}
    PROVE  EditsFit'
<1> SUFFICES ASSUME NEW r \in Requests, NEW e \in Expenses \ overlapped,
                    edit'[r].expense = e
             PROVE  /\ \A q \in Requests \ {r} : edit'[q].expense # e
                    /\ ledger'[e] # None => Fitting(ledger'[e], edit'[r])
  BY DEF EditsFit
<1>1. e # None
  OBVIOUS
<1>2. /\ edit[r].expense = e
      /\ edit'[r].total = edit[r].total
      /\ edit'[r].split = edit[r].split
  BY <1>1
<1>3. \A q \in Requests \ {r} : edit'[q].expense # e
  BY <1>1, <1>2 DEF EditsFit
<1>4. ledger'[e] # None => Fitting(ledger[e], edit[r])
  BY <1>2 DEF EditsFit
<1> QED BY <1>2, <1>3, <1>4 DEF Fitting

----------------------------------------------------------------------------
\* A new document fits and no update is in flight on it.
LEMMA InsertKeeps ==
    ASSUME LedgerInv, NEW doc \in Doc, Insert(doc),
           doc.isSettlement \/ Fits(doc.total, doc.split)
    PROVE  EditsFit' /\ SplitsAddUp'
<1>1. PICK e \in Expenses :
        /\ ledger[e] = None
        /\ InFlightOn(e) = {}
        /\ ledger' = [ledger EXCEPT ![e] = doc]
        /\ overlapped' = overlapped \ {e}
        /\ edit' = edit
  BY DEF Insert
<1>2. \A r \in Requests : edit[r].expense # e
  BY <1>1 DEF InFlightOn
<1>3. EditsFit'
  BY <1>1, <1>2 DEF EditsFit, LedgerInv, LedgerTypeOK, Fitting
<1>4. SplitsAddUp'
  BY <1>1 DEF SplitsAddUp, Bills, LedgerInv, LedgerTypeOK
<1> QED BY <1>3, <1>4

\* What an update accepts fits the document it has read.
LEMMA ReadKeeps ==
    ASSUME LedgerInv, LedgerTypeOK', NEW r \in Requests, UpdateRead(r)
    PROVE  EditsFit' /\ SplitsAddUp'
<1>1. PICK e \in Expenses, b \in Bodies :
        /\ edit[r] = NoEdit
        /\ ledger[e] # None
        /\ Accepted(ledger[e], b)
        /\ \E split \in {Modified(b.split, ledger[e].split), b.split} :
             edit' = [edit EXCEPT ![r] =
               [expense |-> e, paidBy |-> Modified(b.paidBy, ledger[e].paidBy),
                total |-> Modified(b.total, ledger[e].total), split |-> split,
                stale |-> FALSE]]
        /\ overlapped' = IF InFlightOn(e) = {} THEN overlapped ELSE overlapped \cup {e}
        /\ ledger' = ledger
  BY DEF UpdateRead
<1>2. PICK split \in {Modified(b.split, ledger[e].split), b.split} :
        edit' = [edit EXCEPT ![r] =
            [expense |-> e, paidBy |-> Modified(b.paidBy, ledger[e].paidBy),
             total |-> Modified(b.total, ledger[e].total), split |-> split,
             stale |-> FALSE]]
  BY <1>1
<1>3. /\ edit'[r].expense = e
      /\ edit'[r].total = Modified(b.total, ledger[e].total)
      /\ edit'[r].split = split
      /\ \A q \in Requests \ {r} : edit'[q] = edit[q]
  BY <1>2 DEF LedgerInv, LedgerTypeOK
<1>4. Fitting(ledger[e], edit'[r])
  <2>1. ledger[e] \in Doc /\ b \in Body
    BY <1>1 DEF LedgerInv, LedgerTypeOK
  <2> QED BY <1>1, <1>3, <2>1, AcceptedFits
<1>5. overlapped \subseteq overlapped' /\ overlapped' \subseteq Expenses
  BY <1>1 DEF LedgerInv, LedgerTypeOK
<1>6. \A f \in Expenses \ overlapped' :
        f = e => \A q \in Requests : edit[q].expense # e
  BY <1>1 DEF InFlightOn
<1>7. EditsFit'
  <2> SUFFICES ASSUME NEW q \in Requests, NEW f \in Expenses \ overlapped',
                      edit'[q].expense = f
               PROVE  /\ \A p \in Requests \ {q} : edit'[p].expense # f
                      /\ ledger[f] # None => Fitting(ledger[f], edit'[q])
    BY <1>1 DEF EditsFit, Fitting
  <2>1. CASE f = e
    <3>1. q = r
      BY <1>3, <1>6, <2>1
    <3> QED BY <1>3, <1>4, <1>6, <2>1, <3>1
  <2>2. CASE f # e
    <3>1. q # r /\ edit[q].expense = f /\ edit'[q] = edit[q]
      BY <1>3, <2>2
    <3>2. /\ \A p \in Requests \ {q} : edit[p].expense # f
          /\ ledger[f] # None => Fitting(ledger[f], edit[q])
      BY <1>5, <3>1 DEF EditsFit, LedgerInv
    <3> QED BY <1>3, <2>2, <3>1, <3>2
  <2> QED BY <2>1, <2>2
<1>8. SplitsAddUp'
  BY <1>1, <1>5 DEF SplitsAddUp, Bills, LedgerInv
<1> QED BY <1>7, <1>8

\* What an update saves fits, if it was the only one.
LEMMA SaveKeeps ==
    ASSUME LedgerInv, LedgerTypeOK', NEW r \in Requests, UpdateSave(r)
    PROVE  EditsFit' /\ SplitsAddUp'
<1> DEFINE u == edit[r]
<1>1. u \in Edit /\ u # NoEdit /\ overlapped' = overlapped
  BY DEF UpdateSave, LedgerInv, LedgerTypeOK
<1>2. CASE /\ ledger[u.expense] # None
           /\ ledger' = [ledger EXCEPT ![u.expense] = Saved(ledger[u.expense], u)]
           /\ edit' = Outdate(r, u.expense, u.split)
  <2>1. \A q \in Requests :
          edit'[q].expense # None =>
              /\ q # r
              /\ edit'[q].expense = edit[q].expense
              /\ edit'[q].total = edit[q].total
              /\ edit'[q].split = edit[q].split
    BY <1>2, NoEditFields DEF Outdate, LedgerInv, LedgerTypeOK, Edit
  <2>2. \A q \in Requests, e \in Expenses \ overlapped :
          edit'[q].expense = e => ledger'[e] = ledger[e]
    <3> SUFFICES ASSUME NEW q \in Requests, NEW e \in Expenses \ overlapped,
                        edit'[q].expense = e
                 PROVE  ledger'[e] = ledger[e]
      OBVIOUS
    <3>1. q # r /\ edit[q].expense = e
      BY <2>1
    <3>2. u.expense # e
      BY <3>1 DEF EditsFit, LedgerInv
    <3> QED BY <1>2, <3>2 DEF LedgerInv, LedgerTypeOK
  <2>3. EditsFit'
    BY <1>1, <2>1, <2>2, EditsFitEnding DEF LedgerInv, LedgerTypeOK
  <2>4. \A e \in Expenses \ overlapped :
          ledger'[e] # None /\ ~ledger'[e].isSettlement =>
              Fits(ledger'[e].total, ledger'[e].split)
    <3> SUFFICES ASSUME NEW e \in Expenses \ overlapped,
                        ledger'[e] # None, ~ledger'[e].isSettlement
                 PROVE  Fits(ledger'[e].total, ledger'[e].split)
      OBVIOUS
    <3>1. CASE e = u.expense
      <4>1. ledger[e] \in Doc /\ ledger'[e] = Saved(ledger[e], u)
        BY <1>2, <3>1 DEF LedgerInv, LedgerTypeOK
      <4>2. ~ledger[e].isSettlement
        BY <4>1, SavedKind
      <4>3. Fits(ledger[e].total, ledger[e].split)
        BY <1>2, <3>1, <4>2 DEF SplitsAddUp, Bills, LedgerInv
      <4>4. Fitting(ledger[e], u)
        BY <1>2, <3>1 DEF EditsFit, LedgerInv
      <4> QED BY <1>1, <4>1, <4>3, <4>4, SavedFits
    <3>2. CASE e # u.expense
      <4>1. ledger'[e] = ledger[e]
        BY <1>2, <3>2 DEF LedgerInv, LedgerTypeOK
      <4> QED BY <4>1 DEF SplitsAddUp, Bills, LedgerInv
    <3> QED BY <3>1, <3>2
  <2>5. SplitsAddUp'
    BY <1>1, <2>4 DEF SplitsAddUp, Bills
  <2> QED BY <2>3, <2>5
<1>3. CASE edit' = [edit EXCEPT ![r] = NoEdit] /\ ledger' = ledger
  <2>1. EditsFit'
    BY <1>1, <1>3, NoEditFields, EditsFitEnding DEF LedgerInv, LedgerTypeOK
  <2>2. SplitsAddUp'
    BY <1>1, <1>3 DEF SplitsAddUp, Bills, LedgerInv
  <2> QED BY <2>1, <2>2
<1> QED BY <1>2, <1>3 DEF UpdateSave

\* A bill not edited by two requests at once has splits that add up to its total.
THEOREM SplitsCorrect == LedgerSpec => []SplitsAddUp
<1>1. LedgerInit => EditsFit /\ SplitsAddUp
  BY NoEditFields DEF LedgerInit, EditsFit, SplitsAddUp, Bills
<1>2. LedgerInv /\ LedgerTypeOK' /\ [LedgerNext]_ledgerVars => EditsFit' /\ SplitsAddUp'
  <2> SUFFICES ASSUME LedgerInv, LedgerTypeOK', [LedgerNext]_ledgerVars
               PROVE  EditsFit' /\ SplitsAddUp'
    OBVIOUS
  <2>1. CASE AddExpense
    <3>1. PICK b \in Bodies :
            /\ b.paidBy # None /\ b.total # None /\ b.split # None
            /\ Fits(b.total, b.split)
            /\ Insert([paidBy |-> b.paidBy, total |-> b.total, split |-> b.split,
                       isSettlement |-> FALSE])
      BY <2>1 DEF AddExpense
    <3> DEFINE doc == [paidBy |-> b.paidBy, total |-> b.total, split |-> b.split,
                       isSettlement |-> FALSE]
    <3>2. doc \in Doc /\ Fits(doc.total, doc.split) /\ Insert(doc)
      BY <3>1 DEF Body, Doc
    <3> HIDE DEF doc
    <3> QED BY <3>2, InsertKeeps
  <2>2. CASE RecordSettlement
    <3>1. PICK from \in Members, to \in Members, x \in Payments :
            Insert(Settlement(from, to, x))
      BY <2>2 DEF RecordSettlement
    <3>2. Settlement(from, to, x) \in Doc /\ Settlement(from, to, x).isSettlement
      BY EmptySplitTyped DEF Settlement, Doc
    <3> QED BY <3>1, <3>2, InsertKeeps
  <2>3. ASSUME NEW r \in Requests, UpdateFails(r) PROVE EditsFit' /\ SplitsAddUp'
    <3>1. edit' = [edit EXCEPT ![r] = NoEdit] /\ UNCHANGED <<ledger, overlapped>>
      BY <2>3 DEF UpdateFails
    <3>2. EditsFit'
      BY <3>1, NoEditFields, EditsFitEnding DEF LedgerInv, LedgerTypeOK
    <3> QED BY <3>1, <3>2 DEF SplitsAddUp, Bills, LedgerInv
  <2>4. CASE DeleteExpense
    <3>1. PICK e \in Expenses : /\ ledger' = [ledger EXCEPT ![e] = None]
                                /\ UNCHANGED <<edit, overlapped>>
      BY <2>4 DEF DeleteExpense
    <3>2. EditsFit'
      BY <3>1, EditsFitEnding DEF LedgerInv, LedgerTypeOK
    <3>3. SplitsAddUp'
      BY <3>1 DEF SplitsAddUp, Bills, LedgerInv, LedgerTypeOK
    <3> QED BY <3>2, <3>3
  <2>5. CASE UNCHANGED ledgerVars
    BY <2>5 DEF ledgerVars, LedgerInv, EditsFit, Fitting, SplitsAddUp, Bills
  <2> QED BY <2>1, <2>2, <2>3, <2>4, <2>5, ReadKeeps, SaveKeeps DEF LedgerNext
<1> QED BY <1>1, <1>2, LedgerTypeCorrect, PTL DEF LedgerSpec, LedgerInv

----------------------------------------------------------------------------
\* The steps of getBalances are none of the ledger's.
LEMMA StepOfLedger == [Next]_vars => [LedgerNext]_ledgerVars
BY DEF Next, vars, LedgerStep, ToggleSimplifyDebts, GetBalances, SimplifierStep, ledgerVars

\* Computing balances changes nothing of the expenses: what is true of the ledger by
\* itself is true of it here.
THEOREM BalancesKeepLedger == Spec => LedgerSpec
<1>1. Init => LedgerInit
  BY DEF Init
<1>. QED  BY <1>1, StepOfLedger, PTL DEF Spec, LedgerSpec

\* Type correctness of the ledger while balances are computed from it.
THEOREM LedgerTypedHere == Spec => []LedgerTypeOK
BY BalancesKeepLedger, LedgerTypeCorrect, PTL

\* The ledger holds documents.
LEMMA DocsHere == LedgerTypeOK => Docs(ledger)
BY DEF LedgerTypeOK, Docs, In

----------------------------------------------------------------------------
FoldsDrift(X, h) ==
    h = [s \in SUBSET X |-> IF s = {} THEN 0 ELSE Drift(First(s)) + h[s \ {First(s)}]]

\* The drift of some expenses.
LEMMA DriftTotal ==
    ASSUME NEW X \in SUBSET Expenses
    PROVE  MapThenSumSet(Drift, X) = Total(Excess(ledger), X)
<1>. DEFINE f == Excess(ledger)
<1>1. MapThenSumSet(Drift, X) = (CHOOSE h : FoldsDrift(X, h))[X]
  BY DEF MapThenSumSet, MapThenFoldSet, FoldsDrift, First
<1>2. ASSUME NEW h PROVE Folds(f, X, h) <=> FoldsDrift(X, h)
  <2>. DEFINE A(s) == IF s = {} THEN 0 ELSE f[First(s)] + h[s \ {First(s)}]
              B(s) == IF s = {} THEN 0 ELSE Drift(First(s)) + h[s \ {First(s)}]
  <2>1. ASSUME NEW s \in SUBSET X PROVE A(s) = B(s)
    <3>1. CASE s = {}
      BY <3>1
    <3>2. CASE s # {}
      <4>1. First(s) \in Expenses
        BY <3>2, FirstIn
      <4>2. f[First(s)] = Drift(First(s))
        BY <4>1 DEF Excess, Drift
      <4>. HIDE DEF f
      <4>. QED  BY <3>2, <4>2
    <3>. QED  BY <3>1, <3>2
  <2>. HIDE DEF A, B
  <2>2. [s \in SUBSET X |-> A(s)] = [s \in SUBSET X |-> B(s)]
    BY <2>1
  <2>. QED  BY <2>2 DEF A, B, Folds, FoldsDrift
<1>. HIDE DEF f
<1>3. (CHOOSE h : Folds(f, X, h)) = (CHOOSE h : FoldsDrift(X, h))
  BY <1>2
<1>. QED  BY <1>1, <1>3, TotalUnfold DEF f

\* Whatever bills, edits and settle-ups there are: paying the pairwise list leaves
\* each member with the drift of what they paid.
THEOREM PairwisePays == Spec => []PairwiseLeavesDrift
<1>1. LedgerTypeOK => PairwiseLeavesDrift
  <2>. SUFFICES ASSUME LedgerTypeOK, NEW m \in Members
                PROVE  LeftAfterPairwise[m] = DriftPaidBy(m)
    BY DEF PairwiseLeavesDrift
  <2>1. Docs(ledger)
    BY DocsHere
  <2>. PICK pays, gets : pays = Paying(m) /\ gets = Getting(m)
    OBVIOUS
  <2>2. LeftAfterPairwise[m] = Net[m] + pays - gets
    BY DEF LeftAfterPairwise, Paying, Getting
  <2>3. pays - gets = Total(Between(ledger, m), Members) /\ pays \in Int /\ gets \in Int
    BY <2>1, PairwiseSum
  <2>4. Net[m] \in Int
    BY <2>1, NetNow, NetType
  <2>5. DriftPaidBy(m) = Total(Excess(ledger), PaidIn(ledger, m))
    <3>1. PaidIn(ledger, m) = {e \in Recorded : ledger[e].paidBy = m}
      BY DEF PaidIn, In, Recorded
    <3>2. PaidIn(ledger, m) \in SUBSET Expenses
      BY DEF PaidIn, In
    <3>. QED  BY <3>1, <3>2, DriftTotal DEF DriftPaidBy
  <2>6. Net[m] + (pays - gets) = Total(Excess(ledger), PaidIn(ledger, m))
    BY <2>1, <2>3, NetNow, EvenOut
  <2>. QED  BY <2>2, <2>3, <2>4, <2>5, <2>6
<1>. QED  BY <1>1, LedgerTypedHere, PTL

----------------------------------------------------------------------------
\* The loop of simplify as a part of getBalances is the loop DebtSimplificationProofs
\* is about.
LEMMA LoopMembers == SimplifierProofs!IsFiniteSet(Members)
BY FiniteAssumption DEF IsFiniteSet, SimplifierProofs!IsFiniteSet

\* Both instances count alike.
LEMMA SameCardinality ==
    ASSUME NEW S PROVE Simplifier!Cardinality(S) = SimplifierProofs!Cardinality(S)
BY DEF Simplifier!Cardinality, SimplifierProofs!Cardinality

\* Both have the same initial states.
LEMMA SameInit == Simplifier!Init => SimplifierProofs!Init
BY DEF Simplifier!Init, SimplifierProofs!Init, Simplifier!Zero, SimplifierProofs!Zero

\* A call from getBalances is a call the loop's proofs allow.
LEMMA SameSimplify ==
    ASSUME NEW balances \in [Members -> Int], Simplifier!Simplify(balances)
    PROVE  SimplifierProofs!Next
<1>1. SimplifierProofs!Simplify(balances)
  BY SameCardinality
  DEF Simplifier!Simplify, SimplifierProofs!Simplify,
      Simplifier!Owing, SimplifierProofs!Owing,
      Simplifier!Sorted, SimplifierProofs!Sorted,
      Simplifier!Debtors, SimplifierProofs!Debtors,
      Simplifier!Creditors, SimplifierProofs!Creditors
<1>. QED  BY <1>1 DEF SimplifierProofs!Next

\* Both have the same turn of the loop.
LEMMA SameSettle == Simplifier!Settle => SimplifierProofs!Settle
BY DEF Simplifier!Settle, SimplifierProofs!Settle, Simplifier!More, SimplifierProofs!More,
       Simplifier!Settled, SimplifierProofs!Settled,
       Simplifier!Advance, SimplifierProofs!Advance

\* Both end it alike.
LEMMA SameReturn == Simplifier!Return => SimplifierProofs!Return
BY DEF Simplifier!Return, SimplifierProofs!Return, Simplifier!More, SimplifierProofs!More

\* Both forget the call alike.
LEMMA SameAnswered == Simplifier!Answered => SimplifierProofs!Answered
BY DEF Simplifier!Answered, SimplifierProofs!Answered, Simplifier!Zero, SimplifierProofs!Zero

\* The loop invariant holds at the start.
LEMMA LoopStarts == Simplifier!Init => SimplifierProofs!LoopInv
BY SameInit, LoopMembers, SimplifierProofs!LoopInit

\* The loop invariant is kept, here as there.
LEMMA LoopGoesOn ==
    SimplifierProofs!LoopInv /\ (SimplifierProofs!Next \/ UNCHANGED simplifierVars)
    => SimplifierProofs!LoopInv'
BY LoopMembers, SimplifierProofs!LoopStep DEF simplifierVars, SimplifierProofs!vars

\* A turn moves an amount between two members.
LEMMA LoopTurn ==
    ASSUME SimplifierProofs!LoopInv, SimplifierProofs!Settle
    PROVE  \E debtor, creditor \in Members, settled \in Nat :
               /\ debtor # creditor
               /\ left' = [m \in Members |-> IF m = debtor THEN left[m] + settled
                                            ELSE IF m = creditor THEN left[m] - settled
                                            ELSE left[m]]
BY LoopMembers, SimplifierProofs!Turn

\* What the loop leaves is all on one side of zero.
LEMMA LoopLeaves ==
    ASSUME SimplifierProofs!LoopInv
    PROVE  /\ left \in [Members -> Int]
           /\ phase \in {"idle", "matching", "listed"}
           /\ phase = "listed" => \/ \A m \in Members : left[m] >= 0
                                  \/ \A m \in Members : left[m] <= 0
<1>1. SimplifierProofs!TypeOK
  BY DEF SimplifierProofs!LoopInv
<1>2. SimplifierProofs!OneSideSettled
  BY LoopMembers, SimplifierProofs!SideSettled
<1>. QED  BY <1>1, <1>2 DEF SimplifierProofs!TypeOK, SimplifierProofs!OneSideSettled

\* Moving an amount between two members keeps the sum.
LEMMA TotalMoved ==
    ASSUME NEW f \in [Members -> Int], NEW a \in Members, NEW b \in Members, a # b,
           NEW x \in Int, NEW k \in [Members -> Int],
           k[a] = f[a] + x, k[b] = f[b] - x,
           \A m \in Members \ {a, b} : k[m] = f[m]
    PROVE  SumFunction(k) = SumFunction(f)
<1>. DEFINE up == [m \in Members |-> IF m = a THEN x ELSE 0]
            down == [m \in Members |-> IF m = b THEN x ELSE 0]
            half == [m \in Members |-> f[m] + up[m]]
<1>1. /\ \A m \in Members : up[m] \in Int /\ down[m] \in Int /\ half[m] \in Int
      /\ \A m \in Members : f[m] \in Int
      /\ \A m \in Members : half[m] = f[m] + up[m] /\ k[m] = half[m] - down[m]
  OBVIOUS
<1>2. /\ up[a] = x /\ \A m \in Members \ {a} : up[m] = 0
      /\ down[b] = x /\ \A m \in Members \ {b} : down[m] = 0
  OBVIOUS
<1>3. DOMAIN f = Members /\ DOMAIN k = Members
  OBVIOUS
<1>. HIDE DEF up, down, half
<1>4. Total(up, Members) = x
  BY <1>2, FiniteAssumption, TotalOne
<1>5. Total(down, Members) = x
  BY <1>2, FiniteAssumption, TotalOne
<1>6. Total(half, Members) = Total(f, Members) + Total(up, Members)
  <2>1. AddsUp(f, up, half, Members)
    BY <1>1 DEF AddsUp
  <2>. QED  BY <2>1, FiniteAssumption, TotalPlus
<1>7. Total(k, Members) = Total(half, Members) - Total(down, Members)
  BY <1>1, FiniteAssumption, TotalMinus
<1>8. Total(f, Members) \in Int
  BY <1>1, FiniteAssumption, TotalType
<1>9. Total(k, Members) = Total(f, Members)
  BY <1>4, <1>5, <1>6, <1>7, <1>8
<1>. QED  BY <1>3, <1>9, SumIsTotal

----------------------------------------------------------------------------
(***************************************************************************)
(* While a list is made, what is left of the balances still sums to what   *)
(* they were: no turn of the loop makes or loses money.                    *)
(***************************************************************************)
BalancesInv ==
    /\ LedgerTypeOK
    /\ simplifyDebts \in BOOLEAN
    /\ SimplifierProofs!LoopInv
    /\ phase # "idle" => SumFunction(left) = SumFunction(Net)

\* Nothing is being computed at the start.
LEMMA BalancesInit == Init => BalancesInv
<1>. SUFFICES ASSUME Init PROVE BalancesInv
  OBVIOUS
<1>1. LedgerTypeOK
  BY NoEditTyped DEF Init, LedgerInit, LedgerTypeOK
<1>2. SimplifierProofs!LoopInv
  BY LoopStarts DEF Init
<1>3. phase = "idle" /\ simplifyDebts = TRUE
  BY DEF Init, Simplifier!Init
<1>. QED  BY <1>1, <1>2, <1>3 DEF BalancesInv

\* The balances of the ledger as it will be.
LEMMA NetNext == Net' = NetOf(ledger')
BY DEF Net, NetOf, Recorded, In, MapThenSumSet, MapThenFoldSet

\* Every step keeps the sum of what is left.
LEMMA BalancesStep == BalancesInv /\ [Next]_vars => BalancesInv'
<1>. SUFFICES ASSUME BalancesInv, [Next]_vars PROVE BalancesInv'
  OBVIOUS
<1>1. LedgerTypeOK'
  BY StepOfLedger, LedgerTypeStep DEF BalancesInv
<1>2. SimplifierProofs!LoopInv /\ simplifyDebts \in BOOLEAN
  BY DEF BalancesInv
<1>3. ledger' = ledger => Net' = Net
  BY NetNow, NetNext
<1>4. CASE LedgerStep \/ ToggleSimplifyDebts
  <2>1. phase = "idle" /\ UNCHANGED simplifierVars /\ simplifyDebts' \in BOOLEAN
    BY <1>2, <1>4 DEF LedgerStep, ToggleSimplifyDebts
  <2>2. SimplifierProofs!LoopInv'
    BY <1>2, <2>1, LoopGoesOn
  <2>3. phase' = "idle"
    BY <2>1 DEF simplifierVars
  <2>. QED  BY <1>1, <2>1, <2>2, <2>3 DEF BalancesInv
<1>5. CASE GetBalances
  <2>1. Simplifier!Simplify(Net) /\ ledger' = ledger /\ simplifyDebts' = simplifyDebts
    BY <1>5 DEF GetBalances, ledgerVars
  <2>2. Net \in [Members -> Int]
    BY DocsHere, NetNow, NetType DEF BalancesInv
  <2>3. SimplifierProofs!LoopInv'
    <3>. PICK balances \in [Members -> Int] : balances = Net
      BY <2>2
    <3>1. Simplifier!Simplify(balances)
      BY <2>1
    <3>. QED  BY <1>2, <3>1, SameSimplify, LoopGoesOn
  <2>4. left' = Net
    BY <2>1 DEF Simplifier!Simplify
  <2>. QED  BY <1>1, <1>2, <1>3, <2>1, <2>3, <2>4 DEF BalancesInv
<1>6. CASE SimplifierStep
  <2>1. ledger' = ledger /\ simplifyDebts' = simplifyDebts /\ Net' = Net
    BY <1>3, <1>6 DEF SimplifierStep, ledgerVars
  <2>2. CASE Simplifier!Settle
    <3>1. SimplifierProofs!Settle /\ phase = "matching"
      BY <2>2, SameSettle DEF Simplifier!Settle
    <3>2. SimplifierProofs!LoopInv'
      BY <1>2, <3>1, LoopGoesOn DEF SimplifierProofs!Next
    <3>3. PICK debtor \in Members, creditor \in Members, settled \in Nat :
              /\ debtor # creditor
              /\ left' = [m \in Members |-> IF m = debtor THEN left[m] + settled
                                           ELSE IF m = creditor THEN left[m] - settled
                                           ELSE left[m]]
      BY <1>2, <3>1, LoopTurn
    <3>4. SumFunction(left') = SumFunction(left)
      <4>. PICK f, k : f = left /\ k = left'
        OBVIOUS
      <4>1. f \in [Members -> Int] /\ settled \in Int
        BY <1>2, LoopLeaves
      <4>2. /\ k \in [Members -> Int]
            /\ k[debtor] = f[debtor] + settled /\ k[creditor] = f[creditor] - settled
            /\ \A m \in Members \ {debtor, creditor} : k[m] = f[m]
        BY <3>3, <4>1
      <4>3. SumFunction(k) = SumFunction(f)
        BY <3>3, <4>1, <4>2, TotalMoved
      <4>. QED  BY <4>3
    <3>5. SumFunction(left') = SumFunction(Net')
      BY <2>1, <3>1, <3>4 DEF BalancesInv
    <3>. QED  BY <1>1, <1>2, <2>1, <3>2, <3>5 DEF BalancesInv
  <2>3. CASE Simplifier!Return
    <3>1. SimplifierProofs!LoopInv'
      BY <1>2, <2>3, SameReturn, LoopGoesOn DEF SimplifierProofs!Next
    <3>2. left' = left /\ phase # "idle"
      BY <2>3 DEF Simplifier!Return
    <3>3. SumFunction(left') = SumFunction(Net')
      BY <2>1, <3>2 DEF BalancesInv
    <3>. QED  BY <1>1, <1>2, <2>1, <3>1, <3>3 DEF BalancesInv
  <2>4. CASE Simplifier!Answered
    <3>1. SimplifierProofs!LoopInv'
      BY <1>2, <2>4, SameAnswered, LoopGoesOn DEF SimplifierProofs!Next
    <3>2. phase' = "idle"
      BY <2>4 DEF Simplifier!Answered
    <3>. QED  BY <1>1, <1>2, <2>1, <3>1, <3>2 DEF BalancesInv
  <2>. QED  BY <1>6, <2>2, <2>3, <2>4 DEF SimplifierStep
<1>7. CASE UNCHANGED vars
  <2>1. /\ UNCHANGED simplifierVars /\ simplifyDebts' = simplifyDebts /\ ledger' = ledger
        /\ left' = left /\ phase' = phase
    BY <1>7 DEF vars, simplifierVars
  <2>2. SimplifierProofs!LoopInv'
    BY <1>2, <2>1, LoopGoesOn
  <2>3. phase' # "idle" => SumFunction(left') = SumFunction(Net')
    BY <1>3, <2>1 DEF BalancesInv
  <2>. QED  BY <1>1, <1>2, <2>1, <2>2, <2>3 DEF BalancesInv
<1>. QED  BY <1>4, <1>5, <1>6, <1>7 DEF Next

\* The invariant of getBalances holds throughout.
LEMMA BalancesCorrect == Spec => []BalancesInv
BY BalancesInit, BalancesStep, PTL DEF Spec

\* A function that is nowhere on one side of zero and sums to nothing on the other is
\* zero everywhere.
LEMMA NothingLeft ==
    ASSUME NEW f \in [Members -> Int]
    PROVE  /\ (\A m \in Members : f[m] <= 0) /\ SumFunction(f) >= 0
              => \A m \in Members : f[m] = 0
           /\ (\A m \in Members : f[m] >= 0) /\ SumFunction(f) <= 0
              => \A m \in Members : f[m] = 0
<1>1. \A m \in Members : f[m] \in Int
  OBVIOUS
<1>2. SumFunction(f) = Total(f, Members)
  BY SumIsTotal
<1>3. ASSUME \A m \in Members : f[m] <= 0, SumFunction(f) >= 0
      PROVE  \A m \in Members : f[m] = 0
  BY <1>1, <1>2, <1>3, FiniteAssumption, TotalNothing
<1>4. ASSUME \A m \in Members : f[m] >= 0, SumFunction(f) <= 0
      PROVE  \A m \in Members : f[m] = 0
  <2>. DEFINE z == [m \in Members |-> 0]
              k == [m \in Members |-> z[m] - f[m]]
  <2>1. \A m \in Members : /\ z[m] = 0 /\ z[m] \in Int /\ f[m] \in Int /\ k[m] = z[m] - f[m]
                           /\ k[m] \in Int /\ k[m] <= 0
    BY <1>4
  <2>. HIDE DEF z, k
  <2>2. Total(k, Members) = Total(z, Members) - Total(f, Members)
    BY <2>1, FiniteAssumption, TotalMinus
  <2>3. Total(z, Members) = 0
    BY <2>1, FiniteAssumption, TotalZero
  <2>4. Total(f, Members) \in Int
    BY <1>1, FiniteAssumption, TotalType
  <2>5. Total(k, Members) >= 0
    BY <1>2, <1>4, <2>2, <2>3, <2>4
  <2>6. \A m \in Members : k[m] = 0
    BY <2>1, <2>5, FiniteAssumption, TotalNothing
  <2>. QED  BY <2>1, <2>6
<1>. QED  BY <1>3, <1>4

\* Paying the simplified list leaves the drift of the expenses, and all of it on one
\* side: nothing at all where the splits are exact.
THEOREM SimplifiedPays == Spec => []SimplifiedLeavesDrift
<1>1. BalancesInv => SimplifiedLeavesDrift
  <2>. SUFFICES ASSUME BalancesInv, phase = "listed" PROVE SimplifiedLeavesDrift
    BY DEF SimplifiedLeavesDrift
  <2>1. Docs(ledger)
    BY DocsHere DEF BalancesInv
  <2>. PICK f : f = left
    OBVIOUS
  <2>. PICK drift : drift = MapThenSumSet(Drift, Recorded)
    OBVIOUS
  <2>2. SumFunction(f) = drift
    <3>1. Recorded \in SUBSET Expenses /\ Recorded = In(ledger)
      BY DEF Recorded, In
    <3>2. drift = Total(Excess(ledger), In(ledger))
      BY <3>1, DriftTotal
    <3>3. SumFunction(left) = SumFunction(Net)
      BY DEF BalancesInv
    <3>. QED  BY <2>1, <3>2, <3>3, NetNow, NetSum
  <2>3. /\ f \in [Members -> Int]
        /\ (\A m \in Members : f[m] >= 0) \/ (\A m \in Members : f[m] <= 0)
    BY LoopLeaves DEF BalancesInv
  <2>4. drift >= 0 => \A m \in Members : f[m] >= 0
    BY <2>2, <2>3, NothingLeft
  <2>5. drift <= 0 => \A m \in Members : f[m] <= 0
    BY <2>2, <2>3, NothingLeft
  <2>. QED  BY <2>2, <2>4, <2>5 DEF SimplifiedLeavesDrift
<1>. QED  BY <1>1, BalancesCorrect, PTL

----------------------------------------------------------------------------
\* The debts of the ledger as it will be.
LEMMA OwesNext == ASSUME NEW a, NEW b PROVE Owes(a, b)' = OwesOf(ledger', a, b)
BY DEF Owes, OwesOf, Recorded, In, MapThenSumSet, MapThenFoldSet

\* A step that records an expense leaves all others as they are.
LEMMA RecordsOne ==
    ASSUME LedgerTypeOK, [LedgerNext]_ledgerVars,
           NEW e \in Expenses, ledger[e] = None, ledger'[e] # None
    PROVE  \A o \in Expenses \ {e} : ledger'[o] = ledger[o]
<1>1. DOMAIN ledger = Expenses
  BY DEF LedgerTypeOK
<1>2. ASSUME NEW doc, Insert(doc)
      PROVE  \A o \in Expenses \ {e} : ledger'[o] = ledger[o]
  BY <1>1, <1>2 DEF Insert
<1>3. CASE AddExpense
  BY <1>2, <1>3 DEF AddExpense
<1>4. CASE RecordSettlement
  BY <1>2, <1>4 DEF RecordSettlement
<1>5. ASSUME NEW r \in Requests, UpdateRead(r) \/ UpdateFails(r) PROVE FALSE
  BY <1>5 DEF UpdateRead, UpdateFails
<1>6. ASSUME NEW r \in Requests, UpdateSave(r) PROVE FALSE
  BY <1>1, <1>6 DEF UpdateSave
<1>7. CASE DeleteExpense
  BY <1>1, <1>7 DEF DeleteExpense
<1>8. CASE UNCHANGED ledgerVars
  BY <1>8 DEF ledgerVars
<1>. QED  BY <1>3, <1>4, <1>5, <1>6, <1>7, <1>8 DEF LedgerNext

SettleUpStep ==
    \A from, to \in Members, x \in Payments :
        LET added == {e \in Expenses : ledger[e] = None /\ ledger'[e] # None} IN
        /\ from # to
        /\ \E e \in added : ledger'[e] = Settlement(from, to, x)
        => /\ \A a, b \in Members :
                (Owes(a, b) - Owes(b, a))' =
                    (Owes(a, b) - Owes(b, a))
                    + (IF <<a, b>> = <<from, to>> THEN -x
                       ELSE IF <<a, b>> = <<to, from>> THEN x ELSE 0)
           /\ \A m \in Members :
                Net'[m] = Net[m] + (IF m = from THEN x ELSE IF m = to THEN -x ELSE 0)

\* However the debts came about, a recorded payment takes its amount off the debt of
\* the pair and moves the two balances by it, and nothing else.
THEOREM SettleUpPays == Spec => SettleUpReducesDebt
<1>1. LedgerTypeOK /\ LedgerTypeOK' /\ [LedgerNext]_ledgerVars => SettleUpStep
  <2>. SUFFICES ASSUME LedgerTypeOK, LedgerTypeOK', [LedgerNext]_ledgerVars,
                       NEW from \in Members, NEW to \in Members, NEW x \in Payments,
                       from # to, NEW e \in Expenses, ledger[e] = None, ledger'[e] # None,
                       ledger'[e] = Settlement(from, to, x)
                PROVE  /\ \A a, b \in Members :
                            (Owes(a, b) - Owes(b, a))' =
                                (Owes(a, b) - Owes(b, a))
                                + (IF <<a, b>> = <<from, to>> THEN -x
                                   ELSE IF <<a, b>> = <<to, from>> THEN x ELSE 0)
                       /\ \A m \in Members :
                            Net'[m] = Net[m]
                                      + (IF m = from THEN x ELSE IF m = to THEN -x ELSE 0)
    BY DEF SettleUpStep
  <2>. PICK g, h : g = ledger /\ h = ledger'
    OBVIOUS
  <2>1. Docs(g) /\ Docs(h)
    BY DEF LedgerTypeOK, Docs, In
  <2>2. g[e] = None /\ h[e] # None /\ \A o \in Expenses \ {e} : h[o] = g[o]
    BY RecordsOne
  <2>3. /\ h[e].paidBy = from /\ h[e].total = x
        /\ \A m \in Members : h[e].split[m] = IF m = to THEN x ELSE 0
    BY DEF Settlement
  <2>4. x \in Nat
    BY PaymentsAssumption
  <2>5. /\ \A a, b \in Members :
                OwesOf(h, a, b) = OwesOf(g, a, b) + (IF a = to /\ b = from THEN x ELSE 0)
        /\ \A m \in Members :
                NetOf(h)[m] =
                    NetOf(g)[m] + (IF m = from THEN x ELSE IF m = to THEN -x ELSE 0)
    BY <2>1, <2>2, <2>3, <2>4, SettleUpAdds
  <2>6. ASSUME NEW a \in Members, NEW b \in Members
        PROVE  (Owes(a, b) - Owes(b, a))' =
                    (Owes(a, b) - Owes(b, a))
                    + (IF <<a, b>> = <<from, to>> THEN -x
                       ELSE IF <<a, b>> = <<to, from>> THEN x ELSE 0)
    <3>1. /\ Owes(a, b) = OwesOf(g, a, b) /\ Owes(b, a) = OwesOf(g, b, a)
          /\ Owes(a, b)' = OwesOf(h, a, b) /\ Owes(b, a)' = OwesOf(h, b, a)
      BY OwesNow, OwesNext
    <3>2. OwesOf(g, a, b) \in Int /\ OwesOf(g, b, a) \in Int
      BY <2>1, OwesTotal
    <3>3. /\ OwesOf(h, a, b) = OwesOf(g, a, b) + (IF a = to /\ b = from THEN x ELSE 0)
          /\ OwesOf(h, b, a) = OwesOf(g, b, a) + (IF b = to /\ a = from THEN x ELSE 0)
      BY <2>5
    <3>. PICK p \in Int, q \in Int : p = OwesOf(g, a, b) /\ q = OwesOf(g, b, a)
      BY <3>2
    <3>4. (Owes(a, b) - Owes(b, a))' = Owes(a, b)' - Owes(b, a)'
      OBVIOUS
    <3>. QED  BY <2>4, <3>1, <3>3, <3>4
  <2>7. ASSUME NEW m \in Members
        PROVE  Net'[m] = Net[m] + (IF m = from THEN x ELSE IF m = to THEN -x ELSE 0)
    BY <2>5, NetNow, NetNext
  <2>. QED  BY <2>6, <2>7
<1>2. LedgerTypeOK /\ LedgerTypeOK' /\ [Next]_vars => [SettleUpStep]_vars
  BY <1>1, StepOfLedger
<1>3. Spec => [][SettleUpStep]_vars
  BY <1>2, LedgerTypedHere, PTL DEF Spec
<1>. QED  BY <1>3 DEF SettleUpReducesDebt, SettleUpStep

\* Type correctness, with the loop's variables.
THEOREM BalancesTyped == Spec => []TypeOK
<1>1. BalancesInv => TypeOK
  <2>1. SimplifierProofs!TypeOK => Simplifier!TypeOK
    BY DEF SimplifierProofs!TypeOK, Simplifier!TypeOK,
           SimplifierProofs!Settlement, Simplifier!Settlement
  <2>. QED  BY <2>1 DEF BalancesInv, SimplifierProofs!LoopInv, TypeOK
<1>. QED  BY <1>1, BalancesCorrect, PTL

\* The splits of a bill add up while balances are computed from it.
THEOREM SplitsCorrectHere == Spec => []SplitsAddUp
BY BalancesKeepLedger, SplitsCorrect, PTL
============================================================================
