----------------------------- MODULE CacheProofs -----------------------------
(***************************************************************************)
(* Facts about cache.c that hold whoever uses it, for every shape of the   *)
(* cache: what the matrix of lru records, which line select_line gives up, *)
(* and that a step which puts a block into one line keeps all of it.       *)
(***************************************************************************)
EXTENDS Cache, TLAPS, WellFoundedInduction

-----------------------------------------------------------------------------
(* Numbers *)

LEMMA DivMod ==
    ASSUME NEW n \in Nat \ {0}, NEW b \in Nat
    PROVE  (b % n) \in 0 .. n - 1 /\ (b \div n) \in Nat /\ (b \div n) * n + (b % n) = b
OBVIOUS

LEMMA BlockParts ==
    ASSUME NEW b \in Blocks
    PROVE  Index(b) \in Sets /\ Tag(b) \in Nat /\ BlockOf(Tag(b), Index(b)) = b
BY DivMod, ShapeAssumption, BlocksAssumption DEF Index, Tag, BlockOf, Sets

LEMMA SameBlock ==
    ASSUME NEW b \in Blocks, NEW c \in Blocks, Index(b) = Index(c), Tag(b) = Tag(c)
    PROVE  b = c
BY BlockParts

Smaller == {p \in Nat \X Nat : p[1] < p[2]}

LEMMA FirstIn ==
    ASSUME NEW T \in SUBSET Ways, T # {}
    PROVE  First(T) \in T
<1>1. T \subseteq Nat
  BY ShapeAssumption DEF Ways
<1>2. IsWellFoundedOn(Smaller, Nat)
  BY NatLessThanWellFounded, Zenon DEF OpToRel, Smaller
<1>3. PICK w \in T : \A v \in T : ~(<<v, w>> \in Smaller)
  BY <1>1, <1>2, WFMin, Zenon
<1>4. \A v \in T : ~(v < w)
  BY <1>1, <1>3 DEF Smaller
<1>5. \A v \in T : w <= v
  BY <1>1, <1>4
<1> QED
  BY <1>5 DEF First

LEMMA ZeroIsWay == 0 \in Ways
BY ShapeAssumption DEF Ways

-----------------------------------------------------------------------------
(* The invariant *)

CacheType ==
    /\ lines \in [Sets -> [Ways -> Line]]
    /\ lru_matrix \in [Sets -> [Ways -> [Ways -> BOOLEAN]]]
    /\ next_lru \in [Sets -> 0 .. A]
    /\ age \in [Sets -> [Ways -> Ways]]

\* A valid line holds a block of its own set.
Home ==
    \A s \in Sets, w \in Ways : lines[s][w].valid =>
        \E c \in Blocks : Index(c) = s /\ Tag(c) = lines[s][w].tag

\* The ages of a set are a permutation.
Distinct == \A s \in Sets : \A i, j \in Ways : age[s][i] = age[s][j] => i = j
Complete == \A s \in Sets : \A r \in Ways : \E w \in Ways : age[s][w] = r

\* The matrix orders the lines in use by age.
Recency ==
    \A s \in Sets : \A i, j \in Ways :
        i # j /\ lines[s][i].valid /\ lines[s][j].valid
        => (lru_matrix[s][i][j] <=> age[s][i] < age[s][j])

\* A set in use has its victim noted.
Noted ==
    \A s \in Sets : (\E w \in Ways : lines[s][w].valid)
        => next_lru[s] = LeastRecent(lru_matrix[s])

\* Lines that have been filled are younger than those that have not.
Ranked ==
    \A s \in Sets : \A i, j \in Ways :
        lines[s][i].valid /\ ~lines[s][j].valid => age[s][i] < age[s][j]

CacheInv == /\ CacheType /\ Home /\ NoDuplicates /\ Distinct /\ Complete
            /\ Recency /\ Noted /\ Ranked

LEMMA CreateCacheInv == ASSUME CreateCache, Zero \in Values PROVE CacheInv
<1>1. CacheType
  BY ZeroIsWay, ShapeAssumption
  DEF CreateCache, CacheType, EmptyLine, Line, Data, Unset, Ways
<1>2. \A s \in Sets, w \in Ways : ~lines[s][w].valid
  BY DEF CreateCache, EmptyLine
<1>3. Distinct /\ Complete
  BY DEF CreateCache, Distinct, Complete
<1> QED
  BY <1>1, <1>2, <1>3 DEF CacheInv, Home, NoDuplicates, Recency, Noted, Ranked

LEMMA UnchangedCacheInv ==
    ASSUME CacheInv, UNCHANGED <<lines, lru_matrix, next_lru, age>> PROVE CacheInv'
BY DEF CacheInv, CacheType, Home, NoDuplicates, Distinct, Complete, Recency, Noted, Ranked

-----------------------------------------------------------------------------
(* Using a line *)

LEMMA LineSelected ==
    ASSUME CacheInv, NEW s \in Sets PROVE SelectLine(s) \in Ways
<1>1. CASE Invalid(s) # {}
  BY <1>1, FirstIn DEF SelectLine, Invalid
<1>2. CASE Invalid(s) = {}
  BY <1>2, ZeroIsWay, ShapeAssumption DEF SelectLine, CacheInv, CacheType, Unset, Ways
<1> QED
  BY <1>1, <1>2

LEMMA WayAfter ==
    ASSUME NEW x \in Ways, NEW y \in Ways, x < y PROVE x + 1 \in Ways
BY ShapeAssumption DEF Ways

LEMMA OlderType ==
    ASSUME NEW a \in [Ways -> Ways], NEW k \in Ways
    PROVE  Older(a, k) \in [Ways -> Ways]
<1> DEFINE aged(w) == IF w = k THEN 0 ELSE IF a[w] < a[k] THEN a[w] + 1 ELSE a[w]
<1>1. ASSUME NEW w \in Ways PROVE aged(w) \in Ways
  <2>1. a[w] \in Ways /\ a[k] \in Ways
    OBVIOUS
  <2>2. a[w] < a[k] => a[w] + 1 \in Ways
    BY <2>1, WayAfter
  <2> QED
    BY <2>1, <2>2, ZeroIsWay
<1>2. Older(a, k) = [w \in Ways |-> aged(w)]
  BY DEF Older
<1> HIDE DEF aged
<1> QED
  BY <1>1, <1>2

\* The history and the matrix agree after a use.
LEMMA UsedOrders ==
    ASSUME CacheInv, NEW s \in Sets, NEW k \in Ways, Used(s, k)
    PROVE  /\ age' \in [Sets -> [Ways -> Ways]] /\ Distinct' /\ Complete'
           /\ lru_matrix' \in [Sets -> [Ways -> [Ways -> BOOLEAN]]]
           /\ next_lru' \in [Sets -> 0 .. A]
           /\ next_lru'[s] = LeastRecent(lru_matrix'[s])
           /\ \A i \in Ways \ {k} :
                 /\ lru_matrix'[s][k][i] /\ age'[s][k] < age'[s][i]
                 /\ ~lru_matrix'[s][i][k] /\ ~(age'[s][i] < age'[s][k])
           /\ \A i, j \in Ways \ {k} : i # j =>
                 /\ lru_matrix'[s][i][j] <=> lru_matrix[s][i][j]
                 /\ age'[s][i] < age'[s][j] <=> age[s][i] < age[s][j]
<1> DEFINE a == age[s]
           m == lru_matrix[s]
<1>1. a \in [Ways -> Ways] /\ m \in [Ways -> [Ways -> BOOLEAN]]
  BY DEF CacheInv, CacheType
<1>2. \A i, j \in Ways : a[i] = a[j] => i = j
  BY DEF CacheInv, Distinct
<1>3. \A r \in Ways : \E w \in Ways : a[w] = r
  BY DEF CacheInv, Complete
<1>4. age' = [age EXCEPT ![s] = Older(a, k)] /\ lru_matrix' = [lru_matrix EXCEPT ![s] = Accessed(m, k)]
      /\ next_lru' = [next_lru EXCEPT ![s] = LeastRecent(Accessed(m, k))]
  BY DEF Used
<1>5. Older(a, k) \in [Ways -> Ways]
  BY <1>1, OlderType
<1>6. Accessed(m, k) \in [Ways -> [Ways -> BOOLEAN]]
  BY <1>1 DEF Accessed
<1>7. LeastRecent(Accessed(m, k)) \in Ways
  BY FirstIn, ZeroIsWay DEF LeastRecent, EmptyRows
<1>8. /\ age'[s] = Older(a, k) /\ lru_matrix'[s] = Accessed(m, k)
      /\ next_lru'[s] = LeastRecent(lru_matrix'[s])
      /\ \A r \in Sets \ {s} : age'[r] = age[r]
  BY <1>4 DEF CacheInv, CacheType
<1>9. /\ age' \in [Sets -> [Ways -> Ways]]
      /\ lru_matrix' \in [Sets -> [Ways -> [Ways -> BOOLEAN]]]
      /\ next_lru' \in [Sets -> 0 .. A]
  <2>1. LeastRecent(Accessed(m, k)) \in 0 .. A
    BY <1>7, ShapeAssumption DEF Ways
  <2>2. age' \in [Sets -> [Ways -> Ways]]
    BY <1>4, <1>5 DEF CacheInv, CacheType
  <2>3. lru_matrix' \in [Sets -> [Ways -> [Ways -> BOOLEAN]]]
    BY <1>4, <1>6 DEF CacheInv, CacheType
  <2>4. next_lru' \in [Sets -> 0 .. A]
    BY <1>4, <2>1 DEF CacheInv, CacheType
  <2> QED
    BY <2>2, <2>3, <2>4
<1>10. \A w \in Ways : Older(a, k)[w] = IF w = k THEN 0 ELSE IF a[w] < a[k] THEN a[w] + 1 ELSE a[w]
  BY DEF Older
<1>11. \A w \in Ways : a[w] \in Nat /\ a[w] < A
  BY <1>1, ShapeAssumption DEF Ways
<1>12. \A i \in Ways \ {k} : Older(a, k)[k] < Older(a, k)[i]
  BY <1>2, <1>10, <1>11
<1>13. \A i, j \in Ways \ {k} : i # j => (Older(a, k)[i] < Older(a, k)[j] <=> a[i] < a[j])
  BY <1>2, <1>10, <1>11
<1>14. Distinct'
  <2>1. \A i, j \in Ways : Older(a, k)[i] = Older(a, k)[j] => i = j
    BY <1>2, <1>10, <1>11
  <2> QED
    BY <1>8, <2>1 DEF CacheInv, Distinct
<1>15. Complete'
  <2>1. ASSUME NEW r \in Ways PROVE \E w \in Ways : Older(a, k)[w] = r
    <3>1. CASE r = 0
      BY <1>10, <3>1
    <3>2. CASE r > a[k]
      <4>1. PICK w \in Ways : a[w] = r
        BY <1>3
      <4> QED
        BY <1>10, <1>11, <3>2, <4>1
    <3>3. CASE r # 0 /\ r <= a[k]
      <4>1. r - 1 \in Ways
        BY <3>3, ShapeAssumption DEF Ways
      <4>2. PICK w \in Ways : a[w] = r - 1
        BY <1>3, <4>1
      <4>3. r \in Nat
        BY ShapeAssumption DEF Ways
      <4> QED
        BY <1>10, <1>11, <3>3, <4>2, <4>3
    <3> QED
      BY <1>11, <3>1, <3>2, <3>3, ShapeAssumption DEF Ways
  <2>2. ASSUME NEW t \in Sets, NEW r \in Ways PROVE \E w \in Ways : age'[t][w] = r
    <3>1. CASE t = s
      BY <1>8, <2>1, <3>1
    <3>2. CASE t # s
      BY <1>8, <3>2 DEF CacheInv, Complete
    <3> QED
      BY <3>1, <3>2
  <2> QED
    BY <2>2 DEF Complete
<1>16. /\ \A i \in Ways \ {k} : Accessed(m, k)[k][i] /\ ~Accessed(m, k)[i][k]
       /\ \A i, j \in Ways \ {k} : i # j => (Accessed(m, k)[i][j] <=> m[i][j])
  BY DEF Accessed
<1>17. \A i \in Ways : Older(a, k)[i] \in Nat
  BY <1>10, <1>11
<1>18. \A i \in Ways \ {k} :
         /\ lru_matrix'[s][k][i] /\ age'[s][k] < age'[s][i]
         /\ ~lru_matrix'[s][i][k] /\ ~(age'[s][i] < age'[s][k])
  BY <1>8, <1>12, <1>16, <1>17
<1> QED
  BY <1>8, <1>9, <1>13, <1>14, <1>15, <1>16, <1>18

-----------------------------------------------------------------------------
(* Putting a block into a line *)

\* Line k of b's set holds b after the step; no other line held b before.
Settled(b, k, line) ==
    /\ lines' = [lines EXCEPT ![Index(b)] = [@ EXCEPT ![k] = line]]
    /\ Used(Index(b), k)
    /\ \A w \in Ways \ {k} : w \notin Holding(b)

\* A step that places a line keeps the invariant.
LEMMA SettledInv ==
    ASSUME CacheInv, NEW b \in Blocks, NEW k \in Ways, NEW line \in Line,
           line.valid, line.tag = Tag(b),
           Settled(b, k, line)
    PROVE  CacheInv'
<1> DEFINE s == Index(b)
<1>1. s \in Sets /\ Used(s, k)
  BY BlockParts DEF Settled
<1>2. /\ lines' \in [Sets -> [Ways -> Line]]
      /\ lines'[s][k] = line
      /\ \A r \in Sets, w \in Ways : r # s \/ w # k => lines'[r][w] = lines[r][w]
  BY <1>1 DEF Settled, CacheInv, CacheType
<1>3. /\ age' \in [Sets -> [Ways -> Ways]] /\ Distinct' /\ Complete'
      /\ lru_matrix' \in [Sets -> [Ways -> [Ways -> BOOLEAN]]]
      /\ next_lru' \in [Sets -> 0 .. A]
      /\ next_lru'[s] = LeastRecent(lru_matrix'[s])
  BY <1>1, UsedOrders
<1>4. /\ \A i \in Ways \ {k} :
            /\ lru_matrix'[s][k][i] /\ age'[s][k] < age'[s][i]
            /\ ~lru_matrix'[s][i][k] /\ ~(age'[s][i] < age'[s][k])
      /\ \A i, j \in Ways \ {k} : i # j =>
            /\ lru_matrix'[s][i][j] <=> lru_matrix[s][i][j]
            /\ age'[s][i] < age'[s][j] <=> age[s][i] < age[s][j]
  BY <1>1, UsedOrders
<1>5. \A r \in Sets \ {s} : /\ age'[r] = age[r] /\ lru_matrix'[r] = lru_matrix[r]
                            /\ next_lru'[r] = next_lru[r]
  BY <1>1 DEF Used, CacheInv, CacheType
<1>6. CacheType'
  BY <1>2, <1>3 DEF CacheType, Settled
<1>7. Home'
  BY <1>2 DEF CacheInv, Home
<1>8. \A w \in Ways \ {k} : ~(lines[s][w].valid /\ lines[s][w].tag = Tag(b))
  BY DEF Settled, Holding
<1>9. NoDuplicates'
  BY <1>2, <1>8 DEF CacheInv, NoDuplicates
<1>10. Recency'
  <2>1. ASSUME NEW i \in Ways, NEW j \in Ways, i # j,
               lines'[s][i].valid, lines'[s][j].valid
        PROVE  lru_matrix'[s][i][j] <=> age'[s][i] < age'[s][j]
    <3>1. CASE i = k \/ j = k
      BY <1>4, <2>1, <3>1
    <3>2. CASE i # k /\ j # k
      <4>1. lines[s][i].valid /\ lines[s][j].valid
        BY <1>1, <1>2, <2>1, <3>2
      <4> QED
        BY <1>1, <1>4, <2>1, <3>2, <4>1 DEF CacheInv, Recency
    <3> QED
      BY <3>1, <3>2
  <2>2. \A r \in Sets \ {s} : \A i, j \in Ways :
           i # j /\ lines'[r][i].valid /\ lines'[r][j].valid
           => (lru_matrix'[r][i][j] <=> age'[r][i] < age'[r][j])
    BY <1>2, <1>5 DEF CacheInv, Recency
  <2> QED
    BY <2>1, <2>2 DEF Recency
<1>11. Noted'
  <2>1. \A r \in Sets \ {s} : (\E w \in Ways : lines'[r][w].valid)
           => next_lru'[r] = LeastRecent(lru_matrix'[r])
    BY <1>2, <1>5 DEF CacheInv, Noted
  <2> QED
    BY <1>3, <2>1 DEF Noted
<1>12. Ranked'
  <2>1. ASSUME NEW i \in Ways, NEW j \in Ways, lines'[s][i].valid, ~lines'[s][j].valid
        PROVE  age'[s][i] < age'[s][j]
    <3>1. j # k
      BY <1>2, <2>1
    <3>2. CASE i = k
      BY <1>4, <3>1, <3>2
    <3>3. CASE i # k
      <4>1. lines[s][i].valid /\ ~lines[s][j].valid
        BY <1>1, <1>2, <2>1, <3>1, <3>3
      <4> QED
        BY <1>1, <1>4, <2>1, <3>1, <3>3, <4>1 DEF CacheInv, Ranked
    <3> QED
      BY <3>2, <3>3
  <2>2. \A r \in Sets \ {s} : \A i, j \in Ways :
           lines'[r][i].valid /\ ~lines'[r][j].valid => age'[r][i] < age'[r][j]
    BY <1>2, <1>5 DEF CacheInv, Ranked
  <2> QED
    BY <2>1, <2>2 DEF Ranked
<1> QED
  BY <1>3, <1>6, <1>7, <1>9, <1>10, <1>11, <1>12 DEF CacheInv

-----------------------------------------------------------------------------
\* In a full set the line given up is the oldest: its age is the highest.
LEMMA VictimOldest ==
    ASSUME CacheInv, NEW s \in Sets, Invalid(s) = {}
    PROVE  SelectLine(s) \in Ways /\ age[s][SelectLine(s)] = A - 1
<1> DEFINE m == lru_matrix[s]
<1>1. \A v \in Ways : lines[s][v].valid
  BY DEF Invalid
<1>2. \A i, j \in Ways : i # j => (m[i][j] <=> age[s][i] < age[s][j])
  BY <1>1 DEF CacheInv, Recency
<1>3. \A v \in Ways : age[s][v] \in Nat /\ age[s][v] <= A - 1
  BY ShapeAssumption DEF CacheInv, CacheType, Ways
<1>4. PICK k \in Ways : age[s][k] = A - 1
  BY ShapeAssumption DEF CacheInv, Complete, Ways
<1>5. \A v \in Ways : v # k => age[s][v] < age[s][k]
  <2>1. \A v \in Ways : v # k => age[s][v] # age[s][k]
    BY DEF CacheInv, Distinct
  <2> QED
    BY <1>3, <1>4, <2>1, ShapeAssumption
<1>6. EmptyRows(m) = {k}
  <2>1. k \in EmptyRows(m)
    BY <1>2, <1>3, <1>5 DEF EmptyRows
  <2>2. \A v \in Ways : v # k => v \notin EmptyRows(m)
    BY <1>2, <1>5 DEF EmptyRows
  <2>3. EmptyRows(m) \subseteq Ways
    BY DEF EmptyRows
  <2> QED
    BY <2>1, <2>2, <2>3
<1>7. LeastRecent(m) = k
  BY <1>6, FirstIn DEF LeastRecent
<1>8. next_lru[s] = k
  BY <1>1, <1>4, <1>7 DEF CacheInv, Noted
<1>9. SelectLine(s) = k
  BY <1>8, ShapeAssumption DEF SelectLine, Unset, Ways
<1> QED
  BY <1>4, <1>9

LEMMA VictimOldestOnly ==
    ASSUME CacheInv, NEW s \in Sets, Invalid(s) = {}, NEW w \in Ways, w # SelectLine(s)
    PROVE  age[s][w] < age[s][SelectLine(s)]
<1>1. SelectLine(s) \in Ways /\ age[s][SelectLine(s)] = A - 1
  BY VictimOldest
<1>2. age[s][w] \in 0 .. A - 1
  BY DEF CacheInv, CacheType, Ways
<1>3. age[s][w] # age[s][SelectLine(s)]
  BY <1>1 DEF CacheInv, Distinct
<1> QED
  BY <1>1, <1>2, <1>3, ShapeAssumption
=============================================================================
