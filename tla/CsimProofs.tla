------------------------------ MODULE CsimProofs ------------------------------
(***************************************************************************)
(* Proofs about Csim, for every shape of the cache, every set of blocks    *)
(* and every trace: csim.c counts what an ideal least-recently-used cache  *)
(* would count.                                                            *)
(*                                                                         *)
(* Whether it hits or misses, an access settles its block in one line k    *)
(* (CacheProofs); what that does to the ranks of the other blocks of the   *)
(* set is shown once, and the cases differ only in what line k held.       *)
(***************************************************************************)
EXTENDS Csim, CacheProofs, FiniteSetTheorems

\* What holds of every state: an M line is half done for one block at most,
\* and that block is in the cache.
SimInv ==
    /\ CacheInv
    /\ again \subseteq Blocks /\ \A b, c \in again : b = c
    /\ \A b \in again : Hit(b)

LEMMA InitSim == Init => SimInv
BY CreateCacheInv, NoDataAssumption DEF Init, SimInv

-----------------------------------------------------------------------------
(* Blocks and the lines that hold them *)

HeldFact ==
    \A b \in Blocks : \A k \in Holding(b) :
        /\ k \in Ways /\ Holding(b) = {k}
        /\ Held[b] = [rank |-> age[Index(b)][k], dirty |-> lines[Index(b)][k].dirty]

LEMMA HeldAt == CacheInv => HeldFact
<1> SUFFICES ASSUME CacheInv, NEW b \in Blocks, NEW k \in Holding(b)
             PROVE  /\ k \in Ways /\ Holding(b) = {k}
                    /\ Held[b] = [rank |-> age[Index(b)][k], dirty |-> lines[Index(b)][k].dirty]
  BY DEF HeldFact
<1>1. Index(b) \in Sets /\ Holding(b) \subseteq Ways
  BY BlockParts DEF Holding
<1>2. Holding(b) = {k}
  BY <1>1 DEF CacheInv, NoDuplicates, Holding
<1>3. First(Holding(b)) = k
  BY <1>1, <1>2, FirstIn
<1> QED
  BY <1>1, <1>2, <1>3 DEF Held, Cached

LEMMA HeldDomain == DOMAIN Held = {b \in Blocks : Holding(b) # {}}
BY DEF Held, Cached

\* What becomes of the blocks' places when b settles in line k.
Moved(b, k, line) ==
    /\ Held'[b] = [rank |-> 0, dirty |-> line.dirty] /\ Holding(b)' = {k}
    /\ \A c \in Blocks : Index(c) # Index(b) =>
          Holding(c)' = Holding(c) /\ (c \in DOMAIN Held => Held'[c] = Held[c])
    /\ \A c \in Blocks \ {b} : Index(c) = Index(b) => Holding(c)' = Holding(c) \ {k}
    /\ \A c \in Blocks \ {b} : \A w \in Holding(c) \ {k} : Index(c) = Index(b) =>
          Held'[c] = [rank |-> IF age[Index(b)][w] < age[Index(b)][k]
                               THEN Held[c].rank + 1 ELSE Held[c].rank,
                      dirty |-> Held[c].dirty]

LEMMA SettledMoves ==
    ASSUME CacheInv, NEW b \in Blocks, NEW k \in Ways, NEW line \in Line,
           line.valid, line.tag = Tag(b), Settled(b, k, line)
    PROVE  Moved(b, k, line)
<1> DEFINE s == Index(b)
<1>1. HeldFact /\ HeldFact'
  <2>1. CacheInv'
    BY SettledInv
  <2>2. CacheInv' => HeldFact'
    BY HeldAt, PTL
  <2> QED
    BY <2>1, <2>2, HeldAt
<1>2. s \in Sets /\ \A c \in Blocks : Index(c) \in Sets
  BY BlockParts
<1>3. /\ lines'[s][k] = line
      /\ \A r \in Sets, w \in Ways : r # s \/ w # k => lines'[r][w] = lines[r][w]
  BY <1>2 DEF Settled, CacheInv, CacheType
<1>4. /\ \A r \in Sets : r # s => age'[r] = age[r]
      /\ \A w \in Ways : age'[s][w] = IF w = k THEN 0
                                      ELSE IF age[s][w] < age[s][k] THEN age[s][w] + 1 ELSE age[s][w]
  BY <1>2 DEF Settled, Used, Older, CacheInv, CacheType
<1>5. k \in Holding(b)'
  BY <1>3 DEF Holding
<1>6. Held'[b] = [rank |-> 0, dirty |-> line.dirty] /\ Holding(b)' = {k}
  <2>1. /\ Holding(b)' = {k}
        /\ Held'[b] = [rank |-> age'[s][k], dirty |-> lines'[s][k].dirty]
    BY <1>1, <1>5 DEF HeldFact
  <2> QED
    BY <1>3, <1>4, <2>1
<1>7. ASSUME NEW c \in Blocks, Index(c) # s
      PROVE  Holding(c)' = Holding(c) /\ (c \in DOMAIN Held => Held'[c] = Held[c])
  <2>1. Holding(c)' = Holding(c)
    BY <1>2, <1>3, <1>7 DEF Holding
  <2>2. ASSUME NEW w \in Holding(c) PROVE Held'[c] = Held[c]
    <3>1. Held[c] = [rank |-> age[Index(c)][w], dirty |-> lines[Index(c)][w].dirty] /\ w \in Ways
      BY <1>1, <2>2 DEF HeldFact
    <3>2. Held'[c] = [rank |-> age'[Index(c)][w], dirty |-> lines'[Index(c)][w].dirty]
      BY <1>1, <2>1, <2>2 DEF HeldFact
    <3> QED
      BY <1>2, <1>3, <1>4, <1>7, <3>1, <3>2
  <2> QED
    BY <2>1, <2>2, HeldDomain
<1>8. ASSUME NEW c \in Blocks \ {b}, Index(c) = s PROVE Holding(c)' = Holding(c) \ {k}
  <2>1. k \notin Holding(c)'
    BY <1>3, <1>8, SameBlock DEF Holding
  <2> QED
    BY <1>2, <1>3, <1>8, <2>1 DEF Holding
<1>9. ASSUME NEW c \in Blocks \ {b}, NEW w \in Holding(c) \ {k}, Index(c) = s
      PROVE  Held'[c] = [rank |-> IF age[s][w] < age[s][k] THEN Held[c].rank + 1 ELSE Held[c].rank,
                         dirty |-> Held[c].dirty]
  <2>1. Held[c] = [rank |-> age[s][w], dirty |-> lines[s][w].dirty] /\ w \in Ways
    BY <1>1, <1>9 DEF HeldFact
  <2>2. Held'[c] = [rank |-> age'[s][w], dirty |-> lines'[s][w].dirty]
    BY <1>1, <1>8, <1>9 DEF HeldFact
  <2> QED
    BY <1>2, <1>3, <1>4, <1>9, <2>1, <2>2
<1> QED
  BY <1>6, <1>7, <1>8, <1>9 DEF Moved

-----------------------------------------------------------------------------
(* The accesses *)

\* Which blocks share a set, in both modules' words.
LEMMA MatesAre ==
    ASSUME NEW b \in Blocks
    PROVE  Lru!Mates(b) = {c \in Blocks : Holding(c) # {} /\ Index(c) = Index(b)}
BY HeldDomain DEF Lru!Mates, Index

\* A hit settles the block where it is.
LEMMA HitSettles ==
    ASSUME CacheInv, NEW b \in Blocks, NEW write \in BOOLEAN, AccessHit(b, write)
    PROVE  \E k \in Holding(b), line \in Line :
              /\ line.valid /\ line.tag = Tag(b) /\ line.dirty = (lines[Index(b)][k].dirty \/ write)
              /\ Settled(b, k, line)
<1> DEFINE k == First(Holding(b))
           old == lines[Index(b)][k]
           line == [old EXCEPT !.dirty = old.dirty \/ write]
<1>1. Index(b) \in Sets /\ Holding(b) \subseteq Ways /\ Holding(b) # {}
  BY BlockParts DEF Holding, AccessHit, Hit
<1>2. k \in Holding(b) /\ k \in Ways /\ Holding(b) = {k}
  BY <1>1, FirstIn, HeldAt DEF HeldFact
<1>3. old \in Line /\ old.valid /\ old.tag = Tag(b)
  BY <1>1, <1>2 DEF CacheInv, CacheType, Holding
<1>4. line \in Line /\ line.valid /\ line.tag = Tag(b) /\ line.dirty = (old.dirty \/ write)
  <2>1. old.dirty \in BOOLEAN /\ (old.dirty \/ write) \in BOOLEAN
    BY <1>3 DEF Line
  <2> QED
    BY <1>3, <2>1 DEF Line
<1>5. lines' = [lines EXCEPT ![Index(b)] = [@ EXCEPT ![k] = line]] /\ Used(Index(b), k)
  BY DEF AccessHit
<1>6. Settled(b, k, line)
  <2> HIDE DEF k, line
  <2> QED
    BY <1>2, <1>5 DEF Settled
<1> HIDE DEF k, line
<1> QED
  BY <1>2, <1>4, <1>6

\* A miss settles the block in the line that is given up.
LEMMA MissSettles ==
    ASSUME CacheInv, NEW b \in Blocks, NEW write \in BOOLEAN, AccessMiss(b, write)
    PROVE  /\ SelectLine(Index(b)) \in Ways /\ Holding(b) = {}
           /\ Evicted(lines[Index(b)][SelectLine(Index(b))])
           /\ \E line \in Line :
                 /\ line.valid /\ line.tag = Tag(b) /\ line.dirty = write
                 /\ Settled(b, SelectLine(Index(b)), line)
<1> DEFINE k == SelectLine(Index(b))
           line == Filled(b, write, [o \in Offsets |-> Zero])
<1>1. Index(b) \in Sets /\ Holding(b) = {}
  BY BlockParts DEF AccessMiss, Hit
<1>2. k \in Ways
  BY <1>1, LineSelected
<1>3. line \in Line /\ line.valid /\ line.tag = Tag(b) /\ line.dirty = write
  BY NoDataAssumption DEF Filled, Line, Data
<1>4. /\ lines' = [lines EXCEPT ![Index(b)] = [@ EXCEPT ![k] = line]] /\ Used(Index(b), k)
      /\ Evicted(lines[Index(b)][k])
  BY DEF AccessMiss
<1> HIDE DEF k, line
<1>5. Settled(b, k, line)
  BY <1>1, <1>4 DEF Settled
<1> QED
  BY <1>1, <1>2, <1>3, <1>4, <1>5 DEF k

\* A hit is a hit of the ideal cache.
LEMMA HitIsHit ==
    ASSUME CacheInv, NEW b \in Blocks, NEW write \in BOOLEAN, AccessHit(b, write)
    PROVE  Lru!Hit(b, write)
<1>1. PICK k \in Holding(b), line \in Line :
         /\ line.valid /\ line.tag = Tag(b) /\ line.dirty = (lines[Index(b)][k].dirty \/ write)
         /\ Settled(b, k, line)
  BY HitSettles
<1>2. k \in Ways /\ Held[b] = [rank |-> age[Index(b)][k], dirty |-> lines[Index(b)][k].dirty]
  BY HeldAt DEF HeldFact
<1>3. b \in DOMAIN Held /\ Moved(b, k, line)
  BY <1>1, <1>2, HeldDomain, SettledMoves
<1> DEFINE T == {c \in Lru!Mates(b) : Held[c].rank < Held[b].rank}
<1>4. \A c \in Blocks \ {b} : Index(c) = Index(b) => k \notin Holding(c)
  BY SameBlock DEF Holding
<1>5. DOMAIN Held' = DOMAIN Held
  <2>1. DOMAIN Held' = {c \in Blocks : Holding(c)' # {}}
    BY DEF Held, Cached
  <2> QED
    BY <1>3, <1>4, <2>1, HeldDomain DEF Moved
<1>6. ASSUME NEW c \in DOMAIN Held PROVE Held'[c] = Lru!Ranks(DOMAIN Held, b, T, write \/ Held[b].dirty)[c]
  <2>1. c \in Blocks /\ Holding(c) # {}
    BY HeldDomain
  <2>2. Lru!Ranks(DOMAIN Held, b, T, write \/ Held[b].dirty)[c]
          = IF c = b THEN [rank |-> 0, dirty |-> write \/ Held[b].dirty]
            ELSE IF c \in T THEN [rank |-> Held[c].rank + 1, dirty |-> Held[c].dirty] ELSE Held[c]
    BY DEF Lru!Ranks
  <2>3. CASE c = b
    <3>1. Held'[b] = [rank |-> 0, dirty |-> line.dirty]
      BY <1>3 DEF Moved
    <3>2. line.dirty = (write \/ Held[b].dirty)
      BY <1>1, <1>2
    <3> QED
      BY <2>2, <2>3, <3>1, <3>2
  <2>4. CASE c # b /\ Index(c) # Index(b)
    <3>1. c \notin T
      BY <2>4, MatesAre
    <3> QED
      BY <1>3, <2>1, <2>2, <2>4, <3>1 DEF Moved
  <2>5. CASE c # b /\ Index(c) = Index(b)
    <3>1. PICK w \in Holding(c) : TRUE
      BY <2>1
    <3>2. Held[c] = [rank |-> age[Index(b)][w], dirty |-> lines[Index(b)][w].dirty]
      BY <2>1, <2>5, HeldAt DEF HeldFact
    <3>3. c \in T <=> age[Index(b)][w] < age[Index(b)][k]
      BY <1>2, <2>1, <2>5, <3>2, MatesAre
    <3>4. w # k
      BY <1>4, <2>1, <2>5
    <3>5. Held'[c] = [rank |-> IF age[Index(b)][w] < age[Index(b)][k]
                               THEN Held[c].rank + 1 ELSE Held[c].rank,
                      dirty |-> Held[c].dirty]
      BY <1>3, <2>1, <2>5, <3>4 DEF Moved
    <3> QED
      BY <2>2, <2>5, <3>2, <3>3, <3>5
  <2> QED
    BY <2>3, <2>4, <2>5
<1>7. Held' = Lru!Ranks(DOMAIN Held, b, T, write \/ Held[b].dirty)
  <2>1. /\ Held' = [c \in DOMAIN Held' |-> Held'[c]]
        /\ Lru!Ranks(DOMAIN Held, b, T, write \/ Held[b].dirty)
             = [c \in DOMAIN Held |-> Lru!Ranks(DOMAIN Held, b, T, write \/ Held[b].dirty)[c]]
    BY DEF Held, Lru!Ranks
  <2> QED
    BY <1>5, <1>6, <2>1
<1> QED
  BY <1>3, <1>7 DEF Lru!Hit, AccessHit

\* The line given up holds a block that is the lowest in rank, or none.
LEMMA GivenUp ==
    ASSUME CacheInv, NEW b \in Blocks, Holding(b) = {}
    PROVE  LET k == SelectLine(Index(b))
               e == lines[Index(b)][k]
           IN /\ \A c \in Lru!Mates(b) : \A w \in Holding(c) \ {k} :
                    age[Index(b)][w] < age[Index(b)][k] /\ Held[c].rank # A - 1
              /\ ~e.valid => \A c \in Lru!Mates(b) : k \notin Holding(c)
              /\ e.valid => \E v \in Lru!Mates(b) :
                    /\ k \in Holding(v) /\ Held[v] = [rank |-> A - 1, dirty |-> e.dirty]
                    /\ \A c \in Lru!Mates(b) : c # v => k \notin Holding(c)
<1> DEFINE s == Index(b)
           k == SelectLine(s)
           e == lines[s][k]
<1>1. s \in Sets /\ k \in Ways
  BY BlockParts, LineSelected
<1> HIDE DEF k
<1>2. ASSUME NEW c \in Lru!Mates(b), NEW w \in Holding(c)
      PROVE  /\ w \in Ways /\ Index(c) = s /\ lines[s][w].valid /\ c \in Blocks
             /\ Held[c] = [rank |-> age[s][w], dirty |-> lines[s][w].dirty]
  BY <1>2, HeldAt, MatesAre DEF HeldFact, Holding
<1>3. \A w \in Ways : age[s][w] \in Nat /\ age[s][w] <= A - 1
  BY <1>1, ShapeAssumption DEF CacheInv, CacheType, Ways
<1>4. ASSUME NEW w \in Ways \ {k}, lines[s][w].valid PROVE age[s][w] < age[s][k]
  <2>1. CASE Invalid(s) = {}
    BY <1>1, <1>4, <2>1, VictimOldestOnly DEF k
  <2>2. CASE Invalid(s) # {}
    <3>1. k \in Invalid(s)
      BY <2>2, FirstIn DEF SelectLine, Invalid, k
    <3> QED
      BY <1>1, <1>4, <3>1 DEF CacheInv, Ranked, Invalid
  <2> QED
    BY <2>1, <2>2
<1>5. ASSUME NEW c \in Lru!Mates(b), NEW w \in Holding(c) \ {k}
      PROVE  age[s][w] < age[s][k] /\ Held[c].rank # A - 1
  <2>1. w \in Ways /\ lines[s][w].valid /\ Held[c] = [rank |-> age[s][w], dirty |-> lines[s][w].dirty]
    BY <1>2
  <2>2. Held[c].rank = age[s][w]
    BY <2>1
  <2>3. age[s][w] < age[s][k]
    BY <1>4, <2>1
  <2> QED
    BY <1>1, <1>3, <2>1, <2>2, <2>3, ShapeAssumption
<1>6. ~e.valid => \A c \in Lru!Mates(b) : k \notin Holding(c)
  BY <1>2
<1>7. ASSUME e.valid
      PROVE  \E v \in Lru!Mates(b) :
                /\ k \in Holding(v) /\ Held[v] = [rank |-> A - 1, dirty |-> e.dirty]
                /\ \A c \in Lru!Mates(b) : c # v => k \notin Holding(c)
  <2>1. PICK v \in Blocks : Index(v) = s /\ Tag(v) = e.tag
    BY <1>1, <1>7 DEF CacheInv, Home
  <2>2. k \in Holding(v) /\ v \in Lru!Mates(b)
    BY <1>1, <1>7, <2>1, MatesAre DEF Holding
  <2>3. Invalid(s) = {}
    <3>1. Invalid(s) # {} => k \in Invalid(s)
      BY FirstIn DEF SelectLine, Invalid, k
    <3> QED
      BY <1>7, <3>1 DEF Invalid
  <2>4. age[s][k] = A - 1
    BY <1>1, <2>3, VictimOldest DEF k
  <2>5. Held[v] = [rank |-> A - 1, dirty |-> e.dirty]
    BY <1>2, <2>2, <2>4
  <2>6. ASSUME NEW c \in Lru!Mates(b), k \in Holding(c) PROVE c = v
    <3>1. c \in Blocks /\ Index(c) = s /\ Tag(c) = e.tag
      BY <1>2, <2>6 DEF Holding
    <3> QED
      BY <2>1, <3>1, SameBlock
  <2> QED
    BY <2>2, <2>5, <2>6
<1> QED
  BY <1>5, <1>6, <1>7 DEF k

\* The ranks after a miss that leaves the blocks in `dom' and b.
LEMMA MissRanks ==
    ASSUME CacheInv, NEW b \in Blocks, NEW k \in Ways, NEW line \in Line, NEW dom,
           Holding(b) = {}, Moved(b, k, line),
           \A c \in Lru!Mates(b) : \A w \in Holding(c) \ {k} : age[Index(b)][w] < age[Index(b)][k],
           dom = {c \in DOMAIN Held : ~(Index(c) = Index(b) /\ k \in Holding(c))}
    PROVE  Held' = Lru!Ranks(dom \cup {b}, b, Lru!Mates(b), line.dirty)
<1> DEFINE R == Lru!Ranks(dom \cup {b}, b, Lru!Mates(b), line.dirty)
<1>1. DOMAIN Held' = dom \cup {b}
  <2>1. DOMAIN Held' = {c \in Blocks : Holding(c)' # {}}
    BY DEF Held, Cached
  <2>2. \A c \in Blocks \ {b} : Holding(c)' # {} <=> c \in dom
    <3>1. ASSUME NEW c \in Blocks \ {b}, Index(c) = Index(b) PROVE Holding(c)' # {} <=> c \in dom
      <4>1. Holding(c)' = Holding(c) \ {k}
        BY <3>1 DEF Moved
      <4>2. \A w \in Holding(c) : Holding(c) = {w}
        BY HeldAt DEF HeldFact
      <4> QED
        BY <3>1, <4>1, <4>2, HeldDomain
    <3>2. ASSUME NEW c \in Blocks \ {b}, Index(c) # Index(b) PROVE Holding(c)' # {} <=> c \in dom
      BY <3>2, HeldDomain DEF Moved
    <3> QED
      BY <3>1, <3>2
  <2>3. Holding(b)' # {}
    BY DEF Moved
  <2>4. dom \subseteq Blocks
    BY HeldDomain
  <2> QED
    BY <2>1, <2>2, <2>3, <2>4
<1>2. ASSUME NEW c \in dom \cup {b} PROVE Held'[c] = R[c]
  <2>1. R[c] = IF c = b THEN [rank |-> 0, dirty |-> line.dirty]
               ELSE IF c \in Lru!Mates(b) THEN [rank |-> Held[c].rank + 1, dirty |-> Held[c].dirty]
               ELSE Held[c]
    BY DEF Lru!Ranks
  <2>2. CASE c = b
    BY <2>1, <2>2 DEF Moved
  <2>3. CASE c # b
    <3>1. c \in Blocks /\ Holding(c) # {} /\ c \in DOMAIN Held
      BY <2>3, HeldDomain
    <3>2. CASE Index(c) # Index(b)
      BY <2>1, <2>3, <3>1, <3>2, MatesAre DEF Moved
    <3>3. CASE Index(c) = Index(b)
      <4>1. PICK w \in Holding(c) : TRUE
        BY <3>1
      <4>2. w # k /\ c \in Lru!Mates(b)
        BY <2>3, <3>1, <3>3, <4>1, MatesAre
      <4>3. age[Index(b)][w] < age[Index(b)][k]
        BY <4>1, <4>2
      <4>4. Held'[c] = [rank |-> IF age[Index(b)][w] < age[Index(b)][k]
                                 THEN Held[c].rank + 1 ELSE Held[c].rank,
                        dirty |-> Held[c].dirty]
        BY <2>3, <3>1, <3>3, <4>1, <4>2 DEF Moved
      <4> QED
        BY <2>1, <2>3, <4>2, <4>3, <4>4
    <3> QED
      BY <3>2, <3>3
  <2> QED
    BY <2>2, <2>3
<1>3. Held' = [c \in DOMAIN Held' |-> Held'[c]] /\ R = [c \in dom \cup {b} |-> R[c]]
  BY DEF Held, Lru!Ranks
<1> HIDE DEF R
<1>4. Held' = R
  BY <1>1, <1>2, <1>3
<1> QED
  BY <1>4 DEF R

\* A miss fills room that there is, or replaces the block of the lowest rank.
LEMMA MissIsMiss ==
    ASSUME CacheInv, NEW b \in Blocks, NEW write \in BOOLEAN, AccessMiss(b, write)
    PROVE  Lru!Fill(b, write) \/ Lru!Replace(b, write)
<1> DEFINE s == Index(b)
           k == SelectLine(s)
           e == lines[s][k]
<1>1. k \in Ways /\ Holding(b) = {} /\ Evicted(e)
  BY MissSettles
<1>2. PICK line \in Line : /\ line.valid /\ line.tag = Tag(b) /\ line.dirty = write
                           /\ Settled(b, k, line)
  BY MissSettles
<1>3. /\ \A c \in Lru!Mates(b) : \A w \in Holding(c) \ {k} :
            age[s][w] < age[s][k] /\ Held[c].rank # A - 1
      /\ ~e.valid => \A c \in Lru!Mates(b) : k \notin Holding(c)
      /\ e.valid => \E v \in Lru!Mates(b) :
            /\ k \in Holding(v) /\ Held[v] = [rank |-> A - 1, dirty |-> e.dirty]
            /\ \A c \in Lru!Mates(b) : c # v => k \notin Holding(c)
  BY <1>1, GivenUp
<1>4. s \in Sets
  BY BlockParts
<1>5. e.dirty \in BOOLEAN /\ e.valid \in BOOLEAN
  BY <1>1, <1>4 DEF CacheInv, CacheType, Line
<1> HIDE DEF k, e
<1>6. Moved(b, k, line)
  BY <1>1, <1>2, SettledMoves
<1>7. b \notin DOMAIN Held
  BY <1>1, HeldDomain
<1>8. miss_count' = miss_count + 1 /\ hit_count' = hit_count
  BY DEF AccessMiss
<1>9. \A c \in DOMAIN Held : c \in Lru!Mates(b) <=> Index(c) = s
  BY HeldDomain, MatesAre
<1>10. CASE ~e.valid
  <2>1. DOMAIN Held = {c \in DOMAIN Held : ~(Index(c) = s /\ k \in Holding(c))}
    BY <1>3, <1>9, <1>10
  <2>2. Held' = Lru!Ranks(DOMAIN Held \cup {b}, b, Lru!Mates(b), write)
    BY <1>1, <1>2, <1>3, <1>6, <2>1, MissRanks
  <2>3. ASSUME NEW c \in Lru!Mates(b) PROVE Held[c].rank # A - 1
    <3>1. Holding(c) # {}
      BY MatesAre
    <3> QED
      BY <1>3, <1>10, <3>1
  <2>4. UNCHANGED <<dirty_eviction_count, clean_eviction_count>>
    BY <1>1, <1>10 DEF Evicted
  <2> QED
    BY <1>7, <1>8, <2>2, <2>3, <2>4 DEF Lru!Fill
<1>11. CASE e.valid
  <2>1. PICK v \in Lru!Mates(b) :
           /\ k \in Holding(v) /\ Held[v] = [rank |-> A - 1, dirty |-> e.dirty]
           /\ \A c \in Lru!Mates(b) : c # v => k \notin Holding(c)
    BY <1>3, <1>11
  <2>2. DOMAIN Held \ {v} = {c \in DOMAIN Held : ~(Index(c) = s /\ k \in Holding(c))}
    BY <1>9, <2>1, MatesAre
  <2>3. Held' = Lru!Ranks((DOMAIN Held \ {v}) \cup {b}, b, Lru!Mates(b), write)
    BY <1>1, <1>2, <1>3, <1>6, <2>2, MissRanks
  <2>4. Held[v].rank = A - 1 /\ Held[v].dirty = e.dirty
    BY <2>1
  <2>5. /\ dirty_eviction_count' = IF Held[v].dirty THEN dirty_eviction_count + 1
                                   ELSE dirty_eviction_count
        /\ clean_eviction_count' = IF Held[v].dirty THEN clean_eviction_count
                                   ELSE clean_eviction_count + 1
    BY <1>1, <1>5, <1>11, <2>4 DEF Evicted
  <2> QED
    BY <1>7, <1>8, <2>1, <2>3, <2>4, <2>5 DEF Lru!Replace
<1> QED
  BY <1>5, <1>10, <1>11

\* An access is one of the ideal cache's, and leaves its block in the cache.
LEMMA AccessStep ==
    ASSUME CacheInv, NEW b \in Blocks, NEW write \in BOOLEAN, AccessData(b, write)
    PROVE  /\ CacheInv' /\ Lru!Next
           /\ \E k \in Ways : k \in Holding(b)' /\ (write => lines'[Index(b)][k].dirty)
<1>1. \E k \in Ways, line \in Line :
         /\ line.valid /\ line.tag = Tag(b) /\ (write => line.dirty) /\ Settled(b, k, line)
  <2>1. CASE AccessHit(b, write)
    <3>1. Holding(b) \subseteq Ways
      BY DEF Holding
    <3> QED
      BY <2>1, <3>1, HitSettles
  <2>2. CASE AccessMiss(b, write)
    BY <2>2, MissSettles
  <2> QED
    BY <2>1, <2>2 DEF AccessData
<1>2. PICK k \in Ways, line \in Line :
         /\ line.valid /\ line.tag = Tag(b) /\ (write => line.dirty) /\ Settled(b, k, line)
  BY <1>1
<1>3. CacheInv'
  BY <1>2, SettledInv
<1>4. k \in Holding(b)' /\ lines'[Index(b)][k] = line
  <2>1. Index(b) \in Sets
    BY BlockParts
  <2>2. lines'[Index(b)][k] = line
    BY <1>2, <2>1 DEF Settled, CacheInv, CacheType
  <2> QED
    BY <1>2, <2>2 DEF Holding
<1>5. Lru!Next
  BY HitIsHit, MissIsMiss DEF AccessData, Lru!Next
<1> QED
  BY <1>2, <1>3, <1>4, <1>5

-----------------------------------------------------------------------------
(* The theorems *)

\* Nothing but an access touches the cache, the counters or a half-done line.
LEMMA QuietSim ==
    ASSUME SimInv, UNCHANGED <<cache, again, counters>>
    PROVE  SimInv' /\ UNCHANGED Lru!vars
<1>1. CacheInv'
  BY UnchangedCacheInv DEF SimInv, cache
<1>2. \A b \in Blocks : Holding(b)' = Holding(b)
  BY DEF cache, Holding
<1>3. UNCHANGED Lru!vars
  <2>1. Held' = Held
    BY DEF Held, Cached, Holding, cache
  <2> QED
    BY <2>1 DEF Lru!vars, counters
<1> QED
  BY <1>1, <1>2, <1>3 DEF SimInv, Hit

LEMMA StepSim ==
    ASSUME SimInv, [Next]_vars
    PROVE  SimInv' /\ [Lru!Next]_(Lru!vars)
<1>1. CASE Option \/ CheckArgs \/ EndOfTrace \/ UNCHANGED vars
  <2>1. UNCHANGED <<cache, again, counters>>
    BY <1>1 DEF Option, CheckArgs, EndOfTrace, vars, Given, Usage, Exit
  <2> QED
    BY <2>1, QuietSim
<1>2. ASSUME NEW b \in Blocks, NEW kind \in {"S", "L", "M"}, ReplayLine(b, kind)
      PROVE  SimInv' /\ [Lru!Next]_(Lru!vars)
  <2>1. AccessData(b, kind = "S") /\ again' \subseteq {b}
    BY <1>2 DEF ReplayLine, Rewritten
  <2>2. /\ CacheInv' /\ Lru!Next
        /\ \E k \in Ways : k \in Holding(b)'
    BY <2>1, AccessStep DEF SimInv
  <2> QED
    BY <2>1, <2>2 DEF SimInv, Hit
<1>3. CASE Rewrite
  <2>1. PICK b \in Blocks : AccessData(b, TRUE)
    BY <1>3 DEF Rewrite, SimInv
  <2>2. CacheInv' /\ Lru!Next
    BY <2>1, AccessStep DEF SimInv
  <2>3. again' = {}
    BY <1>3 DEF Rewrite
  <2> QED
    BY <2>2, <2>3 DEF SimInv
<1> QED
  BY <1>1, <1>2, <1>3 DEF Next

\* The counters of csim.c are those of an ideal least-recently-used cache, for
\* every shape and every trace (cache.c:135-160, 226-289, 323-326; csim.c:67-92).
THEOREM CountsAsLru == Spec => ImplementsLruCache
<1>1. Init => SimInv /\ Lru!Init
  <2> SUFFICES ASSUME Init PROVE Lru!Init
    BY InitSim
  <2>1. \A b \in Blocks : ~Cached(b)
    <3>1. \A s \in Sets, w \in Ways : ~lines[s][w].valid
      BY DEF Init, CreateCache, EmptyLine
    <3> QED
      BY <3>1, BlockParts DEF Cached, Holding
  <2>2. Held = [b \in {} |-> [rank |-> 0, dirty |-> FALSE]]
    BY <2>1 DEF Held
  <2> QED
    BY <2>2 DEF Init, Lru!Init
<1>2. SimInv /\ [Next]_vars => SimInv' /\ [Lru!Next]_(Lru!vars)
  BY StepSim
<1> QED
  BY <1>1, <1>2, PTL DEF Spec, ImplementsLruCache, Lru!Spec

\* The second half of a modification hits and leaves its line dirty
\* (csim.c:81-84): the block that the first half brought in is still there.
THEOREM ModificationsHit == Spec => ModifyHits
<1>1. ASSUME SimInv, Next, again # {}, again' = {}
      PROVE  /\ hit_count' = hit_count + 1
             /\ \A b \in again : \E k \in Ways : k \in Holding(b)' /\ lines'[Index(b)][k].dirty
  <2>1. Rewrite
    BY <1>1 DEF Next, Option, CheckArgs, EndOfTrace, ReplayLine, Given, Usage, Exit
  <2>2. PICK b \in again : AccessData(b, TRUE)
    BY <2>1 DEF Rewrite
  <2>3. again = {b} /\ b \in Blocks /\ Hit(b) /\ CacheInv
    BY <1>1 DEF SimInv
  <2>4. hit_count' = hit_count + 1
    BY <2>2, <2>3 DEF AccessData, AccessHit, AccessMiss
  <2>5. \E k \in Ways : k \in Holding(b)' /\ lines'[Index(b)][k].dirty
    BY <2>2, <2>3, AccessStep
  <2> QED
    BY <2>3, <2>4, <2>5
<1>2. SimInv /\ [Next]_vars =>
        [again # {} /\ again' = {} =>
           /\ hit_count' = hit_count + 1
           /\ \A b \in again : \E k \in Ways : k \in Holding(b)' /\ lines'[Index(b)][k].dirty]_vars
  BY <1>1
<1>3. SimInv /\ [Next]_vars => SimInv'
  BY StepSim
<1> QED
  BY <1>2, <1>3, InitSim, PTL DEF Spec, ModifyHits

\* The lines in use.
InUse == {c \in Sets \X Ways : lines[c[1]][c[2]].valid}

CountInv ==
    /\ SimInv /\ IsFiniteSet(InUse) /\ MissesFillLines
    /\ miss_count \in Nat /\ dirty_eviction_count \in Nat /\ clean_eviction_count \in Nat

LEMMA InitCount == Init => CountInv
<1> SUFFICES ASSUME Init PROVE CountInv
  OBVIOUS
<1>1. InUse = {}
  BY DEF Init, CreateCache, EmptyLine, InUse
<1>2. miss_count = 0 /\ dirty_eviction_count = 0 /\ clean_eviction_count = 0
  BY DEF Init
<1> QED
  BY <1>1, <1>2, InitSim, FS_EmptySet DEF CountInv, MissesFillLines, InUse

\* What an access does to the lines in use, and to the difference of the counters.
LEMMA AccessCount ==
    ASSUME CountInv, NEW b \in Blocks, NEW write \in BOOLEAN, AccessData(b, write), SimInv'
    PROVE  CountInv'
<1> DEFINE s == Index(b)
<1>0. CacheInv /\ s \in Sets
  BY BlockParts DEF CountInv, SimInv
<1>1. ASSUME NEW k \in Ways, NEW line \in Line, line.valid, Settled(b, k, line)
      PROVE  InUse' = InUse \cup {<<s, k>>}
  <2>1. /\ lines'[s][k] = line
        /\ \A r \in Sets, w \in Ways : r # s \/ w # k => lines'[r][w] = lines[r][w]
    BY <1>0, <1>1 DEF Settled, CacheInv, CacheType
  <2> QED
    BY <1>0, <1>1, <2>1 DEF InUse
<1>2. CASE AccessHit(b, write)
  <2>1. PICK k \in Holding(b), line \in Line : line.valid /\ Settled(b, k, line)
    BY <1>0, <1>2, HitSettles
  <2>2. k \in Ways /\ <<s, k>> \in InUse
    BY <1>0, <2>1 DEF Holding, InUse
  <2>3. InUse' = InUse
    BY <1>1, <2>1, <2>2
  <2>4. UNCHANGED <<miss_count, dirty_eviction_count, clean_eviction_count>>
    BY <1>2 DEF AccessHit
  <2> QED
    BY <2>3, <2>4 DEF CountInv, MissesFillLines, InUse
<1>3. CASE AccessMiss(b, write)
  <2> DEFINE k == SelectLine(s)
             e == lines[s][k]
  <2>1. k \in Ways /\ Evicted(e)
    BY <1>0, <1>3, MissSettles
  <2>2. PICK line \in Line : line.valid /\ Settled(b, k, line)
    BY <1>0, <1>3, MissSettles
  <2> HIDE DEF k
  <2>3. InUse' = InUse \cup {<<s, k>>}
    BY <1>1, <2>1, <2>2
  <2>4. <<s, k>> \in InUse <=> e.valid
    BY <1>0, <2>1 DEF InUse
  <2>5. /\ IsFiniteSet(InUse')
        /\ e.valid => Cardinality(InUse') = Cardinality(InUse)
        /\ ~e.valid => Cardinality(InUse') = Cardinality(InUse) + 1
    <3>1. CASE e.valid
      <4>1. InUse' = InUse
        BY <2>3, <2>4, <3>1
      <4>2. Cardinality(InUse) \in Nat
        BY FS_CardinalityType DEF CountInv
      <4> QED
        BY <3>1, <4>1, <4>2 DEF CountInv
    <3>2. CASE ~e.valid
      BY <2>3, <2>4, <3>2, FS_AddElement DEF CountInv
    <3> QED
      BY <3>1, <3>2
  <2>6. e.valid \in BOOLEAN /\ e.dirty \in BOOLEAN
    BY <1>0, <2>1 DEF CacheInv, CacheType, Line
  <2>7. miss_count' = miss_count + 1
    BY <1>3 DEF AccessMiss
  <2>8. miss_count' \in Nat /\ dirty_eviction_count' \in Nat /\ clean_eviction_count' \in Nat
    BY <2>1, <2>7 DEF Evicted, CountInv
  <2>9. /\ miss_count \in Nat /\ dirty_eviction_count \in Nat /\ clean_eviction_count \in Nat
        /\ miss_count - dirty_eviction_count - clean_eviction_count = Cardinality(InUse)
    BY DEF CountInv, MissesFillLines, InUse
  <2>10. miss_count' - dirty_eviction_count' - clean_eviction_count' = Cardinality(InUse')
    <3>1. CASE e.valid
      <4>1. \/ dirty_eviction_count' = dirty_eviction_count + 1
               /\ clean_eviction_count' = clean_eviction_count
            \/ clean_eviction_count' = clean_eviction_count + 1
               /\ dirty_eviction_count' = dirty_eviction_count
        BY <2>1, <2>6, <3>1 DEF Evicted
      <4>2. Cardinality(InUse') = Cardinality(InUse)
        BY <2>5, <3>1
      <4>3. miss_count' - dirty_eviction_count' - clean_eviction_count'
              = miss_count - dirty_eviction_count - clean_eviction_count
        BY <2>7, <2>9, <4>1
      <4> QED
        BY <2>9, <4>2, <4>3
    <3>2. CASE ~e.valid
      <4>1. dirty_eviction_count' = dirty_eviction_count /\ clean_eviction_count' = clean_eviction_count
        BY <2>1, <2>6, <3>2 DEF Evicted
      <4>2. Cardinality(InUse') = Cardinality(InUse) + 1
        BY <2>5, <3>2
      <4>3. miss_count' - dirty_eviction_count' - clean_eviction_count'
              = (miss_count - dirty_eviction_count - clean_eviction_count) + 1
        BY <2>7, <2>9, <4>1
      <4> QED
        BY <2>9, <4>2, <4>3
    <3> QED
      BY <3>1, <3>2
  <2> QED
    BY <2>5, <2>8, <2>10 DEF CountInv, MissesFillLines, InUse
<1> QED
  BY <1>2, <1>3 DEF AccessData

\* The misses less the evictions are the lines in use (cache.c:226-289).
THEOREM MissesFill == Spec => []MissesFillLines
<1>1. CountInv /\ [Next]_vars => CountInv'
  <2> SUFFICES ASSUME CountInv, [Next]_vars PROVE CountInv'
    OBVIOUS
  <2>1. SimInv'
    BY StepSim DEF CountInv
  <2>2. CASE UNCHANGED <<cache, counters>>
    BY <2>1, <2>2 DEF CountInv, MissesFillLines, InUse, cache, counters
  <2>3. CASE \E b \in Blocks, write \in BOOLEAN : AccessData(b, write)
    BY <2>1, <2>3, AccessCount
  <2>4. CASE Option \/ CheckArgs \/ EndOfTrace \/ UNCHANGED vars
    BY <2>2, <2>4 DEF Option, CheckArgs, EndOfTrace, vars, Given, Usage, Exit
  <2>5. CASE Rewrite
    BY <2>3, <2>5 DEF Rewrite, CountInv, SimInv
  <2>6. CASE \E b \in Blocks, kind \in {"S", "L", "M"} : ReplayLine(b, kind)
    BY <2>3, <2>6 DEF ReplayLine
  <2> QED
    BY <2>4, <2>5, <2>6 DEF Next
<1> QED
  BY <1>1, InitCount, PTL DEF Spec, CountInv

-----------------------------------------------------------------------------
(* The summary *)

\* What is still to come of the trace's accesses, and how results are written.
SummaryInv ==
    /\ hit_count \in Nat /\ miss_count \in Nat /\ accesses \in Nat
    /\ again = {} => hit_count + miss_count = accesses
    /\ again # {} => hit_count + miss_count + 1 = accesses
    /\ pc \in {"args", "replay", "exit"} /\ (pc # "exit" => results = <<>>)
    /\ pc = "args" => again = {}
    /\ SummaryAccountsForTrace

LEMMA StepSummary ==
    ASSUME SummaryInv, [Next]_vars PROVE SummaryInv'
<1>1. ASSUME NEW b, NEW write, AccessData(b, write)
      PROVE  hit_count' \in Nat /\ miss_count' \in Nat
             /\ hit_count' + miss_count' = hit_count + miss_count + 1
  BY <1>1 DEF AccessData, AccessHit, AccessMiss, SummaryInv
<1>2. CASE Option
  BY <1>2 DEF Option, Given, Usage, Exit, counters, SummaryInv, SummaryAccountsForTrace
<1>3. CASE CheckArgs
  BY <1>3 DEF CheckArgs, Usage, Exit, counters, SummaryInv, SummaryAccountsForTrace
<1>4. CASE Rewrite
  <2>1. PICK b \in again : AccessData(b, TRUE)
    BY <1>4 DEF Rewrite
  <2>2. again' = {} /\ UNCHANGED <<pc, results, accesses>> /\ pc = "replay"
    BY <1>4 DEF Rewrite
  <2> QED
    BY <1>1, <2>1, <2>2 DEF SummaryInv, SummaryAccountsForTrace
<1>5. ASSUME NEW b \in Blocks, NEW kind \in {"S", "L", "M"}, ReplayLine(b, kind)
      PROVE  SummaryInv'
  <2>1. /\ AccessData(b, kind = "S") /\ pc = "replay" /\ again = {}
        /\ again' = Rewritten(b, kind) /\ UNCHANGED <<pc, results>>
        /\ accesses' = accesses + (IF kind = "M" THEN 2 ELSE 1)
    BY <1>5 DEF ReplayLine
  <2>2. again' = {} <=> kind # "M"
    BY <2>1 DEF Rewritten
  <2> QED
    BY <1>1, <2>1, <2>2 DEF SummaryInv, SummaryAccountsForTrace
<1>6. CASE EndOfTrace
  <2>1. /\ again = {} /\ UNCHANGED <<again, hit_count, miss_count, accesses>> /\ pc' = "exit"
        /\ results' = <<"counters">> \o counters
    BY <1>6 DEF EndOfTrace, counters
  <2>2. results'[2] = hit_count /\ results'[3] = miss_count
    BY <2>1 DEF counters
  <2> QED
    BY <2>1, <2>2 DEF SummaryInv, SummaryAccountsForTrace
<1>7. CASE UNCHANGED vars
  BY <1>7 DEF vars, counters, SummaryInv, SummaryAccountsForTrace
<1> QED
  BY <1>2, <1>3, <1>4, <1>5, <1>6, <1>7 DEF Next

\* Every access of the trace is counted once, as a hit or as a miss, and the
\* summary is printed only when none is left over (csim.c, printSummary).
THEOREM SummaryIsComplete == Spec => []SummaryAccountsForTrace
<1>1. Init => SummaryInv
  BY DEF Init, SummaryInv, SummaryAccountsForTrace
<1>2. SummaryInv /\ [Next]_vars => SummaryInv'
  BY StepSummary
<1>3. SummaryInv => SummaryAccountsForTrace
  BY DEF SummaryInv
<1> QED
  BY <1>1, <1>2, <1>3, PTL DEF Spec
=============================================================================
