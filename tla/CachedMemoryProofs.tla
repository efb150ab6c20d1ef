------------------------- MODULE CachedMemoryProofs -------------------------
(***************************************************************************)
(* Proofs about CachedMemory, for every shape of the cache, every delay    *)
(* and every set of blocks: the typing and safety invariants, that it      *)
(* implements FlatMemory, and that it is the memory Pipeline is built on.  *)
(*                                                                         *)
(* Every access that is not refused puts a line of the block it names in   *)
(* one place (Placed); the invariant is shown to survive that one step,    *)
(* whichever of the four kinds of access it is.                            *)
(***************************************************************************)
EXTENDS CachedMemory, CacheProofs

-----------------------------------------------------------------------------
(* The invariant *)

CallType ==
    /\ inflight \in BOOLEAN /\ inflight_addr \in Blocks \cup {0} /\ inflight_cycles \in 0 .. Delay
    /\ inflight => inflight_cycles > 0
    /\ dmem_status \in {"READY", "IN_FLIGHT"} /\ result \in Values

MemInv == mem \in [Blocks -> Data] /\ CacheInv /\ CleanLinesMatch

IInv == MemInv /\ CallType

LEMMA InitInv == Init => IInv
<1> SUFFICES ASSUME Init PROVE IInv
  OBVIOUS
<1>1. CacheInv /\ mem \in [Blocks -> Data]
  BY CreateCacheInv, DataAssumption DEF Init
<1>2. CallType
  <2>1. inflight_addr = 0 /\ inflight_cycles \in 0 .. Delay /\ inflight_cycles > 0
    BY DelayAssumption DEF Init, CreateCache
  <2> QED
    BY <2>1, DataAssumption DEF Init, CreateCache, CallType
<1>3. \A s \in Sets, w \in Ways : ~lines[s][w].valid
  BY DEF Init, CreateCache, EmptyLine
<1> QED
  BY <1>1, <1>2, <1>3 DEF IInv, MemInv, CleanLinesMatch

-----------------------------------------------------------------------------
(* Placing a line *)

\* The step settles b in line k of its set; if line k held another block, the
\* pages hold that block now.
Placed(b, k, line) ==
    /\ Settled(b, k, line)
    /\ mem' \in [Blocks -> Data]
    /\ \A c \in Blocks :
          mem'[c] = IF c # b /\ Index(c) = Index(b) /\ k \in Holding(c)
                    THEN lines[Index(b)][k].data ELSE mem[c]

LEMMA FoundHeld ==
    ASSUME MemInv, NEW b \in Blocks, NEW k \in Ways, NEW line, Found(b, k, line)
    PROVE  /\ k \in Holding(b)
           /\ Placed(b, k, line)
<1>1. Holding(b) \subseteq Ways /\ Holding(b) # {} /\ k = First(Holding(b))
  BY DEF Found, Hit, Holding
<1>2. k \in Holding(b)
  BY <1>1, FirstIn
<1>3. Index(b) \in Sets
  BY BlockParts
<1>4. \A w \in Ways \ {k} : w \notin Holding(b)
  BY <1>2, <1>3 DEF MemInv, CacheInv, NoDuplicates, Holding
<1>5. \A c \in Blocks : c # b /\ Index(c) = Index(b) => k \notin Holding(c)
  BY <1>2, SameBlock DEF Holding
<1>6. mem' = mem /\ mem \in [Blocks -> Data]
  BY DEF Found, MemInv
<1> QED
  BY <1>2, <1>4, <1>5, <1>6 DEF Found, Placed, Settled

LEMMA ServedPlaced ==
    ASSUME MemInv, NEW b \in Blocks, NEW k \in Ways, NEW line, Served(b, k, line)
    PROVE  Placed(b, k, line) /\ mem'[b] = mem[b]
<1> DEFINE s == Index(b)
           e == lines[s][k]
<1>1. s \in Sets /\ Holding(b) = {} /\ mem \in [Blocks -> Data] /\ e \in Line
  BY BlockParts DEF Served, Hit, MemInv, CacheInv, CacheType
<1>2. \A c \in Blocks : Index(c) = s /\ k \in Holding(c) <=>
                        Index(c) = s /\ e.valid /\ e.tag = Tag(c)
  BY DEF Holding
<1>3. CASE e.valid /\ e.dirty
  <2>1. PICK c \in Blocks : Index(c) = s /\ Tag(c) = e.tag
    BY <1>1, <1>3 DEF MemInv, CacheInv, Home
  <2>2. mem' = [mem EXCEPT ![c] = e.data]
    BY <1>3, <2>1, BlockParts DEF Served, WrittenBack
  <2>3. c # b
    BY <1>1, <1>2, <1>3, <2>1
  <2>4. \A d \in Blocks : Index(d) = s /\ k \in Holding(d) <=> d = c
    BY <1>2, <1>3, <2>1, SameBlock
  <2>5. e.data \in Data
    BY <1>1 DEF Line
  <2> QED
    BY <1>1, <2>2, <2>3, <2>4, <2>5 DEF Placed, Settled, Served
<1>4. CASE ~(e.valid /\ e.dirty)
  <2>1. mem' = mem
    BY <1>4 DEF Served, WrittenBack
  <2>2. \A c \in Blocks : Index(c) = s /\ k \in Holding(c) => mem[c] = e.data
    BY <1>1, <1>2, <1>4, BlockParts DEF MemInv, CleanLinesMatch
  <2> QED
    BY <1>1, <2>1, <2>2 DEF Placed, Settled, Served
<1> QED
  BY <1>3, <1>4

\* A step that places a line keeps the invariant of the memory.
LEMMA PlacedInv ==
    ASSUME MemInv, NEW b \in Blocks, NEW k \in Ways, NEW line \in Line,
           line.valid, line.tag = Tag(b), ~line.dirty => line.data = mem'[b],
           Placed(b, k, line)
    PROVE  MemInv'
<1> DEFINE s == Index(b)
<1>1. CacheInv' /\ mem' \in [Blocks -> Data]
  BY SettledInv DEF MemInv, Placed
<1>2. /\ s \in Sets /\ lines'[s][k] = line
      /\ \A r \in Sets, w \in Ways : r # s \/ w # k => lines'[r][w] = lines[r][w]
  BY BlockParts DEF Placed, Settled, MemInv, CacheInv, CacheType
<1>3. CleanLinesMatch'
  <2> SUFFICES ASSUME NEW r \in Sets, NEW w \in Ways,
                      lines'[r][w].valid, ~lines'[r][w].dirty
               PROVE  lines'[r][w].data = mem'[BlockOf(lines'[r][w].tag, r)]
    BY DEF CleanLinesMatch
  <2>1. CASE r = s /\ w = k
    BY <1>2, <2>1, BlockParts
  <2>2. CASE r # s \/ w # k
    <3>1. lines'[r][w] = lines[r][w]
      BY <1>2, <2>2
    <3>2. PICK c \in Blocks : Index(c) = r /\ Tag(c) = lines[r][w].tag
      BY <3>1 DEF MemInv, CacheInv, Home
    <3>3. BlockOf(lines[r][w].tag, r) = c
      BY <3>2, BlockParts
    <3>4. lines[r][w].data = mem[c]
      BY <3>1, <3>3 DEF MemInv, CleanLinesMatch
    <3>5. ~(Index(c) = s /\ k \in Holding(c))
      BY <2>2, <3>1, <3>2 DEF MemInv, CacheInv, NoDuplicates, Holding
    <3> QED
      BY <3>1, <3>3, <3>4, <3>5 DEF Placed
  <2> QED
    BY <2>1, <2>2
<1> QED
  BY <1>1, <1>3 DEF MemInv

-----------------------------------------------------------------------------
(* The accesses *)

\* What a read that finds its block, and one that is served, leave behind.
LEMMA ReadPlaced ==
    ASSUME MemInv, NEW b \in Blocks, NEW o \in Offsets, Read(b, o), ~Waiting(b)
    PROVE  \E k \in Ways, line \in Line :
              /\ line.valid /\ line.tag = Tag(b) /\ (~line.dirty => line.data = mem'[b])
              /\ Placed(b, k, line)
              /\ line.data = View[b] /\ result' = line.data[o] /\ dmem_status' = "READY"
<1>1. Index(b) \in Sets
  BY BlockParts
<1>2. ASSUME NEW k \in Ways, Found(b, k, lines[Index(b)][k]), dmem_status' = "READY",
             result' = lines[Index(b)][k].data[o]
      PROVE  \E j \in Ways, line \in Line :
                /\ line.valid /\ line.tag = Tag(b) /\ (~line.dirty => line.data = mem'[b])
                /\ Placed(b, j, line)
                /\ line.data = View[b] /\ result' = line.data[o] /\ dmem_status' = "READY"
  <2> DEFINE line == lines[Index(b)][k]
  <2>1. k \in Holding(b) /\ Placed(b, k, line) /\ k = First(Holding(b)) /\ Hit(b) /\ mem' = mem
    BY <1>2, FoundHeld DEF Found
  <2>2. line \in Line /\ line.valid /\ line.tag = Tag(b)
    BY <1>1, <2>1 DEF MemInv, CacheInv, CacheType, Holding
  <2>3. ~line.dirty => line.data = mem'[b]
    BY <1>1, <2>1, <2>2, BlockParts DEF MemInv, CleanLinesMatch
  <2>4. line.data = View[b]
    BY <2>1 DEF View
  <2> QED
    BY <1>2, <2>1, <2>2, <2>3, <2>4
<1>3. ASSUME NEW k \in Ways, Served(b, k, Filled(b, FALSE, mem[b])), dmem_status' = "READY",
             result' = mem[b][o]
      PROVE  \E j \in Ways, line \in Line :
                /\ line.valid /\ line.tag = Tag(b) /\ (~line.dirty => line.data = mem'[b])
                /\ Placed(b, j, line)
                /\ line.data = View[b] /\ result' = line.data[o] /\ dmem_status' = "READY"
  <2> DEFINE line == Filled(b, FALSE, mem[b])
  <2>1. Placed(b, k, line) /\ mem'[b] = mem[b]
    BY <1>3, ServedPlaced
  <2>2. line \in Line /\ line.valid /\ line.tag = Tag(b) /\ line.data = mem[b]
    BY DEF Filled, Line, MemInv, CacheInv, CacheType
  <2>3. mem[b] = View[b]
    BY <1>3 DEF View, Served
  <2> QED
    BY <1>3, <2>1, <2>2, <2>3
<1> QED
  BY <1>2, <1>3 DEF Read

\* The same for a write.
LEMMA WritePlaced ==
    ASSUME MemInv, NEW b \in Blocks, NEW o \in Offsets, NEW v \in Values,
           Write(b, o, v), ~Waiting(b)
    PROVE  \E k \in Ways, line \in Line :
              /\ line.valid /\ line.tag = Tag(b) /\ line.dirty
              /\ Placed(b, k, line)
              /\ line.data = [View[b] EXCEPT ![o] = v] /\ dmem_status' = "READY"
<1>1. Index(b) \in Sets
  BY BlockParts
<1>2. ASSUME NEW d \in Data
      PROVE  LET line == Filled(b, TRUE, [d EXCEPT ![o] = v])
             IN  /\ line \in Line /\ line.valid /\ line.tag = Tag(b) /\ line.dirty
                 /\ line.data = [d EXCEPT ![o] = v]
  BY DEF Filled, Line, Data
<1>3. ASSUME NEW k \in Ways,
             Found(b, k, Filled(b, TRUE, [lines[Index(b)][k].data EXCEPT ![o] = v])),
             dmem_status' = "READY"
      PROVE  \E j \in Ways, line \in Line :
                /\ line.valid /\ line.tag = Tag(b) /\ line.dirty
                /\ Placed(b, j, line)
                /\ line.data = [View[b] EXCEPT ![o] = v] /\ dmem_status' = "READY"
  <2> DEFINE line == Filled(b, TRUE, [lines[Index(b)][k].data EXCEPT ![o] = v])
  <2>1. Placed(b, k, line) /\ k = First(Holding(b)) /\ Hit(b)
    BY <1>3, FoundHeld DEF Found
  <2>2. lines[Index(b)][k].data = View[b]
    BY <2>1 DEF View
  <2>3. lines[Index(b)][k].data \in Data
    BY <1>1 DEF MemInv, CacheInv, CacheType, Line
  <2> HIDE DEF line
  <2> QED
    BY <1>2, <1>3, <2>1, <2>2, <2>3 DEF line
<1>4. ASSUME NEW k \in Ways, Served(b, k, Filled(b, TRUE, [mem[b] EXCEPT ![o] = v])),
             dmem_status' = "READY"
      PROVE  \E j \in Ways, line \in Line :
                /\ line.valid /\ line.tag = Tag(b) /\ line.dirty
                /\ Placed(b, j, line)
                /\ line.data = [View[b] EXCEPT ![o] = v] /\ dmem_status' = "READY"
  <2>1. Placed(b, k, Filled(b, TRUE, [mem[b] EXCEPT ![o] = v]))
    BY <1>4, ServedPlaced
  <2>2. mem[b] = View[b]
    BY <1>4 DEF View, Served
  <2>3. mem[b] \in Data
    BY DEF MemInv, CacheInv, CacheType
  <2> QED
    BY <1>2, <1>4, <2>1, <2>2, <2>3
<1> QED
  BY <1>3, <1>4 DEF Write

\* An access leaves a miss in flight only while it still has cycles to wait.
LEMMA AccessCall ==
    ASSUME IInv, NEW b \in Blocks, NEW o \in Offsets,
           Read(b, o) \/ \E v \in Values : Write(b, o, v)
    PROVE  CallType'
<1> USE DelayAssumption
<1>1. Remaining(b) \in Nat /\ Remaining(b) <= Delay - 1
  BY DEF IInv, CallType, Remaining
<1>2. /\ inflight' \in BOOLEAN /\ inflight_addr' \in Blocks \cup {0}
      /\ inflight_cycles' \in 0 .. Delay /\ (inflight' => inflight_cycles' > 0)
  <2>1. CASE Waiting(b)
    BY <1>1, <2>1 DEF Waiting
  <2>2. CASE UNCHANGED <<inflight, inflight_addr, inflight_cycles>>
    BY <2>2 DEF IInv, CallType
  <2>3. CASE inflight' = FALSE /\ inflight_addr' = b /\ inflight_cycles' = 0
    <3>1. inflight_cycles' \in 0 .. Delay
      BY <2>3
    <3>2. inflight' \in BOOLEAN /\ ~inflight' /\ inflight_addr' \in Blocks \cup {0}
      BY <2>3, Zenon
    <3> QED
      BY <3>1, <3>2
  <2> QED
    BY <2>1, <2>2, <2>3 DEF Read, Write, Found, Served
<1>3. dmem_status' \in {"READY", "IN_FLIGHT"}
  BY DEF Read, Write, Waiting
<1>4. result' \in Values
  <2>1. CASE \E v \in Values : Write(b, o, v)
    BY <2>1 DEF Write, IInv, CallType
  <2>2. CASE Read(b, o)
    <3>1. mem[b][o] \in Values /\ \A k \in Ways : lines[Index(b)][k].data[o] \in Values
      BY BlockParts DEF IInv, MemInv, CacheInv, CacheType, Line, Data
    <3> QED
      BY <2>2, <3>1, DataAssumption DEF Read
  <2> QED
    BY <2>1, <2>2
<1> QED
  BY <1>2, <1>3, <1>4 DEF CallType

LEMMA UnchangedMemInv ==
    ASSUME MemInv, UNCHANGED <<mem, lines, lru_matrix, next_lru, age>> PROVE MemInv'
<1>1. CacheInv'
  BY UnchangedCacheInv DEF MemInv
<1> QED
  BY <1>1 DEF MemInv, CleanLinesMatch

LEMMA WaitingInv == ASSUME MemInv, NEW b \in Blocks, Waiting(b) PROVE MemInv'
BY UnchangedMemInv DEF Waiting

LEMMA NextInv == IInv /\ [Next]_vars => IInv'
<1> SUFFICES ASSUME IInv, [Next]_vars PROVE IInv'
  OBVIOUS
<1>1. ASSUME NEW b \in Blocks, NEW o \in Offsets, Read(b, o) PROVE MemInv'
  <2>1. CASE Waiting(b)
    BY <2>1, WaitingInv DEF IInv
  <2>2. CASE ~Waiting(b)
    BY <1>1, <2>2, ReadPlaced, PlacedInv DEF IInv
  <2> QED
    BY <2>1, <2>2
<1>2. ASSUME NEW b \in Blocks, NEW o \in Offsets, NEW v \in Values, Write(b, o, v) PROVE MemInv'
  <2>1. CASE Waiting(b)
    BY <2>1, WaitingInv DEF IInv
  <2>2. CASE ~Waiting(b)
    <3>1. PICK k \in Ways, line \in Line :
             line.valid /\ line.tag = Tag(b) /\ line.dirty /\ Placed(b, k, line)
      BY <1>2, <2>2, WritePlaced DEF IInv
    <3> QED
      BY <3>1, PlacedInv DEF IInv
  <2> QED
    BY <2>1, <2>2
<1>3. CASE UNCHANGED vars
  BY <1>3, UnchangedMemInv DEF vars, IInv, CallType
<1> QED
  BY <1>1, <1>2, <1>3, AccessCall DEF Next, IInv

LEMMA Invariance == Spec => []IInv
<1> QED
  BY InitInv, NextInv, PTL DEF Spec

-----------------------------------------------------------------------------
(* The theorems *)

\* The state keeps its types whatever the shape of the cache.
THEOREM CachedMemoryTyped == Spec => []TypeOK
<1>1. IInv => TypeOK
  BY DEF IInv, MemInv, CacheInv, CacheType, CallType, TypeOK
<1> QED
  BY <1>1, Invariance, PTL

\* No two lines hold the same block: get_line and check_hit, which take the
\* first that matches, cannot disagree (cache.c:148-160, 226-289).
THEOREM NoBlockTwice == Spec => []NoDuplicates
<1>1. IInv => NoDuplicates
  BY DEF IInv, MemInv, CacheInv
<1> QED
  BY <1>1, Invariance, PTL

\* A line that is not dirty holds what the pages hold, so that evicting it
\* without writing it back loses nothing (cache.c:226-289).
THEOREM LinesAgree == Spec => []CleanLinesMatch
<1>1. IInv => CleanLinesMatch
  BY DEF IInv, MemInv, CacheInv
<1> QED
  BY <1>1, Invariance, PTL

\* For every associativity, the matrix of lru names the line that has gone
\* unused for longest (cache.c:166-220).
THEOREM MatrixIsLru == Spec => []VictimLeastRecent
<1>1. IInv => VictimLeastRecent
  BY VictimOldestOnly DEF IInv, MemInv, VictimLeastRecent
<1> QED
  BY <1>1, Invariance, PTL

-----------------------------------------------------------------------------
(* The refinement *)

\* What the caller sees of a block.
LEMMA ViewOf ==
    ASSUME MemInv, NEW c \in Blocks
    PROVE  /\ \A w \in Holding(c) : View[c] = lines[Index(c)][w].data
           /\ Holding(c) = {} => View[c] = mem[c]
<1>1. ASSUME NEW w \in Holding(c) PROVE View[c] = lines[Index(c)][w].data
  <2>1. \A v \in Holding(c) : v = w
    BY BlockParts DEF MemInv, CacheInv, NoDuplicates, Holding
  <2>2. First(Holding(c)) \in Holding(c)
    BY FirstIn DEF Holding
  <2> QED
    BY <2>1, <2>2 DEF View, Hit
<1> QED
  BY <1>1 DEF View, Hit

LEMMA ViewOfNext ==
    ASSUME MemInv', NEW c \in Blocks
    PROVE  /\ \A w \in Holding(c)' : View'[c] = lines'[Index(c)][w].data
           /\ Holding(c)' = {} => View'[c] = mem'[c]
<1>1. ASSUME NEW w \in Holding(c)' PROVE View'[c] = lines'[Index(c)][w].data
  <2>1. \A v \in Holding(c)' : v = w
    BY BlockParts DEF MemInv, CacheInv, NoDuplicates, Holding
  <2>2. First(Holding(c)') \in Holding(c)'
    BY FirstIn DEF Holding
  <2> QED
    BY <2>1, <2>2 DEF View, Hit, First
<1> QED
  BY <1>1 DEF View, Hit

\* A step that places a line of block b changes what the caller sees of b only.
LEMMA PlacedView ==
    ASSUME MemInv, MemInv', NEW b \in Blocks, NEW k \in Ways, NEW line \in Line,
           line.valid, line.tag = Tag(b), Placed(b, k, line)
    PROVE  View' = [View EXCEPT ![b] = line.data]
<1> DEFINE s == Index(b)
<1>1. /\ s \in Sets /\ lines'[s][k] = line
      /\ \A r \in Sets, w \in Ways : r # s \/ w # k => lines'[r][w] = lines[r][w]
  BY BlockParts DEF Placed, Settled, MemInv, CacheInv, CacheType
<1>2. View'[b] = line.data
  <2>1. k \in Holding(b)'
    BY <1>1 DEF Holding
  <2> QED
    BY <1>1, <2>1, ViewOfNext
<1>3. ASSUME NEW c \in Blocks, c # b PROVE View'[c] = View[c]
  <2>1. Index(c) \in Sets /\ (Index(c) = s => Tag(c) # Tag(b))
    BY <1>3, BlockParts, SameBlock
  <2>2. \A w \in Ways : w \in Holding(c)' <=> w \in Holding(c) /\ (Index(c) # s \/ w # k)
    BY <1>1, <2>1 DEF Holding
  <2>3. Holding(c)' \subseteq Ways /\ Holding(c) \subseteq Ways
    BY DEF Holding
  <2>4. CASE \E w \in Holding(c)' : TRUE
    <3>1. PICK w \in Holding(c)' : TRUE
      BY <2>4
    <3>2. w \in Holding(c) /\ lines'[Index(c)][w] = lines[Index(c)][w]
      BY <1>1, <2>1, <2>2, <2>3, <3>1
    <3> QED
      BY <3>1, <3>2, ViewOf, ViewOfNext
  <2>5. CASE Holding(c)' = {} /\ Holding(c) # {}
    <3>1. Index(c) = s /\ k \in Holding(c)
      BY <2>2, <2>3, <2>5
    <3>2. mem'[c] = lines[s][k].data
      BY <1>3, <3>1 DEF Placed
    <3> QED
      BY <2>5, <3>1, <3>2, ViewOf, ViewOfNext
  <2>6. CASE Holding(c)' = {} /\ Holding(c) = {}
    <3>1. mem'[c] = mem[c]
      BY <2>6 DEF Placed
    <3> QED
      BY <2>6, <3>1, ViewOf, ViewOfNext
  <2> QED
    BY <2>4, <2>5, <2>6
<1>4. View' = [c \in Blocks |-> View'[c]] /\ View = [c \in Blocks |-> View[c]]
  BY DEF View
<1> QED
  BY <1>2, <1>3, <1>4

LEMMA FlatInit == Init => Flat!Init
<1> SUFFICES ASSUME Init PROVE Flat!Init
  OBVIOUS
<1>1. \A b \in Blocks : ~Hit(b)
  BY BlockParts DEF Init, CreateCache, EmptyLine, Hit, Holding
<1>2. View = [b \in Blocks |-> mem[b]] /\ mem \in [Blocks -> Data]
  BY <1>1, DataAssumption DEF View, Init, CreateCache
<1>3. View \in [Blocks -> [Offsets -> Values]]
  BY <1>2 DEF Data
<1> QED
  BY <1>3 DEF Flat!Init, Init, CreateCache

LEMMA WaitingRefuses ==
    ASSUME NEW b \in Blocks, Waiting(b), result' \in {result, Zero} PROVE Flat!Refuse
<1>1. View' = View
  BY DEF Waiting, View, Hit, Holding
<1> QED
  BY <1>1 DEF Waiting, Flat!Refuse

LEMMA FlatNext == IInv /\ IInv' /\ [Next]_vars => [Flat!Next]_(Flat!vars)
<1> SUFFICES ASSUME IInv, IInv', [Next]_vars PROVE [Flat!Next]_(Flat!vars)
  OBVIOUS
<1>1. View = [c \in Blocks |-> View[c]]
  BY DEF View
<1>2. ASSUME NEW b \in Blocks, NEW o \in Offsets, Read(b, o) PROVE Flat!Next
  <2>1. CASE Waiting(b)
    <3>1. result' \in {result, Zero}
      BY <1>2, <2>1 DEF Read, Waiting, Found, Served
    <3> QED
      BY <2>1, <3>1, WaitingRefuses DEF Flat!Next
  <2>2. CASE ~Waiting(b)
    <3>1. PICK k \in Ways, line \in Line :
             /\ line.valid /\ line.tag = Tag(b) /\ Placed(b, k, line)
             /\ line.data = View[b] /\ result' = line.data[o] /\ dmem_status' = "READY"
      BY <1>2, <2>2, ReadPlaced DEF IInv
    <3>2. View' = [View EXCEPT ![b] = line.data]
      BY <3>1, PlacedView DEF IInv
    <3>3. View' = View
      BY <1>1, <3>1, <3>2
    <3>4. Flat!Read(b, o)
      BY <3>1, <3>3 DEF Flat!Read
    <3> QED
      BY <3>4 DEF Flat!Next
  <2> QED
    BY <2>1, <2>2
<1>3. ASSUME NEW b \in Blocks, NEW o \in Offsets, NEW v \in Values, Write(b, o, v)
      PROVE  Flat!Next
  <2>1. CASE Waiting(b)
    BY <1>3, <2>1, WaitingRefuses DEF Flat!Next, Write
  <2>2. CASE ~Waiting(b)
    <3>1. PICK k \in Ways, line \in Line :
             /\ line.valid /\ line.tag = Tag(b) /\ Placed(b, k, line)
             /\ line.data = [View[b] EXCEPT ![o] = v] /\ dmem_status' = "READY"
      BY <1>3, <2>2, WritePlaced DEF IInv
    <3>2. View' = [View EXCEPT ![b] = line.data]
      BY <3>1, PlacedView DEF IInv
    <3>3. result' = result
      BY <1>3 DEF Write
    <3>4. Flat!Write(b, o, v)
      BY <1>1, <3>1, <3>2, <3>3 DEF Flat!Write
    <3> QED
      BY <3>4 DEF Flat!Next
  <2> QED
    BY <2>1, <2>2
<1>4. CASE UNCHANGED vars
  BY <1>4 DEF vars, Flat!vars, View, Hit, Holding
<1> QED
  BY <1>2, <1>3, <1>4 DEF Next

\* For every shape of the cache and every delay: fills, evictions and writebacks
\* never lose, invent or move a word (mem.c:178-296, cache.c:148-312).
THEOREM CacheIsTransparent == Spec => ImplementsFlatMemory
<1> QED
  BY FlatInit, FlatNext, Invariance, PTL
  DEF Spec, ImplementsFlatMemory, Flat!Spec
-----------------------------------------------------------------------------
(* The memory that the pipeline takes it to be *)

\* Placing a line of b brings in b and pushes out at most what was in its place.
LEMMA PlacedPresent ==
    ASSUME MemInv, NEW b \in Blocks, NEW k \in Ways, NEW line,
           line.valid, line.tag = Tag(b), Placed(b, k, line)
    PROVE  /\ k \in Holding(b) => Present' = Present
           /\ Present' \in Delayed!Filled(Present, b)
<1> DEFINE s == Index(b)
           Pushed(c) == c # b /\ Index(c) = s /\ k \in Holding(c)
<1>1. /\ s \in Sets /\ lines'[s][k] = line
      /\ \A r \in Sets, w \in Ways : r # s \/ w # k => lines'[r][w] = lines[r][w]
  BY BlockParts DEF Placed, Settled, MemInv, CacheInv, CacheType
<1>2. Hit(b)'
  BY <1>1 DEF Hit, Holding
<1>3. ASSUME NEW c \in Blocks, c # b PROVE Hit(c)' <=> Hit(c) /\ ~Pushed(c)
  <2>1. Index(c) \in Sets /\ (Index(c) = s => Tag(c) # Tag(b))
    BY <1>3, BlockParts, SameBlock
  <2>2. \A w \in Ways : w \in Holding(c)' <=> w \in Holding(c) /\ (Index(c) # s \/ w # k)
    BY <1>1, <2>1 DEF Holding
  <2>3. Holding(c)' \subseteq Ways /\ Holding(c) \subseteq Ways
    BY DEF Holding
  <2>4. \A v, w \in Holding(c) : v = w
    BY <2>1 DEF MemInv, CacheInv, NoDuplicates, Holding
  <2> QED
    BY <1>3, <2>2, <2>3, <2>4 DEF Hit
<1>4. Present' = {c \in Blocks : c = b \/ (Hit(c) /\ ~Pushed(c))}
  BY <1>2, <1>3 DEF Present
<1>5. \A c, d \in Blocks : Pushed(c) /\ Pushed(d) => c = d
  BY SameBlock DEF Holding
<1>6. \A c \in Blocks : Pushed(c) => Hit(c)
  BY DEF Hit
<1>7. ASSUME k \in Holding(b) PROVE Present' = Present
  <2>1. \A c \in Blocks : ~Pushed(c)
    BY <1>7, SameBlock DEF Holding
  <2>2. Hit(b)
    BY <1>7 DEF Hit
  <2> QED
    BY <1>4, <2>1, <2>2 DEF Present
<1>8. Present' \in Delayed!Filled(Present, b)
  <2>1. CASE \E c \in Blocks : Pushed(c)
    <3>1. PICK c \in Blocks : Pushed(c)
      BY <2>1
    <3>2. Present' = (Present \ {c}) \cup {b} /\ c \in Present
      BY <1>4, <1>5, <1>6, <3>1 DEF Present
    <3> QED
      BY <3>2 DEF Delayed!Filled
  <2>2. CASE ~\E c \in Blocks : Pushed(c)
    <3>1. Present' = Present \cup {b}
      BY <1>4, <2>2 DEF Present
    <3> QED
      BY <3>1 DEF Delayed!Filled
  <2> QED
    BY <2>1, <2>2
<1> QED
  BY <1>7, <1>8


LEMMA FoundTouches ==
    ASSUME MemInv, NEW b \in Blocks, NEW k \in Ways, NEW line, line.valid, line.tag = Tag(b),
           Found(b, k, line), dmem_status' = "READY"
    PROVE  Miss' \in Delayed!Touched(b)
<1>1. Present' = Present /\ b \in Present
  BY FoundHeld, PlacedPresent DEF Present, Found
<1>2. Miss' = [Miss EXCEPT !.status = "READY"]
  BY <1>1 DEF Miss, Found
<1> QED
  BY <1>1, <1>2 DEF Miss, Delayed!Touched

LEMMA ServedTouches ==
    ASSUME MemInv, NEW b \in Blocks, NEW k \in Ways, NEW line, line.valid, line.tag = Tag(b),
           Served(b, k, line), dmem_status' = "READY"
    PROVE  Miss' \in Delayed!Touched(b)
<1>1. Present' \in Delayed!Filled(Present, b) /\ b \notin Present
  BY ServedPlaced, PlacedPresent DEF Present, Served
<1>2. Remaining(b) = 0 /\ inflight' = FALSE /\ inflight_addr' = b /\ inflight_cycles' = 0
  BY DEF Served
<1>3. Miss' = [status |-> "READY", inflight |-> FALSE, addr |-> b, cycles |-> 0,
               lines |-> Present']
  BY <1>2 DEF Miss
<1> QED
  BY <1>1, <1>2, <1>3 DEF Miss, Delayed!Touched, Remaining

LEMMA WaitingTouches ==
    ASSUME NEW b \in Blocks, Waiting(b) PROVE Miss' \in Delayed!Touched(b)
<1>1. Present' = Present /\ b \notin Present
  BY DEF Waiting, Present, Hit, Holding
<1>2. Miss' = [status |-> "IN_FLIGHT", inflight |-> TRUE, addr |-> b,
               cycles |-> Remaining(b), lines |-> Present]
  BY <1>1 DEF Miss, Waiting
<1> QED
  BY <1>1, <1>2 DEF Miss, Delayed!Touched, Waiting, Remaining

LEMMA ReadTouches ==
    ASSUME MemInv, NEW b \in Blocks, NEW o \in Offsets, Read(b, o)
    PROVE  Miss' \in Delayed!Touched(b)
<1>1. ASSUME NEW k \in Ways, Found(b, k, lines[Index(b)][k]), dmem_status' = "READY"
      PROVE  Miss' \in Delayed!Touched(b)
  BY <1>1, FoundHeld, FoundTouches DEF Holding
<1>2. ASSUME NEW k \in Ways, Served(b, k, Filled(b, FALSE, mem[b])), dmem_status' = "READY"
      PROVE  Miss' \in Delayed!Touched(b)
  BY <1>2, ServedTouches DEF Filled
<1> QED
  BY <1>1, <1>2, WaitingTouches DEF Read

LEMMA WriteTouches ==
    ASSUME MemInv, NEW b \in Blocks, NEW o \in Offsets, NEW v \in Values, Write(b, o, v)
    PROVE  Miss' \in Delayed!Touched(b)
<1>1. ASSUME NEW k \in Ways, NEW d, Found(b, k, Filled(b, TRUE, d)), dmem_status' = "READY"
      PROVE  Miss' \in Delayed!Touched(b)
  BY <1>1, FoundTouches DEF Filled
<1>2. ASSUME NEW k \in Ways, NEW d, Served(b, k, Filled(b, TRUE, d)), dmem_status' = "READY"
      PROVE  Miss' \in Delayed!Touched(b)
  BY <1>2, ServedTouches DEF Filled
<1> QED
  BY <1>1, <1>2, WaitingTouches DEF Write

LEMMA DelayedInit == Init => Delayed!Init
<1> SUFFICES ASSUME Init PROVE Delayed!Init
  OBVIOUS
<1>1. Flat!Init
  BY FlatInit
<1>2. \A b \in Blocks : ~Hit(b)
  BY BlockParts DEF Init, CreateCache, EmptyLine, Hit, Holding
<1>3. Miss = Delayed!NoMiss
  BY <1>2 DEF Miss, Present, Init, Delayed!NoMiss
<1> QED
  BY <1>1, <1>3 DEF Delayed!Init, Flat!Init

LEMMA DelayedNext == IInv /\ IInv' /\ [Next]_vars => [Delayed!Next]_(Delayed!vars)
<1> SUFFICES ASSUME IInv, IInv', [Next]_vars PROVE [Delayed!Next]_(Delayed!vars)
  OBVIOUS
<1>1. Miss'.status = dmem_status' /\ View = [c \in Blocks |-> View[c]]
  BY DEF Miss, View
<1>2. ASSUME NEW b \in Blocks, NEW o \in Offsets, Read(b, o) PROVE Delayed!Next
  <2>1. Miss' \in Delayed!Touched(b)
    BY <1>2, ReadTouches DEF IInv
  <2>2. CASE Waiting(b)
    <3>1. View' = View
      BY <2>2 DEF Waiting, View, Hit, Holding
    <3>2. result' = Zero /\ dmem_status' = "IN_FLIGHT"
      BY <1>2, <2>2 DEF Read, Waiting, Found, Served
    <3> QED
      BY <1>1, <2>1, <3>1, <3>2 DEF Delayed!Next, Delayed!Read, Delayed!Done
  <2>3. CASE ~Waiting(b)
    <3>1. PICK k \in Ways, line \in Line :
             /\ line.valid /\ line.tag = Tag(b) /\ Placed(b, k, line)
             /\ line.data = View[b] /\ result' = line.data[o] /\ dmem_status' = "READY"
      BY <1>2, <2>3, ReadPlaced DEF IInv
    <3>2. View' = View
      BY <1>1, <3>1, PlacedView DEF IInv
    <3> QED
      BY <1>1, <2>1, <3>1, <3>2 DEF Delayed!Next, Delayed!Read, Delayed!Done
  <2> QED
    BY <2>2, <2>3
<1>3. ASSUME NEW b \in Blocks, NEW o \in Offsets, NEW v \in Values, Write(b, o, v)
      PROVE  Delayed!Next
  <2>1. Miss' \in Delayed!Touched(b) /\ result' = result
    BY <1>3, WriteTouches DEF IInv, Write
  <2>2. CASE Waiting(b)
    <3>1. View' = View /\ dmem_status' = "IN_FLIGHT"
      BY <2>2 DEF Waiting, View, Hit, Holding
    <3> QED
      BY <1>1, <2>1, <3>1 DEF Delayed!Next, Delayed!Write, Delayed!Done
  <2>3. CASE ~Waiting(b)
    <3>1. PICK k \in Ways, line \in Line :
             /\ line.valid /\ line.tag = Tag(b) /\ Placed(b, k, line)
             /\ line.data = [View[b] EXCEPT ![o] = v] /\ dmem_status' = "READY"
      BY <1>3, <2>3, WritePlaced DEF IInv
    <3>2. View' = [View EXCEPT ![b] = line.data]
      BY <3>1, PlacedView DEF IInv
    <3> QED
      BY <1>1, <2>1, <3>1, <3>2 DEF Delayed!Next, Delayed!Write, Delayed!Done
  <2> QED
    BY <2>2, <2>3
<1>4. CASE UNCHANGED vars
  BY <1>4 DEF vars, Delayed!vars, View, Miss, Present, Hit, Holding
<1> QED
  BY <1>2, <1>3, <1>4 DEF Next

\* For every shape of the cache and every delay: memory behind real lines, their
\* replacement and their writebacks is of the kind Pipeline is built on, an
\* array whose accesses MissDelay holds up (mem.c:178-309, cache.c:148-312).
THEOREM CacheMeetsPipeline == Spec => ImplementsDelayedMemory
<1> QED
  BY DelayedInit, DelayedNext, Invariance, PTL
  DEF Spec, ImplementsDelayedMemory, Delayed!Spec
=============================================================================
