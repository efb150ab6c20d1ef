------------------------------ MODULE PageTable ------------------------------
(***************************************************************************)
(* ptable.c and the byte accesses of mem.c: the guest's pages, which are   *)
(* kept in chains by hash and added when they are touched.                 *)
(*                                                                         *)
(* Several clients may access memory: the loader and then the cycle loop   *)
(* make one, the PARALLEL build's stage threads Fetch and Memory make two, *)
(* and nothing here is locked.  An access is one byte: those of more bytes *)
(* repeat it (_mem_read_LE, _mem_write_LE).                                *)
(*                                                                         *)
(* A chain only ever grows at its head and a page keeps its successor, so  *)
(* the head that add_page copies stands for the chain behind it: a chain   *)
(* is a sequence of pages, and a page is its place in `heap', the order    *)
(* of allocation.  p_prot is stored and never read; it is left out.        *)
(***************************************************************************)
EXTENDS Integers, Sequences

CONSTANTS
    Pages, Offsets,     \* page numbers, and offsets in a page
    Values, Zero,       \* bytes
    Buckets, Hash,      \* ptable_hash, of every page number
    Clients, May,       \* who accesses memory, and what each may ask for
    PageMax             \* bound: pages allocated

\* What a client asks for: to read, to write, or only that the page is there.
Request == [op : {"read", "write", "map"}, num : Pages, off : Offsets, val : Values]

ASSUME HashAssumption == Hash \in [Pages -> Buckets]
ASSUME ByteAssumption == Zero \in Values
ASSUME RequestAssumption == May \in [Clients -> SUBSET Request]

VARIABLES
    heap,               \* the pages allocated
    ptable,             \* bucket -> chain
    at,                 \* client -> where it is in an access
    result              \* the byte last read
pages == <<heap, ptable, at, result>>

Null == 0
Idle == [pc |-> "idle"]
Blank == [o \in Offsets |-> Zero]

NoPages ==
    /\ heap = <<>> /\ ptable = [b \in Buckets |-> <<>>]
    /\ at = [c \in Clients |-> Idle] /\ result = Zero

-----------------------------------------------------------------------------
\* get_page: the first page of the chain with that number.
Matches(p) == {i \in DOMAIN ptable[Hash[p]] : heap[ptable[Hash[p]][i]].num = p}
First(I) == CHOOSE i \in I : \A k \in I : i <= k
Lookup(p) == IF Matches(p) = {} THEN Null ELSE ptable[Hash[p]][First(Matches(p))]

Call(c, request) ==
    /\ at[c] = Idle
    /\ at' = [at EXCEPT ![c] = [pc |-> "find", request |-> request]]
    /\ UNCHANGED <<heap, ptable, result>>

\* Mutant of Found: a page that is written is always a new one.
FoundRead(request) == IF request.op = "write" THEN Null ELSE Lookup(request.num)

\* The page that the test for NULL in an access is made on.
Found(request) == Lookup(request.num)

Find(c) ==
    /\ at[c].pc = "find"
    /\ LET r == at[c].request
       IN at' = [at EXCEPT ![c] = IF Found(r) = Null THEN [pc |-> "add", request |-> r]
                                  ELSE [pc |-> "use", request |-> r, page |-> Found(r)]]
    /\ UNCHANGED <<heap, ptable, result>>

\* add_page: a blank page, and the head of its chain is copied.
Link(c) ==
    /\ at[c].pc = "add" /\ Len(heap) < PageMax
    /\ LET r == at[c].request
       IN /\ heap' = Append(heap, [num |-> r.num, data |-> Blank])
          /\ at' = [at EXCEPT ![c] = [pc |-> "publish", request |-> r, page |-> Len(heap) + 1,
                                      next |-> ptable[Hash[r.num]]]]
    /\ UNCHANGED <<ptable, result>>

\* Mutant of Chained: the page takes the place of the chain's head.
ChainedOver(page, next) == <<page>> \o (IF next = <<>> THEN next ELSE Tail(next))
Chained(page, next) == <<page>> \o next

\* The page becomes the head of its chain.
Publish(c) ==
    /\ at[c].pc = "publish"
    /\ LET r == at[c].request
       IN /\ ptable' = [ptable EXCEPT ![Hash[r.num]] = Chained(at[c].page, at[c].next)]
          /\ at' = [at EXCEPT ![c] = [pc |-> "use", request |-> r, page |-> at[c].page]]
    /\ UNCHANGED <<heap, result>>

\* The byte is read or written through the pointer.
Use(c) ==
    /\ at[c].pc = "use"
    /\ LET r == at[c].request
           g == at[c].page
       IN /\ heap' = IF r.op = "write"
                     THEN [heap EXCEPT ![g].data = [heap[g].data EXCEPT ![r.off] = r.val]]
                     ELSE heap
          /\ result' = IF r.op = "read" THEN heap[g].data[r.off] ELSE result
    /\ at' = [at EXCEPT ![c] = Idle]
    /\ UNCHANGED ptable

AccessStep(c) == Find(c) \/ Link(c) \/ Publish(c) \/ Use(c)

Next == \E c \in Clients : AccessStep(c) \/ \E request \in May[c] : Call(c, request)
Spec == NoPages /\ [][Next]_pages

-----------------------------------------------------------------------------
\* What memory holds: a page that nobody has touched is blank.
Contents == [p \in Pages |-> IF Lookup(p) = Null THEN Blank ELSE heap[Lookup(p)].data]

Flat == INSTANCE FlatMemory WITH Blocks <- Pages, cells <- Contents, ready <- TRUE

\* "the illusion of a 64-bit address [space]" (ptable.c:8): the pages behave
\* as one array of bytes, zero at first, that changes only where it is written.
PagesAreFlat == Flat!Spec

\* "In particular, there is no page replacement" (ptable.c:10): a page that
\* get_page has once returned for an address is what it returns ever after.
NoReplacement ==
    [][\A p \in Pages : Lookup(p) # Null => Lookup(p)' = Lookup(p)]_pages
=============================================================================
