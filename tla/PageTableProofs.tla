--------------------------- MODULE PageTableProofs ---------------------------
(***************************************************************************)
(* Proofs about PageTable, for every page, hash and byte, when one client  *)
(* accesses memory: the builds that run the stages one after another, and  *)
(* the loader in all of them.  (With two clients the run page_race shows   *)
(* the first theorem, PagesStay, to fail.)                                 *)
(***************************************************************************)
EXTENDS PageTable, TLAPS

Page == [num : Pages, data : [Offsets -> Values]]

PageType ==
    /\ heap \in Seq(Page) /\ result \in Values
    /\ ptable \in [Buckets -> Seq(Nat)]
    /\ \A b \in Buckets : \A i \in DOMAIN ptable[b] : ptable[b][i] \in 1 .. Len(heap)

\* A chain has one page of a number at most.
OnePage == \A p \in Pages : \A i, k \in Matches(p) : i = k

\* What client c knows where it is in an access.
Finding(c) == \E r \in Request : at[c] = [pc |-> "find", request |-> r]
Adding(c) ==
    \E r \in Request : at[c] = [pc |-> "add", request |-> r] /\ Lookup(r.num) = Null
Publishing(c) ==
    \E r \in Request, g \in 1 .. Len(heap) :
        /\ at[c] = [pc |-> "publish", request |-> r, page |-> g, next |-> ptable[Hash[r.num]]]
        /\ Lookup(r.num) = Null /\ heap[g] = [num |-> r.num, data |-> Blank]
Using(c) ==
    \E r \in Request, g \in 1 .. Len(heap) :
        at[c] = [pc |-> "use", request |-> r, page |-> g] /\ Lookup(r.num) = g
Knows(c) ==
    \/ at[c] = Idle
    \/ Finding(c) \/ Adding(c) \/ Publishing(c) \/ Using(c)

PInv(c) == PageType /\ OnePage /\ at \in [{c} -> {at[c]}] /\ Knows(c)

-----------------------------------------------------------------------------
(* Looking a page up *)

LEMMA FirstOne == ASSUME NEW i \in Nat PROVE First({i}) = i
BY DEF First

LEMMA LookupIs ==
    ASSUME PageType, OnePage, NEW p \in Pages
    PROVE  /\ \A i \in Matches(p) : Lookup(p) = ptable[Hash[p]][i]
           /\ Matches(p) = {} => Lookup(p) = Null
           /\ Matches(p) # {} => /\ Lookup(p) \in 1 .. Len(heap)
                                 /\ heap[Lookup(p)] \in Page /\ heap[Lookup(p)].num = p
           /\ Lookup(p) # Null <=> Matches(p) # {}
<1>1. Hash[p] \in Buckets
  BY HashAssumption
<1>2. Matches(p) \subseteq DOMAIN ptable[Hash[p]] /\ \A i \in Matches(p) : i \in Nat
  BY <1>1 DEF Matches, PageType
<1>3. ASSUME NEW i \in Matches(p) PROVE Lookup(p) = ptable[Hash[p]][i]
  <2>1. Matches(p) = {i}
    BY DEF OnePage
  <2>2. First(Matches(p)) = i
    BY <1>2, <2>1, FirstOne
  <2> QED
    BY <2>2 DEF Lookup
<1>4. Matches(p) = {} => Lookup(p) = Null
  BY DEF Lookup
<1>5. ASSUME NEW i \in Matches(p)
      PROVE  /\ Lookup(p) \in 1 .. Len(heap) /\ heap[Lookup(p)] \in Page /\ heap[Lookup(p)].num = p
  <2>1. ptable[Hash[p]][i] \in 1 .. Len(heap) /\ heap[ptable[Hash[p]][i]].num = p
    BY <1>1, <1>2 DEF PageType, Matches
  <2>2. \A g \in 1 .. Len(heap) : heap[g] \in Page
    BY DEF PageType
  <2> QED
    BY <1>3, <2>1, <2>2
<1> QED
  BY <1>3, <1>4, <1>5 DEF Null

\* A step that keeps the chains and the numbers of the pages keeps every look-up.
LEMMA SameLookup ==
    ASSUME PageType, ptable' = ptable, heap' \in Seq(Page), Len(heap') >= Len(heap),
           \A g \in 1 .. Len(heap) : heap'[g].num = heap[g].num
    PROVE  /\ \A p \in Pages : Matches(p)' = Matches(p) /\ Lookup(p)' = Lookup(p)
           /\ \A b \in Buckets : \A i \in DOMAIN ptable'[b] : ptable'[b][i] \in 1 .. Len(heap')
<1>1. ASSUME NEW p \in Pages PROVE Matches(p)' = Matches(p)
  <2>1. \A i \in DOMAIN ptable[Hash[p]] : ptable[Hash[p]][i] \in 1 .. Len(heap)
    BY HashAssumption DEF PageType
  <2> QED
    BY <2>1 DEF Matches
<1>2. ASSUME NEW p \in Pages PROVE Lookup(p)' = Lookup(p)
  BY <1>1 DEF Lookup
<1>3. Len(heap) \in Nat /\ Len(heap') \in Nat
  BY DEF PageType
<1> QED
  BY <1>1, <1>2, <1>3 DEF PageType

-----------------------------------------------------------------------------
(* The steps of an access *)

LEMMA WhereAt ==
    ASSUME NEW c, Knows(c)
    PROVE  /\ at[c].pc = "find" => Finding(c)
           /\ at[c].pc = "add" => Adding(c)
           /\ at[c].pc = "publish" => Publishing(c)
           /\ at[c].pc = "use" => Using(c)
<1>1. at[c] = Idle => at[c].pc = "idle"
  BY DEF Idle
<1>2. Finding(c) => at[c].pc = "find"
  BY DEF Finding
<1>3. Adding(c) => at[c].pc = "add"
  BY DEF Adding
<1>4. Publishing(c) => at[c].pc = "publish"
  BY DEF Publishing
<1>5. Using(c) => at[c].pc = "use"
  BY DEF Using
<1> QED
  BY <1>1, <1>2, <1>3, <1>4, <1>5 DEF Knows

LEMMA NoPagesInv == ASSUME NEW c, Clients = {c}, NoPages PROVE PInv(c)
<1>1. PageType
  BY ByteAssumption DEF NoPages, PageType
<1>2. OnePage
  BY HashAssumption DEF NoPages, OnePage, Matches
<1>3. at \in [{c} -> {at[c]}] /\ at[c] = Idle
  BY DEF NoPages
<1> QED
  BY <1>1, <1>2, <1>3 DEF PInv, Knows

\* Call and Find leave the pages alone.
LEMMA QuietInv ==
    ASSUME NEW c, PInv(c), UNCHANGED <<heap, ptable, result>>
    PROVE  PageType' /\ OnePage' /\ Contents' = Contents
           /\ \A p \in Pages : Lookup(p)' = Lookup(p)
<1>1. \A p \in Pages : Matches(p)' = Matches(p) /\ Lookup(p)' = Lookup(p)
  BY DEF Matches, Lookup
<1>2. OnePage'
  BY <1>1 DEF PInv, OnePage
<1>3. Contents' = Contents
  BY <1>1 DEF Contents
<1> QED
  BY <1>1, <1>2, <1>3 DEF PInv, PageType

LEMMA CallInv ==
    ASSUME NEW c, PInv(c), NEW r \in Request, Call(c, r)
    PROVE  PInv(c)' /\ UNCHANGED <<Contents, result>> /\ \A p \in Pages : Lookup(p)' = Lookup(p)
<1>1. PageType' /\ OnePage' /\ Contents' = Contents /\ result' = result
      /\ \A p \in Pages : Lookup(p)' = Lookup(p)
  BY QuietInv DEF Call
<1>2. at'[c] = [pc |-> "find", request |-> r] /\ at' \in [{c} -> {at'[c]}]
  BY DEF Call, PInv
<1> QED
  BY <1>1, <1>2 DEF PInv, Knows, Finding

LEMMA FindInv ==
    ASSUME NEW c, PInv(c), Find(c)
    PROVE  PInv(c)' /\ UNCHANGED <<Contents, result>> /\ \A p \in Pages : Lookup(p)' = Lookup(p)
<1>1. PageType' /\ OnePage' /\ Contents' = Contents /\ result' = result
      /\ \A p \in Pages : Lookup(p)' = Lookup(p)
  BY QuietInv DEF Find
<1>2. PICK r \in Request : at[c] = [pc |-> "find", request |-> r]
  BY WhereAt DEF Find, PInv, Finding
<1>3. r.num \in Pages
  BY DEF Request
<1>4. CASE Lookup(r.num) = Null
  <2>1. at'[c] = [pc |-> "add", request |-> r] /\ at' \in [{c} -> {at'[c]}]
    BY <1>2, <1>4 DEF Find, Found, PInv
  <2> QED
    BY <1>1, <1>3, <1>4, <2>1 DEF PInv, Knows, Adding
<1>5. CASE Lookup(r.num) # Null
  <2>1. /\ at'[c] = [pc |-> "use", request |-> r, page |-> Lookup(r.num)]
        /\ at' \in [{c} -> {at'[c]}]
    BY <1>2, <1>5 DEF Find, Found, PInv
  <2>2. Lookup(r.num) \in 1 .. Len(heap)
    BY <1>3, <1>5, LookupIs DEF PInv
  <2>3. heap' = heap
    BY DEF Find
  <2> QED
    BY <1>1, <1>3, <2>1, <2>2, <2>3 DEF PInv, Knows, Using
<1> QED
  BY <1>4, <1>5

LEMMA LinkInv ==
    ASSUME NEW c, PInv(c), Link(c)
    PROVE  PInv(c)' /\ UNCHANGED <<Contents, result>> /\ \A p \in Pages : Lookup(p)' = Lookup(p)
<1>1. PICK r \in Request : at[c] = [pc |-> "add", request |-> r] /\ Lookup(r.num) = Null
  BY WhereAt DEF Link, PInv, Adding
<1>2. r.num \in Pages
  BY DEF Request
<1> DEFINE new == [num |-> r.num, data |-> Blank]
<1>3. /\ heap' = Append(heap, new) /\ ptable' = ptable /\ result' = result
      /\ at'[c] = [pc |-> "publish", request |-> r, page |-> Len(heap) + 1,
                   next |-> ptable[Hash[r.num]]]
      /\ at' \in [{c} -> {at'[c]}]
  BY <1>1 DEF Link, PInv
<1>4. new \in Page
  BY <1>2, ByteAssumption DEF Page, Blank
<1>5. /\ heap \in Seq(Page) /\ heap' \in Seq(Page) /\ Len(heap) \in Nat
      /\ Len(heap') = Len(heap) + 1 /\ heap'[Len(heap) + 1] = new
      /\ \A g \in 1 .. Len(heap) : heap'[g] = heap[g]
  <2> HIDE DEF new
  <2> QED
    BY <1>3, <1>4 DEF PInv, PageType
<1>6. /\ \A p \in Pages : Matches(p)' = Matches(p) /\ Lookup(p)' = Lookup(p)
      /\ \A b \in Buckets : \A i \in DOMAIN ptable'[b] : ptable'[b][i] \in 1 .. Len(heap')
  BY <1>3, <1>5, SameLookup DEF PInv
<1>7. PageType' /\ OnePage'
  BY <1>3, <1>5, <1>6 DEF PInv, PageType, OnePage
<1>8. Contents' = Contents
  <2>1. ASSUME NEW p \in Pages, Lookup(p) # Null PROVE heap'[Lookup(p)] = heap[Lookup(p)]
    BY <1>5, <2>1, LookupIs DEF PInv
  <2> QED
    BY <1>6, <2>1 DEF Contents
<1>9. Knows(c)'
  <2>1. Len(heap) + 1 \in 1 .. Len(heap')
    BY <1>5
  <2>2. Lookup(r.num)' = Null /\ ptable'[Hash[r.num]] = ptable[Hash[r.num]]
    BY <1>1, <1>2, <1>3, <1>6
  <2> QED
    BY <1>3, <1>5, <2>1, <2>2 DEF Knows, Publishing
<1> QED
  BY <1>3, <1>6, <1>7, <1>8, <1>9 DEF PInv

\* The page is found from now on, and no other look-up changes.
LEMMA PublishInv ==
    ASSUME NEW c, PInv(c), Publish(c)
    PROVE  /\ PInv(c)' /\ UNCHANGED <<Contents, result>>
           /\ \A p \in Pages : Lookup(p) # Null => Lookup(p)' = Lookup(p)
<1>1. PICK r \in Request, g \in 1 .. Len(heap) :
         /\ at[c] = [pc |-> "publish", request |-> r, page |-> g, next |-> ptable[Hash[r.num]]]
         /\ Lookup(r.num) = Null /\ heap[g] = [num |-> r.num, data |-> Blank]
  BY WhereAt DEF Publish, PInv, Publishing
<1> DEFINE n == r.num
           b == Hash[n]
           s == ptable[b]
<1>2. n \in Pages /\ b \in Buckets
  BY HashAssumption DEF Request
<1>3. /\ s \in Seq(Nat) /\ Len(s) \in Nat /\ DOMAIN s = 1 .. Len(s)
      /\ Len(heap) \in Nat /\ g \in Nat
      /\ ptable \in [Buckets -> Seq(Nat)]
  BY <1>2 DEF PInv, PageType
<1>4. /\ ptable' = [ptable EXCEPT ![b] = <<g>> \o s] /\ heap' = heap /\ result' = result
      /\ at'[c] = [pc |-> "use", request |-> r, page |-> g] /\ at' \in [{c} -> {at'[c]}]
  BY <1>1 DEF Publish, PInv, Chained
<1>5. /\ ptable' \in [Buckets -> Seq(Nat)] /\ ptable'[b] = <<g>> \o s
      /\ \A x \in Buckets \ {b} : ptable'[x] = ptable[x]
      /\ DOMAIN ptable'[b] = 1 .. Len(s) + 1
      /\ ptable'[b][1] = g /\ \A i \in 1 .. Len(s) : ptable'[b][i + 1] = s[i]
  <2>1. /\ <<g>> \o s \in Seq(Nat) /\ DOMAIN (<<g>> \o s) = 1 .. Len(s) + 1
        /\ (<<g>> \o s)[1] = g /\ \A i \in 1 .. Len(s) : (<<g>> \o s)[i + 1] = s[i]
    BY <1>3
  <2> HIDE DEF s
  <2> QED
    BY <1>2, <1>3, <1>4, <2>1
<1> HIDE DEF s
<1>6. \A p \in Pages : Hash[p] # b => Matches(p)' = Matches(p)
  BY <1>4, <1>5, HashAssumption DEF Matches
<1>7. ASSUME NEW p \in Pages, Hash[p] = b, p # n
      PROVE  Matches(p)' = {i + 1 : i \in Matches(p)}
  <2>1. ASSUME NEW k \in Matches(p)' PROVE k \in {i + 1 : i \in Matches(p)}
    <3>1. k \in 1 .. Len(s) + 1 /\ heap[ptable'[b][k]].num = p
      BY <1>4, <1>5, <1>7 DEF Matches
    <3>2. k # 1
      BY <1>1, <1>5, <1>7, <3>1
    <3>3. k - 1 \in 1 .. Len(s) /\ (k - 1) + 1 = k
      BY <1>3, <3>1, <3>2
    <3>4. s[k - 1] = ptable'[b][k]
      BY <1>5, <3>3
    <3>5. k - 1 \in Matches(p)
      BY <1>3, <1>7, <3>1, <3>3, <3>4 DEF Matches, s
    <3> QED
      BY <3>3, <3>5
  <2>2. ASSUME NEW i \in Matches(p) PROVE i + 1 \in Matches(p)'
    <3>1. i \in 1 .. Len(s) /\ heap[s[i]].num = p
      BY <1>3, <1>7 DEF Matches, s
    <3>2. i + 1 \in 1 .. Len(s) + 1 /\ ptable'[b][i + 1] = s[i]
      BY <1>3, <1>5, <3>1
    <3> QED
      BY <1>4, <1>5, <1>7, <3>1, <3>2 DEF Matches
  <2> QED
    BY <2>1, <2>2
<1>8. Matches(n)' = {1}
  <2>1. Matches(n) = {}
    BY <1>1, <1>2, LookupIs DEF PInv
  <2>2. ASSUME NEW k \in Matches(n)' PROVE k = 1
    <3>1. k \in 1 .. Len(s) + 1 /\ heap[ptable'[b][k]].num = n
      BY <1>4, <1>5 DEF Matches
    <3>2. k # 1 => k - 1 \in 1 .. Len(s) /\ (k - 1) + 1 = k
      BY <1>3, <3>1
    <3>3. k # 1 => k - 1 \in Matches(n)
      BY <1>3, <1>5, <3>1, <3>2 DEF Matches, s
    <3> QED
      BY <2>1, <3>3
  <2>3. 1 \in Matches(n)'
    BY <1>1, <1>3, <1>4, <1>5 DEF Matches
  <2> QED
    BY <2>2, <2>3
<1>9. PageType'
  <2>1. \A x \in Buckets : \A i \in DOMAIN ptable'[x] : ptable'[x][i] \in 1 .. Len(heap)
    <3>1. ASSUME NEW i \in 1 .. Len(s) + 1 PROVE ptable'[b][i] \in 1 .. Len(heap)
      <4>1. i # 1 => i - 1 \in 1 .. Len(s) /\ (i - 1) + 1 = i
        BY <1>3
      <4>2. \A k \in 1 .. Len(s) : s[k] \in 1 .. Len(heap)
        BY <1>2, <1>3 DEF PInv, PageType, s
      <4> QED
        BY <1>5, <4>1, <4>2
    <3> QED
      BY <1>5, <3>1 DEF PInv, PageType
  <2> QED
    BY <1>4, <1>5, <2>1 DEF PInv, PageType
<1>10. OnePage'
  <2>1. ASSUME NEW p \in Pages, NEW i \in Matches(p)', NEW k \in Matches(p)' PROVE i = k
    <3>1. CASE p = n
      BY <1>8, <3>1
    <3>2. CASE Hash[p] # b
      BY <1>6, <3>2 DEF PInv, OnePage
    <3>3. CASE Hash[p] = b /\ p # n
      BY <1>7, <3>3 DEF PInv, OnePage
    <3> QED
      BY <3>1, <3>2, <3>3
  <2> QED
    BY <2>1 DEF OnePage
<1>11. Lookup(n)' = g
  BY <1>2, <1>5, <1>8, FirstOne DEF Lookup
<1>12. ASSUME NEW p \in Pages, p # n PROVE Lookup(p)' = Lookup(p)
  <2>1. CASE Hash[p] # b
    <3>1. Matches(p)' = Matches(p) /\ ptable'[Hash[p]] = ptable[Hash[p]]
      BY <1>5, <1>6, <2>1, HashAssumption
    <3> QED
      BY <3>1 DEF Lookup
  <2>2. CASE Hash[p] = b /\ Matches(p) = {}
    <3>1. Matches(p)' = {}
      BY <1>7, <1>12, <2>2
    <3> QED
      BY <2>2, <3>1 DEF Lookup
  <2>3. CASE Hash[p] = b /\ Matches(p) # {}
    <3>1. PICK i \in Matches(p) : TRUE
      BY <2>3
    <3>2. i \in 1 .. Len(s) /\ Matches(p) = {i} /\ Matches(p)' = {i + 1}
      <4>1. i \in 1 .. Len(s)
        BY <1>3, <2>3, <3>1 DEF Matches, s
      <4>2. Matches(p) = {i}
        BY <3>1 DEF PInv, OnePage
      <4>3. Matches(p)' = {k + 1 : k \in Matches(p)}
        BY <1>7, <1>12, <2>3
      <4> QED
        BY <4>1, <4>2, <4>3
    <3>3. First(Matches(p)) = i /\ First(Matches(p)') = i + 1
      BY <1>3, <3>2, FirstOne
    <3>4. Lookup(p) = ptable[b][i]
      BY <2>3, <3>3 DEF Lookup
    <3>5. Lookup(p)' = ptable'[b][i + 1]
      BY <2>3, <3>2, <3>3 DEF Lookup
    <3>6. ptable'[b][i + 1] = s[i]
      BY <1>5, <3>2
    <3> QED
      BY <3>4, <3>5, <3>6 DEF s
  <2> QED
    BY <2>1, <2>2, <2>3
<1>13. Contents' = Contents
  <2>1. ASSUME NEW p \in Pages
        PROVE  (IF Lookup(p)' = Null THEN Blank ELSE heap'[Lookup(p)'].data)
               = (IF Lookup(p) = Null THEN Blank ELSE heap[Lookup(p)].data)
    <3>1. CASE p = n
      BY <1>1, <1>3, <1>4, <1>11, <3>1 DEF Null
    <3>2. CASE p # n
      BY <1>4, <1>12, <3>2
    <3> QED
      BY <3>1, <3>2
  <2> QED
    BY <2>1 DEF Contents, Blank
<1>14. Knows(c)'
  BY <1>2, <1>4, <1>11 DEF Knows, Using
<1> QED
  BY <1>1, <1>2, <1>4, <1>9, <1>10, <1>11, <1>12, <1>13, <1>14 DEF PInv

\* What memory holds after a request.
After(r) == IF r.op = "write" THEN [Contents EXCEPT ![r.num] = [@ EXCEPT ![r.off] = r.val]]
            ELSE Contents

\* The byte is read from, or written to, the page that get_page finds.
LEMMA UseInv ==
    ASSUME NEW c, PInv(c), Use(c)
    PROVE  /\ PInv(c)' /\ \A p \in Pages : Lookup(p)' = Lookup(p)
           /\ [Flat!Next]_(Flat!vars)
           /\ Contents' = After(at[c].request)
<1>1. PICK r \in Request, g \in 1 .. Len(heap) :
         at[c] = [pc |-> "use", request |-> r, page |-> g] /\ Lookup(r.num) = g
  BY WhereAt DEF Use, PInv, Using
<1> DEFINE n == r.num
           d == [heap[g].data EXCEPT ![r.off] = r.val]
<1>2. n \in Pages /\ r.off \in Offsets /\ r.val \in Values /\ r.op \in {"read", "write", "map"}
  BY DEF Request
<1>3. g # Null /\ heap \in Seq(Page) /\ Len(heap) \in Nat
  BY DEF Null, PInv, PageType
<1>4. heap[g] \in Page /\ heap[g].num = n
  BY <1>1, <1>2, <1>3, LookupIs DEF PInv
<1>5. /\ heap' = IF r.op = "write" THEN [heap EXCEPT ![g].data = d] ELSE heap
      /\ result' = IF r.op = "read" THEN heap[g].data[r.off] ELSE result
      /\ at'[c] = Idle /\ at' \in [{c} -> {at'[c]}] /\ ptable' = ptable
  <2>1. at[c].request = r /\ at[c].page = g /\ at[c].request.op = r.op
    BY <1>1
  <2>2. at' = [at EXCEPT ![c] = Idle] /\ ptable' = ptable
    BY DEF Use
  <2>3. at'[c] = Idle /\ at' \in [{c} -> {at'[c]}]
    BY <2>2 DEF PInv
  <2>4. heap' = IF r.op = "write" THEN [heap EXCEPT ![g].data = d] ELSE heap
    BY <2>1 DEF Use
  <2>5. result' = IF r.op = "read" THEN heap[g].data[r.off] ELSE result
    BY <2>1 DEF Use
  <2> QED
    BY <2>2, <2>3, <2>4, <2>5
<1>6. d \in [Offsets -> Values] /\ [heap[g] EXCEPT !.data = d] = [num |-> n, data |-> d]
  BY <1>2, <1>4 DEF Page
<1>7. /\ heap' \in Seq(Page) /\ Len(heap') = Len(heap)
      /\ \A k \in 1 .. Len(heap) : heap'[k].num = heap[k].num
      /\ \A k \in 1 .. Len(heap) : k # g => heap'[k] = heap[k]
      /\ r.op = "write" => heap'[g].data = d
      /\ r.op # "write" => heap' = heap
  <2>1. CASE r.op = "write"
    <3>1. heap' = [heap EXCEPT ![g] = [num |-> n, data |-> d]]
      BY <1>5, <1>6, <2>1
    <3>2. [num |-> n, data |-> d] \in Page
      BY <1>2, <1>6 DEF Page
    <3> HIDE DEF d, n
    <3> QED
      BY <1>1, <1>3, <1>4, <2>1, <3>1, <3>2
  <2>2. CASE r.op # "write"
    BY <1>3, <1>5, <2>2
  <2> QED
    BY <2>1, <2>2
<1>8. /\ \A p \in Pages : Matches(p)' = Matches(p) /\ Lookup(p)' = Lookup(p)
      /\ \A b \in Buckets : \A i \in DOMAIN ptable'[b] : ptable'[b][i] \in 1 .. Len(heap')
  BY <1>3, <1>5, <1>7, SameLookup DEF PInv
<1>9. result' \in Values
  BY <1>2, <1>4, <1>5 DEF PInv, PageType, Page
<1>10. PageType' /\ OnePage' /\ Knows(c)'
  BY <1>5, <1>7, <1>8, <1>9 DEF PInv, PageType, OnePage, Knows
<1>11. Contents[n] = heap[g].data
  BY <1>1, <1>2, <1>3 DEF Contents
<1>12. CASE r.op = "write"
  <2>1. ASSUME NEW p \in Pages
        PROVE  (IF Lookup(p)' = Null THEN Blank ELSE heap'[Lookup(p)'].data)
               = IF p = n THEN d ELSE Contents[p]
    <3>1. CASE p = n
      BY <1>1, <1>3, <1>7, <1>8, <1>12, <3>1
    <3>2. CASE p # n /\ Lookup(p) = Null
      BY <1>8, <3>2 DEF Contents
    <3>3. CASE p # n /\ Lookup(p) # Null
      <4>1. Lookup(p) \in 1 .. Len(heap) /\ Lookup(p) # g
        BY <1>4, <3>3, LookupIs DEF PInv
      <4> QED
        BY <1>7, <1>8, <3>3, <4>1 DEF Contents
    <3> QED
      BY <3>1, <3>2, <3>3
  <2>2. Contents' = [p \in Pages |-> IF p = n THEN d ELSE Contents[p]]
    BY <2>1 DEF Contents, Blank
  <2>3. Contents' = [Contents EXCEPT ![n] = [@ EXCEPT ![r.off] = r.val]]
    <3>1. Contents = [p \in Pages |-> Contents[p]]
      BY DEF Contents
    <3>2. d = [Contents[n] EXCEPT ![r.off] = r.val]
      BY <1>11
    <3> HIDE DEF d
    <3> QED
      BY <1>2, <2>2, <3>1, <3>2
  <2>4. Flat!Write(n, r.off, r.val)
    BY <1>5, <1>12, <2>3 DEF Flat!Write
  <2>5. Contents' = After(at[c].request)
    BY <1>1, <1>12, <2>3 DEF After
  <2> QED
    BY <1>2, <1>5, <1>8, <1>10, <2>4, <2>5 DEF Flat!Next, PInv
<1>13. CASE r.op # "write"
  <2>1. Contents' = Contents
    BY <1>7, <1>8, <1>13 DEF Contents
  <2>2. r.op = "read" => Flat!Read(n, r.off)
    BY <1>5, <1>11, <2>1 DEF Flat!Read
  <2>3. r.op # "read" => UNCHANGED Flat!vars
    BY <1>5, <2>1 DEF Flat!vars
  <2>4. Contents' = After(at[c].request)
    BY <1>1, <1>13, <2>1 DEF After
  <2> QED
    BY <1>2, <1>5, <1>8, <1>10, <2>2, <2>3, <2>4 DEF Flat!Next, PInv
<1> QED
  BY <1>12, <1>13

-----------------------------------------------------------------------------
(* The theorems *)

\* An access is for one request, and its last step does what it asks for.
LEMMA AccessDoes ==
    ASSUME NEW c, PInv(c), AccessStep(c)
    PROVE  /\ at[c] # Idle /\ at[c].request \in Request
           /\ \/ at'[c] # Idle /\ at'[c].request = at[c].request /\ Contents' = Contents
              \/ /\ at'[c] = Idle /\ Contents' = After(at[c].request)
                 /\ Lookup(at[c].request.num) # Null
<1>1. CASE Find(c)
  <2>1. PICK r \in Request : at[c] = [pc |-> "find", request |-> r]
    BY <1>1, WhereAt DEF Find, PInv, Finding
  <2>2. at'[c] # Idle /\ at'[c].request = r /\ at[c] # Idle
    BY <1>1, <2>1 DEF Find, PInv, Idle
  <2> QED
    BY <1>1, <2>1, <2>2, FindInv
<1>2. CASE Link(c)
  <2>1. PICK r \in Request : at[c] = [pc |-> "add", request |-> r]
    BY <1>2, WhereAt DEF Link, PInv, Adding
  <2>2. at'[c] # Idle /\ at'[c].request = r /\ at[c] # Idle
    BY <1>2, <2>1 DEF Link, PInv, Idle
  <2> QED
    BY <1>2, <2>1, <2>2, LinkInv
<1>3. CASE Publish(c)
  <2>1. PICK r \in Request, g \in 1 .. Len(heap) :
           at[c] = [pc |-> "publish", request |-> r, page |-> g, next |-> ptable[Hash[r.num]]]
    BY <1>3, WhereAt DEF Publish, PInv, Publishing
  <2>2. at'[c] # Idle /\ at'[c].request = r /\ at[c] # Idle
    BY <1>3, <2>1 DEF Publish, PInv, Idle
  <2> QED
    BY <1>3, <2>1, <2>2, PublishInv
<1>4. CASE Use(c)
  <2>1. PICK r \in Request, g \in 1 .. Len(heap) :
           at[c] = [pc |-> "use", request |-> r, page |-> g] /\ Lookup(r.num) = g
    BY <1>4, WhereAt DEF Use, PInv, Using
  <2>2. at'[c] = Idle /\ at[c] # Idle
    BY <1>4, <2>1 DEF Use, PInv, Idle
  <2>3. Lookup(at[c].request.num) # Null
    BY <2>1 DEF Null
  <2> QED
    BY <1>4, <2>1, <2>2, <2>3, UseInv
<1> QED
  BY <1>1, <1>2, <1>3, <1>4 DEF AccessStep

\* What is read is what is there.
LEMMA ReadsByte ==
    ASSUME NEW c, PInv(c), AccessStep(c), at'[c] = Idle, at[c].request.op = "read"
    PROVE  result' = Contents[at[c].request.num][at[c].request.off]
<1>1. CASE Find(c) \/ Link(c) \/ Publish(c)
  <2>1. c \in DOMAIN at
    BY DEF PInv
  <2>2. at'[c] # Idle
    BY <1>1, <2>1 DEF Find, Link, Publish, Idle
  <2> QED
    BY <2>2
<1>2. CASE Use(c)
  <2>1. PICK r \in Request, g \in 1 .. Len(heap) :
           at[c] = [pc |-> "use", request |-> r, page |-> g] /\ Lookup(r.num) = g
    BY <1>2, WhereAt DEF Use, PInv, Using
  <2>2. result' = heap[g].data[r.off]
    BY <1>2, <2>1 DEF Use
  <2>3. Contents[r.num] = heap[g].data
    BY <2>1 DEF Contents, Null, Request
  <2> QED
    BY <2>1, <2>2, <2>3
<1> QED
  BY <1>1, <1>2 DEF AccessStep

LEMMA ContentsType ==
    ASSUME PageType, OnePage PROVE Contents \in [Pages -> [Offsets -> Values]]
<1>1. ASSUME NEW p \in Pages, Lookup(p) # Null PROVE heap[Lookup(p)].data \in [Offsets -> Values]
  BY <1>1, LookupIs DEF Page
<1>2. Blank \in [Offsets -> Values]
  BY ByteAssumption DEF Blank
<1> QED
  BY <1>1, <1>2 DEF Contents

\* Every step keeps the invariant and what is in the table, and is one of the
\* array's, or none.
LEMMA StepInv ==
    ASSUME NEW c, Clients = {c}, PInv(c), [Next]_pages
    PROVE  /\ PInv(c)' /\ [Flat!Next]_(Flat!vars)
           /\ \A p \in Pages : Lookup(p) # Null => Lookup(p)' = Lookup(p)
<1>1. CASE UNCHANGED pages
  <2>1. PageType' /\ OnePage' /\ Contents' = Contents
        /\ \A p \in Pages : Lookup(p)' = Lookup(p)
    BY <1>1, QuietInv DEF pages
  <2>2. Knows(c)' /\ at' \in [{c} -> {at'[c]}]
    <3>1. \A r \in Request : Lookup(r.num)' = Lookup(r.num)
      BY <2>1 DEF Request
    <3> QED
      BY <1>1, <3>1 DEF pages, PInv, Knows, Finding, Adding, Publishing, Using
  <2> QED
    BY <1>1, <2>1, <2>2 DEF pages, PInv, Flat!vars
<1>2. CASE \E r \in May[c] : Call(c, r)
  BY <1>2, CallInv, RequestAssumption DEF Flat!vars
<1>3. CASE Find(c)
  BY <1>3, FindInv DEF Flat!vars
<1>4. CASE Link(c)
  BY <1>4, LinkInv DEF Flat!vars
<1>5. CASE Publish(c)
  BY <1>5, PublishInv DEF Flat!vars
<1>6. CASE Use(c)
  BY <1>6, UseInv
<1> QED
  BY <1>1, <1>2, <1>3, <1>4, <1>5, <1>6 DEF Next, AccessStep

\* With one client, a page that has been found for an address is found ever
\* after (ptable.c:10), whatever the hash does.
THEOREM PagesStay == ASSUME NEW c, Clients = {c} PROVE Spec => NoReplacement
<1>1. NoPages => PInv(c)
  BY NoPagesInv
<1>2. PInv(c) /\ [Next]_pages => PInv(c)'
  BY StepInv
<1>3. PInv(c) /\ [Next]_pages => [\A p \in Pages : Lookup(p) # Null => Lookup(p)' = Lookup(p)]_pages
  BY StepInv
<1> QED
  BY <1>1, <1>2, <1>3, PTL DEF Spec, NoReplacement

\* A table without pages is an array of zeroes.
LEMMA NoPagesArray == NoPages => Flat!Init
<1> SUFFICES ASSUME NoPages PROVE Flat!Init
  OBVIOUS
<1>1. \A p \in Pages : Lookup(p) = Null
  BY HashAssumption DEF NoPages, Lookup, Matches
<1>2. Contents = [p \in Pages |-> Blank] /\ Blank \in [Offsets -> Values]
  BY <1>1, ByteAssumption DEF Contents, Blank
<1> QED
  BY <1>2 DEF NoPages, Flat!Init

\* With one client, pages that appear when they are touched are an array of
\* bytes to whoever reads and writes them (ptable.c:37-56, mem.c:61-139).
THEOREM PagesImplementArray == ASSUME NEW c, Clients = {c} PROVE Spec => PagesAreFlat
<1>1. NoPages => PInv(c)
  BY NoPagesInv
<1>2. NoPages => Flat!Init
  BY NoPagesArray
<1>3. PInv(c) /\ [Next]_pages => PInv(c)' /\ [Flat!Next]_(Flat!vars)
  BY StepInv
<1> QED
  BY <1>1, <1>2, <1>3, PTL DEF Spec, PagesAreFlat, Flat!Spec
=============================================================================
