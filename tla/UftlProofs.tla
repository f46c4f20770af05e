----------------------------- MODULE UftlProofs -----------------------------
(***************************************************************************)
(* Proofs about Uftl: whatever is written, flushed and recycled, reads     *)
(* return what was written last, the tables describe the LEBs, and a power *)
(* cut that does not hit a log page loses nothing that was flushed.        *)
(*                                                                         *)
(* UftlAll is the inductive invariant.  Its parts say what is on the LEBs  *)
(* (FlashInv), which blocks are empty (FifoInv), that the block_ids of     *)
(* blocks are different (IdInv), that the index leads to the newest page   *)
(* of each virtual sector among all pages that may be found (OrderInv),    *)
(* how the other tables follow from it (StateInv), where the operation     *)
(* that holds uftl_mutex can be (ControlInv, CallInv), and what is in the  *)
(* buffers and on the pages (BufInv, DataInv, DurableInv).                 *)
(*                                                                         *)
(* The argument in one sentence: because a page is written with the        *)
(* highest id there is and replaces the newest page, which is discarded    *)
(* but stays until its block holds no newest page of any virtual sector,   *)
(* attaching finds the same index as the one in memory, except for the     *)
(* page of an operation that has not entered it yet.                       *)
(***************************************************************************)
EXTENDS Uftl, FiniteSetTheorems, WellFoundedInduction, TLAPS

\* No cut from the last data page of a block to the end of its log page.
NoLogCuts == "cut" \in Faults => Faults \cap {"cut_before_log", "cut_in_log"} = {}

(***************************************************************************)
(* The contents of LEBs.                                                   *)
(***************************************************************************)

Written1(r) == r \notin {Empty, Torn}

FullLeb(x) ==
    /\ Written1(x.log)
    /\ \A p \in Pages : /\ Written1(x.page[p])
                        /\ x.page[p].id = x.log.id
                        /\ x.log.sectors[p] = x.page[p].sector

OpenLeb(x, n, id) ==
    /\ x.log = Empty
    /\ \A p \in Pages : IF p < n THEN Written1(x.page[p]) /\ x.page[p].id = id
                        ELSE x.page[p] = Empty

TornLeb(x) ==
    /\ x.log = Empty /\ x.page[0] = Torn
    /\ \A p \in Pages \ {0} : x.page[p] = Empty

\* What attaching may find in block b.
Media(b) == IF leb[b] = EmptyLeb THEN undone[b] ELSE leb[b]
MediaPage(i) == Media(i.block).page[i.page]

At(b, p) == [block |-> b, page |-> p]
Pending == op.pc = "index" \/ (op.pc = "log" /\ op.after = "index")
Scrubbing ==
    \/ op.pc = "scrub"
    \/ op.pc = "log" /\ op.after = "scrub"
    \/ op.pc = "erase" /\ op.after = "gc"
AfterIndex == op.pc \in {"count", "erase", "gc", "scrub"} \/ (op.pc = "log" /\ op.after = "scrub")

Older(i, j) ==
    \/ MediaPage(i).id < MediaPage(j).id
    \/ i.block = j.block /\ i.page <= j.page

CallType ==
    [kind : {"none", "write", "read", "queue", "flush"},
     v : Virt, s : Secs, x : Vals \cup {Junk}]

TypeInv ==
    /\ UftlTypeOK
    /\ op \in [pc : Pcs, call : CallType, buf : Bufs, block : Blocks \cup {None},
               page : 0 .. NPages, after : {"idle", "index", "count", "scrub", "gc"}, room : Int]

FlashInv ==
    /\ \A b \in Blocks : undone[b] # EmptyLeb =>
        leb[b] = EmptyLeb /\ (FullLeb(undone[b]) \/ TornLeb(undone[b]))
    /\ \A b \in Blocks : b # cur.block => leb[b] = EmptyLeb \/ FullLeb(leb[b])
    /\ cur.block # None =>
        /\ IF cur.page = NPages - 1 /\ op.pc # "log"
           THEN FullLeb(leb[cur.block]) /\ leb[cur.block].log.id = blockId
           ELSE OpenLeb(leb[cur.block], cur.page + 1, blockId)
        /\ \A p \in 0 .. cur.page : logPage[p] = leb[cur.block].page[p].sector
    /\ op.pc = "log" => cur.page = NPages - 1

FifoInv ==
    /\ \A k \in DOMAIN fifo : leb[fifo[k]] = EmptyLeb /\ fifo[k] # cur.block
    /\ \A k, m \in DOMAIN fifo : fifo[k] = fifo[m] => k = m
    /\ cur.block = None => fifo = <<>>

IdInv ==
    /\ \A b, d \in Blocks : b # d /\ FullLeb(Media(b)) /\ FullLeb(Media(d)) =>
        Media(b).log.id # Media(d).log.id
    /\ \A b \in Blocks : FullLeb(Media(b)) /\ (b # cur.block \/ leb[b] = EmptyLeb) =>
        Media(b).log.id < blockId

OrderInv ==
    /\ \A i \in Pos : Written1(MediaPage(i)) /\ ~(Pending /\ i = cur) =>
        /\ index[MediaPage(i).sector] # None
        /\ Older(i, index[MediaPage(i).sector])
    /\ \A v \in Virt : index[v] # None => Holds(index[v], v) /\ ~(Pending /\ index[v] = cur)

StateInv ==
    /\ \A b \in Blocks, p \in Pages :
        state[b][p] = "empty" <=> leb[b].page[p] = Empty \/ (Pending /\ cur = At(b, p))
    /\ \A v \in Virt : index[v] # None => state[index[v].block][index[v].page] = "using"
    /\ \A b \in Blocks, p \in Pages : state[b][p] = "using" =>
        \/ \E v \in Virt : index[v] = At(b, p)
        \/ Scrubbing /\ b = op.block /\ p < op.page
        \/ cur.block = None
    /\ \A b \in Blocks : using[b] = UsingOf(state, b)

ControlInv ==
    /\ op.pc \in {"log", "index", "count", "erase", "gc", "scrub"} =>
        /\ cur.block # None /\ cur.page >= 0
        /\ pool[op.buf].sector # None /\ pool[op.buf].dirty # {}
    /\ op.pc = "log" => op.after = "index" \/ (op.after = "scrub" /\ op.page > 0)
    /\ op.pc = "erase" => op.after \in {"count", "gc"}
    /\ Scrubbing \/ op.pc = "erase" =>
        op.block \in Blocks /\ FullLeb(leb[op.block])
    /\ Scrubbing =>
        /\ \A v \in Virt : index[v] # None /\ index[v].block = op.block => index[v].page >= op.page
        /\ op.page > 0 => op.block # cur.block
    /\ op.pc = "scrub" /\ op.page = 0 => \E p \in Pages : state[op.block][p] = "using"
    /\ op.pc = "erase" =>
        /\ op.block # cur.block
        /\ \A v \in Virt : index[v] # None => index[v].block # op.block

CallInv ==
    /\ op.pc # "idle" /\ op.call.kind \in {"write", "read"} =>
        /\ op.buf = 0 /\ Holding(op.call.v) = {}
        /\ op.call.kind = "read" => index[op.call.v] # None
        /\ op.call.kind = "write" => op.call.x \in Vals
    /\ op.pc = "resume" => op.call.kind \in {"write", "read"} /\ pool[0].sector = None

\* The data.
Agrees(data, v) == \A s \in Secs : want[v][s] # Junk => data[s] = want[v][s]
OnFlash(v, s) ==
    want[v][s] # Junk => index[v] # None /\ PageData(index[v])[s] = want[v][s]

BufInv ==
    /\ \A i \in Bufs : pool[i].sector = None => pool[i] = NoBuf
    /\ \A i, j \in Bufs : pool[i].sector = pool[j].sector /\ pool[i].sector # None => i = j
    /\ \A i \in Bufs : pool[i].sector # None => \A s \in Secs :
        s \in pool[i].dirty \/ pool[i].read =>
            (want[pool[i].sector][s] # Junk => pool[i].data[s] = want[pool[i].sector][s])

DataInv ==
    /\ \A v \in Virt, s \in Secs : (\A i \in Holding(v) : s \notin pool[i].dirty) => OnFlash(v, s)
    /\ AfterIndex => \A s \in Secs : OnFlash(pool[op.buf].sector, s)
    /\ Pending =>
        /\ leb[cur.block].page[cur.page].sector = pool[op.buf].sector
        /\ Agrees(leb[cur.block].page[cur.page].data, pool[op.buf].sector)

DurableInv ==
    /\ "cut" \notin Faults => \A v \in Virt, s \in Secs : Junk \in durable[v][s]
    /\ \A v \in Virt, s \in Secs : Junk \notin durable[v][s] =>
        /\ want[v][s] \in durable[v][s]
        /\ index[v] # None /\ PageData(index[v])[s] \in durable[v][s]

(***************************************************************************)
(* What attaching finds on the LEBs f: c is the block without log page     *)
(* (None if there is none), n the number of its pages and id their         *)
(* block_id.                                                               *)
(***************************************************************************)
\* The least of a set of natural numbers.
LEMMA LeastNat ==
    ASSUME NEW n \in Nat, NEW S, S \subseteq 0 .. n, S # {}
    PROVE  \E m \in S : \A k \in S : m <= k
<1>1. S \subseteq Nat OBVIOUS
<1>2. PICK m \in S : \A k \in S : <<k, m>> \notin OpToRel(<, Nat) BY <1>1, NatLessThanWellFounded, WFMin
<1>3. \A k \in S : ~(k < m) BY <1>1, <1>2 DEF OpToRel
<1> QED BY <1>1, <1>3

\* The greatest of a set of numbers up to n.
LEMMA GreatestNat ==
    ASSUME NEW n \in Nat, NEW S, S \subseteq 0 .. n, S # {}
    PROVE  \E m \in S : \A k \in S : k <= m
<1> DEFINE T == {n - k : k \in S}
<1>1. T \subseteq 0 .. n /\ T # {}
  <2>1. PICK e \in S : e \in 0 .. n OBVIOUS
  <2>2. n - e \in T BY <2>1
  <2>3. \A k \in S : n - k \in 0 .. n OBVIOUS
  <2> QED BY <2>2, <2>3
<1>2. PICK t \in T : \A k \in T : t <= k
  <2> HIDE DEF T
  <2> QED BY <1>1, LeastNat
<1>3. PICK m \in S : t = n - m OBVIOUS
<1>4. ASSUME NEW k \in S PROVE k <= m
  <2>1. n - k \in T OBVIOUS
  <2>2. t <= n - k BY <1>2, <2>1
  <2> QED BY <1>3, <2>2
<1> QED BY <1>4

\* Page i of the LEBs f.
PageOf(f, i) == f[i.block].page[i.page]

\* What attaching may find: full blocks of different ids, blocks with a torn
\* first page, and the block c with n of its pages, written last.
Attachable(f, c, n, id) ==
    /\ f \in [Blocks -> LebType]
    /\ \A b \in Blocks : b # c => f[b] = EmptyLeb \/ FullLeb(f[b]) \/ TornLeb(f[b])
    /\ c # None =>
        /\ c \in Blocks /\ n \in Pages /\ n > 0 /\ f[c].log = Empty
        /\ \A p \in Pages :
            /\ p < n => Written1(f[c].page[p]) /\ f[c].page[p].id = id
            /\ p = n => f[c].page[p] \in {Empty, Torn}
            /\ p > n => f[c].page[p] = Empty
        /\ \A b \in Blocks : FullLeb(f[b]) => f[b].log.id < id
    /\ \A b, d \in Blocks : b # d /\ FullLeb(f[b]) /\ FullLeb(f[d]) => f[b].log.id # f[d].log.id

\* The parts of a page and of a log page.
LEMMA PageType ==
    ASSUME NEW x \in LebType, NEW p \in Pages, Written1(x.page[p])
    PROVE  /\ x.page[p].sector \in Virt /\ x.page[p].id \in 0 .. MaxId
           /\ x.page[p].data \in Data /\ x.page[p] \in PageRec
BY DEF LebType, PageRec, Written1

\* An un-mapped LEB holds no page.
LEMMA EmptyPages ==
    /\ \A p \in Pages : ~Written1(EmptyLeb.page[p]) /\ EmptyLeb.page[p] = Empty
    /\ EmptyLeb.log = Empty
    /\ EmptyLeb \in LebType
BY DEF EmptyLeb, Written1, LebType

\* A block has a first page.
LEMMA ZeroPage == 0 \in Pages /\ NPages \in Nat /\ NPages > 0
BY UftlSizes DEF Pages

\* Which pages of an attachable volume are found.
LEMMA LebKinds ==
    ASSUME NEW f, NEW c, NEW n, NEW id, Attachable(f, c, n, id), NEW b \in Blocks
    PROVE  \/ /\ Logged(f, b) /\ b # c /\ FullLeb(f[b])
              /\ \A p \in Pages : Written1(f[b].page[p])
           \/ /\ ~Logged(f, b) /\ b # c /\ f[b].log = Empty
              /\ \A p \in Pages : ~Written1(f[b].page[p])
           \/ /\ ~Logged(f, b) /\ b = c /\ f[b].log = Empty
              /\ n \in Pages /\ n > 0 /\ \A p \in Pages : Written1(f[b].page[p]) <=> p < n
<1>1. CASE b = c
  <2>1. \A p \in Pages : Written1(f[b].page[p]) <=> p < n
    <3> SUFFICES ASSUME NEW p \in Pages PROVE Written1(f[b].page[p]) <=> p < n OBVIOUS
    <3>1. p \in Int /\ n \in Int BY <1>1, UftlSentinels DEF Attachable, Pages
    <3>2. p < n \/ p = n \/ p > n BY <3>1
    <3>3. ~(p < n /\ p = n) /\ ~(p < n /\ p > n) BY <3>1
    <3> QED BY <1>1, <3>2, <3>3, UftlSentinels DEF Attachable, Written1
  <2> QED BY <1>1, <2>1, UftlSentinels DEF Attachable, Logged
<1>2. CASE b # c
  <2>1. CASE f[b] = EmptyLeb BY <1>2, <2>1, EmptyPages DEF Logged
  <2>2. CASE FullLeb(f[b]) BY <1>2, <2>2 DEF Logged, FullLeb, Written1
  <2>3. CASE TornLeb(f[b])
    <3>1. \A p \in Pages : ~Written1(f[b].page[p]) BY <2>3 DEF TornLeb, Written1
    <3> QED BY <1>2, <2>3, <3>1 DEF TornLeb, Logged
  <2> QED BY <1>2, <2>1, <2>2, <2>3 DEF Attachable
<1> QED BY <1>1, <1>2

\* Written() counts the pages before the first one that holds no page log.
LEMMA WrittenIs ==
    ASSUME NEW f, NEW b, NEW n \in 0 .. NPages,
           \A p \in Pages : p < n => Written1(f[b].page[p]),
           n < NPages => ~Written1(f[b].page[n])
    PROVE  Written(f, b) = n
<1> DEFINE P(m) == /\ \A p \in 0 .. m - 1 : f[b].page[p] \notin {Empty, Torn}
                   /\ m < NPages => f[b].page[m] \in {Empty, Torn}
<1>1. P(n)
  <2>1. \A p \in 0 .. n - 1 : p \in Pages /\ p < n BY ZeroPage DEF Pages
  <2> QED BY <2>1 DEF Written1
<1>2. ASSUME NEW m \in 0 .. NPages, P(m) PROVE m = n
  <2>1. CASE m < n
    <3>1. m \in Pages /\ m < NPages BY <2>1, ZeroPage DEF Pages
    <3> QED BY <3>1, <2>1, <1>2 DEF Written1
  <2>2. CASE n < m
    <3>1. n \in 0 .. m - 1 /\ n < NPages BY <2>2, ZeroPage
    <3> QED BY <3>1, <1>2 DEF Written1
  <2> QED BY <2>1, <2>2, ZeroPage
<1>3. Written(f, b) = CHOOSE m \in 0 .. NPages : P(m) BY DEF Written
<1> HIDE DEF P
<1> QED BY <1>1, <1>2, <1>3

\* The block taken for the last one is the one that was being written.
LEMMA LastIs ==
    ASSUME NEW f, NEW c, NEW n, NEW id, Attachable(f, c, n, id)
    PROVE  LastBlock(f) = c /\ (c # None => Written(f, c) = n)
<1>1. ASSUME NEW b \in Blocks, b # c, f[b].log = Empty PROVE Written(f, b) = 0
  <2>1. ~Logged(f, b) BY <1>1 DEF Logged
  <2>2. \A p \in Pages : ~Written1(f[b].page[p]) BY <1>1, <2>1, LebKinds
  <2>3. 0 \in 0 .. NPages /\ 0 \in Pages /\ \A p \in Pages : ~(p < 0) BY ZeroPage DEF Pages
  <2> QED BY <2>2, <2>3, WrittenIs
<1>2. ASSUME c # None PROVE c \in Blocks /\ f[c].log = Empty /\ Written(f, c) = n /\ n > 0
  <2>1. c \in Blocks /\ f[c].log = Empty /\ n \in Pages /\ n > 0 BY <1>2 DEF Attachable
  <2>2. \A p \in Pages : Written1(f[c].page[p]) <=> p < n BY <2>1, LebKinds
  <2>3. n \in 0 .. NPages /\ ~(n < n) BY <2>1, ZeroPage DEF Pages
  <2> QED BY <2>1, <2>2, <2>3, WrittenIs
<1>3. CASE c = None
  <2>1. Unlogged(f) = {} BY <1>1, <1>3, UftlSentinels DEF Unlogged
  <2> QED BY <1>3, <2>1 DEF LastBlock
<1>4. CASE c # None
  <2>1. Unlogged(f) = {c} BY <1>1, <1>2, <1>4 DEF Unlogged
  <2>2. c \in Int BY <1>2, <1>4 DEF Blocks
  <2>3. Min({c}) = c BY <2>2 DEF Min
  <2> QED BY <2>1, <2>3, <1>2, <1>4 DEF LastBlock
<1> QED BY <1>3, <1>4

\* create_index() finds all pages that are written.
LEMMA FoundIs ==
    ASSUME NEW f, NEW c, NEW n, NEW id, Attachable(f, c, n, id)
    PROVE  FoundPages(f) = {i \in Pos : Written1(PageOf(f, i))}
<1>1. LastBlock(f) = c /\ (c # None => Written(f, c) = n) BY LastIs
<1>2. ASSUME NEW i \in Pos
      PROVE  (Logged(f, i.block) \/ (i.block = LastBlock(f) /\ i.page < Written(f, i.block)))
             <=> Written1(PageOf(f, i))
  <2>1. i.block \in Blocks /\ i.page \in Pages BY DEF Pos
  <2>2. i.block # None BY <2>1, UftlSentinels
  <2> QED BY <2>1, <2>2, <1>1, LebKinds DEF PageOf
<1> QED BY <1>2 DEF FoundPages

\* It takes from the log page what the page log says.
LEMMA EntryIs ==
    ASSUME NEW f, NEW c, NEW n, NEW id, Attachable(f, c, n, id), NEW i \in Pos, Written1(PageOf(f, i))
    PROVE  Entry(f, i) = [block |-> i.block, page |-> i.page,
                          sector |-> PageOf(f, i).sector, id |-> PageOf(f, i).id]
<1>1. i.block \in Blocks /\ i.page \in Pages BY DEF Pos
<1>2. CASE Logged(f, i.block)
  <2>1. FullLeb(f[i.block]) BY <1>1, <1>2, LebKinds
  <2>2. f[i.block].log \notin {Empty, Torn} BY <1>2 DEF Logged
  <2>3. /\ f[i.block].log.sectors[i.page] = PageOf(f, i).sector
        /\ f[i.block].log.id = PageOf(f, i).id
    BY <1>1, <2>1 DEF FullLeb, PageOf
  <2> QED BY <2>2, <2>3 DEF Entry
<1>3. CASE ~Logged(f, i.block)
  <2>1. f[i.block].log \in {Empty, Torn} BY <1>3 DEF Logged
  <2> QED BY <2>1 DEF Entry, PageOf
<1> QED BY <1>2, <1>3

\* The pages of virtual sector v that are found.
PagesFor(f, v) == {i \in Pos : Written1(PageOf(f, i)) /\ PageOf(f, i).sector = v}

\* Page i is the newest one of virtual sector v.
NewestAt(f, i, v) ==
    /\ i \in PagesFor(f, v)
    /\ \A j \in PagesFor(f, v) :
        \/ PageOf(f, j).id < PageOf(f, i).id
        \/ i.block = j.block /\ j.page <= i.page

\* The parts of a page that is found.
LEMMA FoundTypes ==
    ASSUME NEW f, NEW c, NEW n, NEW id, Attachable(f, c, n, id), NEW i \in Pos, Written1(PageOf(f, i))
    PROVE  /\ i.block \in Blocks /\ i.page \in Pages /\ i.block \in Int /\ i.page \in Int
           /\ PageOf(f, i).id \in 0 .. MaxId /\ PageOf(f, i).id \in Int
           /\ PageOf(f, i).sector \in Virt
<1>1. i.block \in Blocks /\ i.page \in Pages BY DEF Pos
<1>2. f[i.block] \in LebType BY <1>1 DEF Attachable
<1>3. PageOf(f, i).id \in 0 .. MaxId /\ PageOf(f, i).sector \in Virt BY <1>1, <1>2, PageType DEF PageOf
<1>4. MaxId \in Int BY UftlSizes
<1> QED BY <1>1, <1>3, <1>4 DEF Blocks, Pages

\* The pages of a block have the same id, those of different blocks do not.
LEMMA BlockIds ==
    ASSUME NEW f, NEW c, NEW n, NEW id, Attachable(f, c, n, id),
           NEW i \in Pos, Written1(PageOf(f, i)), NEW j \in Pos, Written1(PageOf(f, j))
    PROVE  i.block = j.block <=> PageOf(f, i).id = PageOf(f, j).id
<1> DEFINE a == i.block
           b == j.block
<1>1. a \in Blocks /\ b \in Blocks /\ i.page \in Pages /\ j.page \in Pages BY DEF Pos
<1>2. /\ PageOf(f, i) = f[a].page[i.page] /\ PageOf(f, j) = f[b].page[j.page] BY DEF PageOf
<1>3. PageOf(f, i).id \in Int /\ PageOf(f, j).id \in Int BY FoundTypes
<1>4. CASE a # c /\ b # c
  <2>1. FullLeb(f[a]) /\ FullLeb(f[b]) BY <1>1, <1>2, <1>4, LebKinds
  <2>2. PageOf(f, i).id = f[a].log.id /\ PageOf(f, j).id = f[b].log.id BY <1>1, <1>2, <2>1 DEF FullLeb
  <2>3. a # b => f[a].log.id # f[b].log.id BY <1>1, <2>1 DEF Attachable
  <2> QED BY <2>2, <2>3
<1>5. ASSUME NEW x \in Pos, Written1(PageOf(f, x)), x.block = c PROVE PageOf(f, x).id = id
  <2>1. x.block \in Blocks /\ x.page \in Pages BY DEF Pos
  <2>2. c # None BY <1>5, <2>1, UftlSentinels
  <2>3. x.page < n BY <1>5, <2>1, LebKinds DEF PageOf
  <2> QED BY <1>5, <2>1, <2>2, <2>3 DEF Attachable, PageOf
<1>6. ASSUME NEW x \in Pos, Written1(PageOf(f, x)), x.block # c, c # None PROVE PageOf(f, x).id < id
  <2>1. x.block \in Blocks /\ x.page \in Pages BY DEF Pos
  <2>2. FullLeb(f[x.block]) BY <1>6, <2>1, LebKinds DEF PageOf
  <2>3. PageOf(f, x).id = f[x.block].log.id BY <2>1, <2>2 DEF FullLeb, PageOf
  <2> QED BY <1>6, <2>1, <2>2, <2>3 DEF Attachable
<1>7. CASE a = c /\ b = c BY <1>5, <1>7
<1>8. CASE a = c /\ b # c
  <2>1. c # None BY <1>1, <1>8, UftlSentinels
  <2> QED BY <1>3, <1>5, <1>6, <1>8, <2>1
<1>9. CASE a # c /\ b = c
  <2>1. c # None BY <1>1, <1>9, UftlSentinels
  <2> QED BY <1>3, <1>5, <1>6, <1>9, <2>1
<1> QED BY <1>4, <1>7, <1>8, <1>9

\* Of the pages of a virtual sector one is the newest.
LEMMA NewestExists ==
    ASSUME NEW f, NEW c, NEW n, NEW id, Attachable(f, c, n, id), NEW v, PagesFor(f, v) # {}
    PROVE  \E i \in PagesFor(f, v) : NewestAt(f, i, v)
<1> DEFINE F == PagesFor(f, v)
           Id(i) == PageOf(f, i).id
           S == {Id(i) : i \in F}
<1>1. \A i \in F : i \in Pos /\ Written1(PageOf(f, i)) /\ PageOf(f, i).sector = v BY DEF PagesFor
<1>2. \A i \in F : Id(i) \in 0 .. MaxId /\ Id(i) \in Int /\ i.page \in Pages /\ i.page \in Int
  BY <1>1, FoundTypes
<1>3. PICK m \in S : \A k \in S : k <= m
  <2>1. S # {} OBVIOUS
  <2>2. S \subseteq 0 .. MaxId
    <3> HIDE DEF Id, F
    <3> QED BY <1>2
  <2>3. MaxId \in Nat BY UftlSizes
  <2> HIDE DEF S
  <2> QED BY <2>1, <2>2, <2>3, GreatestNat
<1>4. PICK i \in F : m = Id(i) BY <1>3
<1> HIDE DEF Id
<1>5. \A j \in F : Id(j) <= Id(i) BY <1>3, <1>4
<1> DEFINE T == {j.page : j \in {k \in F : Id(k) = Id(i)}}
<1>6. PICK q \in T : \A k \in T : k <= q
  <2>1. T # {} OBVIOUS
  <2>2. \A j \in F : j.page \in 0 .. NPages
    <3> HIDE DEF F
    <3> QED BY <1>2, ZeroPage DEF Pages
  <2>3. T \subseteq 0 .. NPages
    <3> HIDE DEF F
    <3> QED BY <2>2
  <2> HIDE DEF T
  <2> QED BY <2>1, <2>3, ZeroPage, GreatestNat
<1>7. PICK x \in F : Id(x) = Id(i) /\ q = x.page BY <1>6
<1>8. \A j \in F : Id(j) = Id(i) => j.page <= x.page BY <1>6, <1>7
<1>9. ASSUME NEW j \in F PROVE Id(j) < Id(x) \/ (x.block = j.block /\ j.page <= x.page)
  <2>1. CASE Id(j) = Id(i)
    <3>1. x.block = j.block BY <1>1, <1>7, <2>1, BlockIds DEF Id
    <3> QED BY <3>1, <2>1, <1>8
  <2>2. CASE Id(j) # Id(i)
    <3>1. Id(j) \in Int /\ Id(i) \in Int /\ Id(j) <= Id(i) BY <1>2, <1>5
    <3> QED BY <3>1, <2>2, <1>7
  <2> QED BY <2>1, <2>2
<1> QED BY <1>7, <1>9 DEF NewestAt, Id

\* The index after attaching: the newest page of each virtual sector.
LEMMA IndexAt ==
    ASSUME NEW f, NEW c, NEW n, NEW id, Attachable(f, c, n, id), NEW v \in Virt,
           NEW i, NewestAt(f, i, v)
    PROVE  IndexOf(f)[v] = i
<1> DEFINE es == Entries(f)
           Ent(j) == [block |-> j.block, page |-> j.page,
                      sector |-> PageOf(f, j).sector, id |-> PageOf(f, j).id]
           F == {j \in Pos : Written1(PageOf(f, j))}
           e == Ent(i)
<1>1. es = {Ent(j) : j \in F}
  <2>1. FoundPages(f) = F BY FoundIs
  <2>2. \A j \in F : Entry(f, j) = Ent(j) BY EntryIs
  <2> HIDE DEF Ent, F
  <2> QED BY <2>1, <2>2 DEF Entries
<1>2. i \in F /\ PageOf(f, i).sector = v BY DEF NewestAt, PagesFor
<1>3. \A j \in F : PageOf(f, j).id \in Int /\ j.block \in Int /\ j.page \in Int BY FoundTypes
<1>4. ASSUME NEW j \in F, PageOf(f, j).sector = v, Ent(j) # e
      PROVE  /\ Ent(j).id < e.id \/ (Ent(j).id = e.id /\ Before(Ent(j), e))
             /\ ~(e.id < Ent(j).id \/ (e.id = Ent(j).id /\ Before(e, Ent(j))))
  <2>1. j \in PagesFor(f, v) BY <1>4 DEF PagesFor
  <2>2. PageOf(f, j).id < PageOf(f, i).id \/ (i.block = j.block /\ j.page <= i.page)
    BY <2>1 DEF NewestAt
  <2>3. i.block = j.block <=> PageOf(f, i).id = PageOf(f, j).id BY <1>2, BlockIds
  <2>4. i.block = j.block => i.page # j.page BY <1>2, <1>4, <2>3
  <2> DEFINE a == PageOf(f, i).id
             b == PageOf(f, j).id
             p == i.page
             q == j.page
             x == i.block
             y == j.block
  <2>5. a \in Int /\ b \in Int /\ p \in Int /\ q \in Int /\ x \in Int /\ y \in Int BY <1>2, <1>3
  <2>6. (b < a \/ (x = y /\ q <= p)) /\ (x = y <=> a = b) /\ (x = y => p # q)
    BY <2>2, <2>3, <2>4
  <2>7. /\ Before(Ent(j), e) <=> (y < x \/ (y = x /\ q < p))
        /\ Before(e, Ent(j)) <=> (x < y \/ (x = y /\ p < q))
        /\ Ent(j).id = b /\ e.id = a
    BY DEF Before
  <2> HIDE DEF a, b, p, q, x, y, Ent, e
  <2> QED BY <2>5, <2>6, <2>7
<1>5. e \in Newest(es, v)
  <2>1. e \in es /\ e.sector = v BY <1>1, <1>2
  <2>2. ASSUME NEW d \in es, d.sector = v, d # e
        PROVE  d.id < e.id \/ (d.id = e.id /\ Before(d, e))
    <3>1. PICK j \in F : d = Ent(j) BY <1>1
    <3>2. PageOf(f, j).sector = v BY <3>1, <2>2
    <3> HIDE DEF Ent, e, F
    <3> QED BY <3>1, <3>2, <2>2, <1>4
  <2> HIDE DEF es, e, Ent, F
  <2> QED BY <2>1, <2>2 DEF Newest
<1>6. ASSUME NEW d \in Newest(es, v) PROVE d = e
  <2>1. d \in es /\ d.sector = v BY DEF Newest
  <2>2. PICK j \in F : d = Ent(j) BY <1>1, <2>1
  <2>3. PageOf(f, j).sector = v BY <2>1, <2>2
  <2>4. e # d => e.id < d.id \/ (e.id = d.id /\ Before(e, d))
    <3>1. e \in es /\ e.sector = v BY <1>5 DEF Newest
    <3> HIDE DEF es, e, Ent, F
    <3> QED BY <3>1 DEF Newest
  <2> HIDE DEF Ent, e, F, es
  <2> QED BY <2>2, <2>3, <2>4, <1>4
<1>7. Newest(es, v) = {e} BY <1>5, <1>6
<1>8. (CHOOSE x \in Newest(es, v) : TRUE) = e BY <1>7
<1>9. IndexOf(f)[v] = [block |-> e.block, page |-> e.page]
  <2> HIDE DEF e
  <2> QED BY <1>7, <1>8 DEF IndexOf
<1>10. i \in Pos BY <1>2
<1> QED BY <1>9, <1>10 DEF Pos

\* A virtual sector without page is not entered.
LEMMA IndexNone ==
    ASSUME NEW f, NEW c, NEW n, NEW id, Attachable(f, c, n, id), NEW v \in Virt, PagesFor(f, v) = {}
    PROVE  IndexOf(f)[v] = None
<1>1. ASSUME NEW e \in Entries(f) PROVE e.sector # v
  <2>1. PICK i \in FoundPages(f) : e = Entry(f, i) BY DEF Entries
  <2>2. i \in Pos /\ Written1(PageOf(f, i)) BY <2>1, FoundIs
  <2>3. e.sector = PageOf(f, i).sector BY <2>1, <2>2, EntryIs
  <2> QED BY <2>2, <2>3 DEF PagesFor
<1>2. Newest(Entries(f), v) = {} BY <1>1 DEF Newest
<1> QED BY <1>2 DEF IndexOf

\* Both cases together.
LEMMA IndexIs ==
    ASSUME NEW f, NEW c, NEW n, NEW id, Attachable(f, c, n, id), NEW v \in Virt
    PROVE  /\ IndexOf(f)[v] = None <=> PagesFor(f, v) = {}
           /\ IndexOf(f)[v] # None => NewestAt(f, IndexOf(f)[v], v)
           /\ IndexOf(f)[v] \in Pos \cup {None}
<1>1. CASE PagesFor(f, v) = {} BY <1>1, IndexNone
<1>2. CASE PagesFor(f, v) # {}
  <2>1. PICK i \in PagesFor(f, v) : NewestAt(f, i, v) BY <1>2, NewestExists
  <2>2. IndexOf(f)[v] = i BY <2>1, IndexAt
  <2>3. i \in Pos /\ i # None BY UftlSentinels DEF PagesFor
  <2> QED BY <1>2, <2>1, <2>2, <2>3
<1> QED BY <1>1, <1>2

(***************************************************************************)
(* block_state_index[] after attaching.                                    *)
(***************************************************************************)
\* The number of used pages of a block.
LEMMA UsingIs ==
    ASSUME NEW st, NEW b
    PROVE  /\ UsingOf(st, b) \in 0 .. NPages
           /\ UsingOf(st, b) = 0 <=> \A p \in Pages : st[b][p] # "using"
<1> DEFINE U == {p \in Pages : st[b][p] = "using"}
<1>1. IsFiniteSet(Pages) /\ Cardinality(Pages) = NPages
  <2>1. 0 \in Int /\ NPages - 1 \in Int /\ ~(0 > NPages - 1) BY ZeroPage
  <2>2. Pages = 0 .. (NPages - 1) BY DEF Pages
  <2>3. IsFiniteSet(0 .. (NPages - 1)) BY <2>1, FS_Interval
  <2>4. Cardinality(0 .. (NPages - 1)) = (NPages - 1) - 0 + 1 BY <2>1, FS_Interval
  <2>5. (NPages - 1) - 0 + 1 = NPages BY ZeroPage
  <2> QED BY <2>2, <2>3, <2>4, <2>5
<1>2. U \subseteq Pages OBVIOUS
<1> HIDE DEF U
<1>3. IsFiniteSet(U) /\ Cardinality(U) <= NPages BY <1>1, <1>2, FS_Subset
<1>4. Cardinality(U) \in Nat BY <1>3, FS_CardinalityType
<1>5. Cardinality(U) = 0 <=> U = {} BY <1>3, FS_EmptySet
<1>6. UsingOf(st, b) = Cardinality(U) BY DEF U, UsingOf
<1>7. U = {} <=> \A p \in Pages : st[b][p] # "using" BY DEF U
<1> QED BY <1>3, <1>4, <1>5, <1>6, <1>7, ZeroPage

\* Two states that agree on the used pages of a block.
LEMMA UsingSame ==
    ASSUME NEW st, NEW tt, NEW b, \A p \in Pages : st[b][p] = "using" <=> tt[b][p] = "using"
    PROVE  UsingOf(st, b) = UsingOf(tt, b)
<1>1. {p \in Pages : st[b][p] = "using"} = {p \in Pages : tt[b][p] = "using"} OBVIOUS
<1> QED BY <1>1 DEF UsingOf

\* One used page more.
LEMMA UsingOne ==
    ASSUME NEW st, NEW tt, NEW b, NEW q \in Pages,
           st[b][q] # "using", tt[b][q] = "using",
           \A p \in Pages : p # q => (st[b][p] = "using" <=> tt[b][p] = "using")
    PROVE  UsingOf(tt, b) = UsingOf(st, b) + 1
<1> DEFINE U == {p \in Pages : st[b][p] = "using"}
           V == {p \in Pages : tt[b][p] = "using"}
<1>1. V = U \cup {q} /\ q \notin U /\ U \subseteq Pages OBVIOUS
<1>2. UsingOf(st, b) = Cardinality(U) /\ UsingOf(tt, b) = Cardinality(V) BY DEF UsingOf
<1>3. 0 \in Int /\ NPages - 1 \in Int BY ZeroPage
<1>4. Pages = 0 .. (NPages - 1) BY DEF Pages
<1> HIDE DEF U, V
<1>5. IsFiniteSet(Pages) BY <1>3, <1>4, FS_Interval
<1>6. IsFiniteSet(U) BY <1>1, <1>5, FS_Subset
<1>7. Cardinality(U \cup {q}) = Cardinality(U) + 1 BY <1>1, <1>6, FS_AddElement
<1> QED BY <1>1, <1>2, <1>7

\* States after attaching.
LEMMA StateIs ==
    ASSUME NEW f, NEW c, NEW n, NEW id, Attachable(f, c, n, id), NEW b \in Blocks, NEW p \in Pages
    PROVE  /\ StateOf(f)[b][p] \in {"empty", "using", "discard"}
           /\ StateOf(f)[b][p] = "using" <=> \E v \in Virt : IndexOf(f)[v] = At(b, p)
           /\ StateOf(f)[b][p] = "empty" <=> ~Written1(f[b].page[p])
<1> DEFINE ix == IndexOf(f)
           used == {ix[v] : v \in Virt}
           found == FoundPages(f)
           i == [block |-> b, page |-> p]
<1>1. StateOf(f)[b][p] = IF i \in used THEN "using" ELSE IF i \in found THEN "discard" ELSE "empty"
  BY DEF StateOf
<1>2. i \in Pos /\ PageOf(f, i) = f[b].page[p] BY DEF Pos, PageOf
<1>3. i \in found <=> Written1(f[b].page[p]) BY <1>2, FoundIs
<1>4. i \in used => i \in found
  <2>1. SUFFICES ASSUME NEW v \in Virt, IndexOf(f)[v] = i PROVE i \in found OBVIOUS
  <2>2. i # None BY <1>2, UftlSentinels
  <2>3. NewestAt(f, i, v) BY <2>1, <2>2, IndexIs
  <2> QED BY <2>3, <1>2, <1>3 DEF NewestAt, PagesFor
<1>5. i \in used <=> \E v \in Virt : IndexOf(f)[v] = At(b, p) BY DEF At
<1> HIDE DEF i, used, found
<1> QED BY <1>1, <1>3, <1>4, <1>5

\* The blocks that are un-mapped are those no virtual sector is read from.
LEMMA UnusedIs ==
    ASSUME NEW f, NEW c, NEW n, NEW id, Attachable(f, c, n, id), NEW b \in Blocks
    PROVE  b \in Unused(StateOf(f)) <=>
               \A v \in Virt : IndexOf(f)[v] # None => IndexOf(f)[v].block # b
<1>1. b \in Unused(StateOf(f)) <=> UsingOf(StateOf(f), b) = 0 BY DEF Unused
<1>2. UsingOf(StateOf(f), b) = 0 <=> \A p \in Pages : StateOf(f)[b][p] # "using" BY UsingIs
<1>3. \A p \in Pages : StateOf(f)[b][p] = "using" <=> \E v \in Virt : IndexOf(f)[v] = At(b, p) BY StateIs
<1>4. ASSUME NEW v \in Virt, IndexOf(f)[v] # None, IndexOf(f)[v].block = b
      PROVE  \E p \in Pages : IndexOf(f)[v] = At(b, p)
  <2>1. IndexOf(f)[v] \in Pos BY <1>4, IndexIs
  <2> QED BY <2>1, <1>4 DEF Pos, At
<1>5. ASSUME NEW v \in Virt, NEW p \in Pages, IndexOf(f)[v] = At(b, p)
      PROVE  IndexOf(f)[v] # None /\ IndexOf(f)[v].block = b
  <2>1. At(b, p) \in Pos /\ At(b, p).block = b BY DEF Pos, At
  <2> QED BY <2>1, <1>5, UftlSentinels
<1> QED BY <1>1, <1>2, <1>3, <1>4, <1>5

\* The last page of the block that was being written is the newest one of
\* its virtual sector, so that this block is not taken for an empty one.
LEMMA LastUsed ==
    ASSUME NEW f, NEW c, NEW n, NEW id, Attachable(f, c, n, id), c # None
    PROVE  c \notin Unused(StateOf(f))
<1> DEFINE i == [block |-> c, page |-> n - 1]
           v == PageOf(f, i).sector
<1>1. c \in Blocks /\ n \in Pages /\ n \in Int /\ n > 0 /\ n - 1 \in Pages /\ n - 1 < n
  BY ZeroPage DEF Attachable, Pages
<1>2. i \in Pos /\ i.block = c /\ i.page = n - 1 /\ PageOf(f, i) = f[c].page[n - 1] BY <1>1 DEF Pos, PageOf
<1>3. Written1(PageOf(f, i)) /\ PageOf(f, i).id = id BY <1>1, <1>2 DEF Attachable
<1> HIDE DEF i
<1>4. i \in PagesFor(f, v) /\ v \in Virt BY <1>2, <1>3, FoundTypes DEF PagesFor
<1>5. ASSUME NEW j \in PagesFor(f, v)
      PROVE  PageOf(f, j).id < PageOf(f, i).id \/ (i.block = j.block /\ j.page <= i.page)
  <2>1. j \in Pos /\ Written1(PageOf(f, j)) /\ j.block \in Blocks /\ j.page \in Pages BY DEF PagesFor, Pos
  <2>2. CASE j.block = c
    <3>1. j.page < n BY <2>1, <2>2, <1>1, UftlSentinels, LebKinds DEF PageOf
    <3>2. j.page \in Int BY <2>1 DEF Pages
    <3> QED BY <1>1, <1>2, <2>2, <3>1, <3>2
  <2>3. CASE j.block # c
    <3>1. FullLeb(f[j.block]) BY <2>1, <2>3, LebKinds DEF PageOf
    <3>2. PageOf(f, j).id = f[j.block].log.id BY <2>1, <3>1 DEF FullLeb, PageOf
    <3> QED BY <1>3, <2>1, <3>1, <3>2 DEF Attachable
  <2> QED BY <2>2, <2>3
<1>6. NewestAt(f, i, v) BY <1>4, <1>5 DEF NewestAt
<1>7. IndexOf(f)[v] = i BY <1>4, <1>6, IndexAt
<1>8. i # None BY <1>2, UftlSentinels
<1> QED BY <1>1, <1>2, <1>4, <1>7, <1>8, UnusedIs

\* The greatest id found.
LEMMA MaxIdIs ==
    ASSUME NEW f, NEW c, NEW n, NEW id, Attachable(f, c, n, id)
    PROVE  LET m == Max({0} \cup {e.id : e \in Entries(f)}) IN
           /\ m \in 0 .. MaxId
           /\ \A i \in Pos : Written1(PageOf(f, i)) => PageOf(f, i).id <= m
           /\ c # None => m = id
           /\ m = 0 \/ \E e \in Entries(f) : m = e.id
<1> DEFINE S == {0} \cup {e.id : e \in Entries(f)}
           m == Max(S)
           T(x) == \A y \in S : x >= y
<1>1. \A e \in Entries(f) : \E i \in Pos : Written1(PageOf(f, i)) /\ e.id = PageOf(f, i).id
  <2> SUFFICES ASSUME NEW e \in Entries(f)
               PROVE  \E i \in Pos : Written1(PageOf(f, i)) /\ e.id = PageOf(f, i).id OBVIOUS
  <2>1. PICK i \in FoundPages(f) : e = Entry(f, i) BY DEF Entries
  <2>2. i \in Pos /\ Written1(PageOf(f, i)) BY <2>1, FoundIs
  <2>3. e.id = PageOf(f, i).id BY <2>1, <2>2, EntryIs
  <2> QED BY <2>2, <2>3
<1>2. \A i \in Pos : Written1(PageOf(f, i)) => PageOf(f, i).id \in S
  <2> SUFFICES ASSUME NEW i \in Pos, Written1(PageOf(f, i)) PROVE PageOf(f, i).id \in S OBVIOUS
  <2>1. i \in FoundPages(f) BY FoundIs
  <2>2. Entry(f, i) \in Entries(f) BY <2>1 DEF Entries
  <2>3. Entry(f, i).id = PageOf(f, i).id BY EntryIs
  <2> QED BY <2>2, <2>3
<1>3. MaxId \in Nat BY UftlSizes
<1>4. \A e \in Entries(f) : e.id \in 0 .. MaxId BY <1>1, FoundTypes
<1>5. S \subseteq 0 .. MaxId /\ S # {} BY <1>3, <1>4
<1>6. \E x \in S : T(x)
  <2>1. \A x \in S : x \in Int BY <1>3, <1>5
  <2> HIDE DEF S
  <2>2. PICK x \in S : \A y \in S : y <= x BY <1>3, <1>5, GreatestNat
  <2>3. T(x) BY <2>1, <2>2
  <2> QED BY <2>3
<1>7. m \in S /\ T(m)
  <2> HIDE DEF T, S
  <2>1. m = CHOOSE x \in S : T(x) BY DEF Max, T
  <2> QED BY <1>6, <2>1
<1>8. m \in 0 .. MaxId /\ m \in Int
  <2> HIDE DEF m, S
  <2> QED BY <1>3, <1>5, <1>7
<1>9. \A i \in Pos : Written1(PageOf(f, i)) => PageOf(f, i).id <= m
  <2> SUFFICES ASSUME NEW i \in Pos, Written1(PageOf(f, i)) PROVE PageOf(f, i).id <= m OBVIOUS
  <2>1. PageOf(f, i).id \in S /\ PageOf(f, i).id \in Int BY <1>2, FoundTypes
  <2>2. m >= PageOf(f, i).id BY <1>7, <2>1
  <2> HIDE DEF m
  <2> QED BY <2>1, <2>2, <1>8
<1>10. ASSUME c # None PROVE m = id
  <2> DEFINE i == [block |-> c, page |-> n - 1]
  <2>1. c \in Blocks /\ n \in Pages /\ n \in Int /\ n > 0 /\ n - 1 \in Pages /\ n - 1 < n
    BY <1>10, ZeroPage DEF Attachable, Pages
  <2>2. i \in Pos /\ PageOf(f, i) = f[c].page[n - 1] BY <2>1 DEF Pos, PageOf
  <2>3. Written1(PageOf(f, i)) /\ PageOf(f, i).id = id BY <1>10, <2>1, <2>2 DEF Attachable
  <2>4. id <= m /\ id \in Nat /\ id \in S BY <2>2, <2>3, <1>2, <1>3, <1>9, FoundTypes
  <2>5. ASSUME NEW j \in Pos, Written1(PageOf(f, j)) PROVE PageOf(f, j).id <= id
    <3>1. PageOf(f, j).id \in Int /\ j.block \in Blocks /\ j.page \in Pages BY <2>5, FoundTypes
    <3>2. CASE j.block = c
      <4>1. j.page < n BY <2>1, <2>5, <3>1, <3>2, UftlSentinels, LebKinds DEF PageOf
      <4>2. PageOf(f, j).id = id BY <1>10, <3>1, <3>2, <4>1 DEF Attachable, PageOf
      <4> QED BY <4>2, <3>1
    <3>3. CASE j.block # c
      <4>1. FullLeb(f[j.block]) BY <2>5, <3>1, <3>3, LebKinds DEF PageOf
      <4>2. PageOf(f, j).id = f[j.block].log.id BY <3>1, <4>1 DEF FullLeb, PageOf
      <4>3. PageOf(f, j).id < id BY <1>10, <3>1, <4>1, <4>2 DEF Attachable
      <4> QED BY <2>4, <3>1, <4>3
    <3> QED BY <3>2, <3>3
  <2>6. \A k \in S : k <= id BY <1>1, <2>4, <2>5
  <2>7. m <= id BY <2>6, <1>7
  <2> HIDE DEF m
  <2> QED BY <2>4, <2>7, <1>8
<1>11. m = 0 \/ \E e \in Entries(f) : m = e.id
  <2> HIDE DEF m
  <2> QED BY <1>7 DEF S
<1> QED BY <1>8, <1>9, <1>10, <1>11

\* The log page that attaching has begun lists the pages of the last block.
LEMMA LogPageIs ==
    ASSUME NEW f, NEW c, NEW n, NEW id, Attachable(f, c, n, id)
    PROVE  /\ LogPageOf(f) \in [Pages -> Virt \cup {None}]
           /\ c # None => \A p \in Pages : p < n => LogPageOf(f)[p] = f[c].page[p].sector
<1>1. LastBlock(f) = c BY LastIs
<1> DEFINE es == Entries(f)
           Entered(p) == \E e \in es :
                             /\ e.block = c /\ e.page = p
                             /\ \A d \in es : d.sector = e.sector /\ Before(d, e) => d.id <= e.id
<1>2. LogPageOf(f) = [p \in Pages |-> IF Entered(p) THEN f[c].page[p].sector ELSE None]
  BY <1>1 DEF LogPageOf
<1>3. ASSUME NEW e \in es
      PROVE  \E i \in Pos : Written1(PageOf(f, i)) /\ e.id = PageOf(f, i).id
                            /\ e.block = i.block /\ e.page = i.page
  <2>1. PICK i \in FoundPages(f) : e = Entry(f, i) BY DEF Entries
  <2>2. i \in Pos /\ Written1(PageOf(f, i)) BY <2>1, FoundIs
  <2>3. Entry(f, i) = [block |-> i.block, page |-> i.page,
                       sector |-> PageOf(f, i).sector, id |-> PageOf(f, i).id] BY <2>2, EntryIs
  <2> QED BY <2>1, <2>2, <2>3
<1>4. ASSUME NEW p \in Pages, Entered(p) PROVE f[c].page[p].sector \in Virt
  <2>1. PICK e \in es : e.block = c /\ e.page = p BY <1>4
  <2>2. PICK i \in Pos : Written1(PageOf(f, i)) /\ e.block = i.block /\ e.page = i.page BY <1>3, <2>1
  <2>3. PageOf(f, i) = f[c].page[p] BY <2>1, <2>2 DEF PageOf
  <2> QED BY <2>2, <2>3, FoundTypes
<1>5. ASSUME c # None, NEW p \in Pages, p < n PROVE Entered(p)
  <2> DEFINE i == [block |-> c, page |-> p]
             e == Entry(f, i)
  <2>1. i \in Pos /\ PageOf(f, i) = f[c].page[p] /\ i.block = c /\ i.page = p
    BY <1>5 DEF Attachable, Pos, PageOf
  <2>2. Written1(PageOf(f, i)) /\ PageOf(f, i).id = id BY <1>5, <2>1 DEF Attachable
  <2> HIDE DEF i
  <2>3. i \in FoundPages(f) BY <2>1, <2>2, FoundIs
  <2>4. e \in es BY <2>3 DEF Entries
  <2>5. e = [block |-> i.block, page |-> i.page, sector |-> PageOf(f, i).sector, id |-> PageOf(f, i).id]
    BY <2>1, <2>2, EntryIs
  <2>6. e.block = c /\ e.page = p /\ e.id = id BY <2>1, <2>2, <2>5
  <2>7. ASSUME NEW d \in es PROVE d.id <= e.id
    <3>1. PICK j \in Pos : Written1(PageOf(f, j)) /\ d.id = PageOf(f, j).id BY <1>3
    <3>2. Max({0} \cup {x.id : x \in Entries(f)}) = id BY <1>5, MaxIdIs
    <3>3. PageOf(f, j).id <= id BY <3>1, <3>2, MaxIdIs
    <3> QED BY <3>1, <3>3, <2>6
  <2> HIDE DEF e, es
  <2> QED BY <2>4, <2>6, <2>7
<1> HIDE DEF Entered
<1> QED BY <1>2, <1>4, <1>5

\* ftl_rescure() leaves the pages of the last block before the torn one.
LEMMA RescuedIs ==
    ASSUME NEW f, NEW c, NEW n, NEW id, Attachable(f, c, n, id)
    PROVE  /\ \A b \in Blocks : b # c => Rescued(f)[b] = f[b]
           /\ c # None =>
               /\ OpenLeb(Rescued(f)[c], n, id)
               /\ \A p \in Pages : p < n => Rescued(f)[c].page[p] = f[c].page[p]
           /\ Rescued(f) \in [Blocks -> LebType]
<1>0. LastBlock(f) = c /\ (c # None => Written(f, c) = n) BY LastIs
<1>1. CASE c = None
  <2>1. Rescued(f) = f BY <1>0, <1>1 DEF Rescued
  <2> QED BY <1>1, <2>1 DEF Attachable
<1>2. CASE c # None
  <2>1. /\ c \in Blocks /\ n \in Pages /\ n # NPages /\ n \in Int /\ f[c].log = Empty
        /\ f \in [Blocks -> LebType]
    BY <1>2, ZeroPage DEF Attachable, Pages
  <2> DEFINE pg == [p \in Pages |-> IF p < n THEN f[c].page[p] ELSE Empty]
             g == [f EXCEPT ![c].page = pg]
  <2>2. Rescued(f) = IF f[c].page[n] # Torn THEN f ELSE g
    BY <1>0, <1>2, <2>1 DEF Rescued
  <2>3. CASE f[c].page[n] # Torn
    <3>1. ASSUME NEW p \in Pages, ~(p < n) PROVE f[c].page[p] = Empty
      <4>1. p = n \/ p > n BY <2>1, <3>1 DEF Pages
      <4> QED BY <1>2, <2>3, <4>1 DEF Attachable
    <3>2. OpenLeb(f[c], n, id) BY <1>2, <2>1, <3>1 DEF OpenLeb, Attachable
    <3> QED BY <2>1, <2>2, <2>3, <3>2
  <2>4. CASE f[c].page[n] = Torn
    <3>1. f[c] \in LebType BY <2>1
    <3>2. g[c] = [f[c] EXCEPT !.page = pg] BY <2>1
    <3>3. g[c].page = pg /\ g[c].log = f[c].log BY <3>1, <3>2 DEF LebType
    <3>4. pg \in [Pages -> PageRec \cup {Empty, Torn}] BY <3>1 DEF LebType
    <3>5. g[c] \in LebType BY <3>1, <3>2, <3>4 DEF LebType
    <3>6. \A b \in Blocks : b # c => g[b] = f[b] BY <2>1
    <3>7. g \in [Blocks -> LebType] BY <2>1, <3>5
    <3>8. ASSUME NEW p \in Pages
          PROVE  IF p < n THEN /\ g[c].page[p] = f[c].page[p]
                               /\ Written1(g[c].page[p]) /\ g[c].page[p].id = id
                 ELSE g[c].page[p] = Empty
      <4>1. g[c].page[p] = IF p < n THEN f[c].page[p] ELSE Empty BY <3>3
      <4> HIDE DEF g
      <4> QED BY <1>2, <4>1 DEF Attachable
    <3> HIDE DEF g
    <3>9. OpenLeb(g[c], n, id) BY <2>1, <3>3, <3>8 DEF OpenLeb
    <3> QED BY <2>2, <2>4, <3>6, <3>7, <3>8, <3>9
  <2> QED BY <2>3, <2>4
<1> QED BY <1>1, <1>2

(***************************************************************************)
(* The fifo after attaching.                                               *)
(***************************************************************************)
\* There are NBlocks blocks.
LEMMA BlocksFinite ==
    /\ IsFiniteSet(Blocks) /\ Cardinality(Blocks) = NBlocks
    /\ NBlocks \in Nat /\ NBlocks > 0
    /\ \A b \in Blocks : b \in 0 .. NBlocks /\ b \in Int
<1>1. NBlocks \in Nat /\ NBlocks > 0 BY UftlSizes
<1>2. 0 \in Int /\ NBlocks - 1 \in Int /\ ~(0 > NBlocks - 1) BY <1>1
<1>3. Blocks = 0 .. (NBlocks - 1) BY DEF Blocks
<1>4. IsFiniteSet(0 .. (NBlocks - 1)) BY <1>2, FS_Interval
<1>5. Cardinality(0 .. (NBlocks - 1)) = (NBlocks - 1) - 0 + 1 BY <1>2, FS_Interval
<1>6. (NBlocks - 1) - 0 + 1 = NBlocks BY <1>1
<1>7. \A b \in Blocks : b \in 0 .. NBlocks /\ b \in Int BY <1>1, <1>3
<1> QED BY <1>1, <1>3, <1>4, <1>5, <1>6, <1>7

\* The number of blocks of S before b.
Rank(S, b) == Cardinality({c \in S : c < b})

\* Of the blocks before b the last one has the next lower rank.
LEMMA RankStep ==
    ASSUME NEW S, S \subseteq Blocks, NEW L, NEW d \in L, L \subseteq S,
           \A c \in L : c <= d, \A c \in S : c < d => c \in L
    PROVE  Rank(S, d) = Cardinality(L) - 1 /\ Cardinality(L) \in Nat
<1>1. IsFiniteSet(L) BY BlocksFinite, FS_Subset
<1>2. Cardinality(L) \in Nat BY <1>1, FS_CardinalityType
<1>3. \A c \in S : c \in Int BY BlocksFinite
<1>4. {c \in S : c < d} = L \ {d}
  <2>1. ASSUME NEW c \in S PROVE c < d <=> c \in L \ {d} BY <1>3
  <2> QED BY <2>1
<1>5. Cardinality(L \ {d}) = Cardinality(L) - 1 BY <1>1, FS_RemoveElement
<1> QED BY <1>2, <1>4, <1>5 DEF Rank

\* Every place of a sorted sequence is taken.
LEMMA RankExists ==
    ASSUME NEW S, S \subseteq Blocks, NEW k \in Nat, k < Cardinality(S)
    PROVE  \E b \in S : Rank(S, b) = k
<1>1. IsFiniteSet(S) BY BlocksFinite, FS_Subset
<1>2. Cardinality(S) \in Nat BY <1>1, FS_CardinalityType
<1>3. S # {} BY <1>1, <1>2, FS_EmptySet
<1>4. \A b \in S : b \in 0 .. NBlocks /\ b \in Int BY BlocksFinite
<1>5. S \subseteq 0 .. NBlocks BY <1>4
<1> DEFINE G == {b \in S : Rank(S, b) >= k}
<1>6. G # {}
  <2>1. PICK g \in S : \A c \in S : c <= g BY <1>3, <1>5, BlocksFinite, GreatestNat
  <2>2. Rank(S, g) = Cardinality(S) - 1 BY <2>1, RankStep
  <2>3. Cardinality(S) - 1 >= k BY <1>2
  <2> QED BY <2>1, <2>2, <2>3
<1>7. G \subseteq 0 .. NBlocks BY <1>5
<1>8. PICK b \in G : \A c \in G : b <= c
  <2> HIDE DEF G
  <2> QED BY <1>6, <1>7, BlocksFinite, LeastNat
<1>9. b \in S /\ b \in Int /\ Rank(S, b) >= k BY <1>4
<1> DEFINE L == {c \in S : c < b}
<1>10. L \subseteq S /\ L \subseteq 0 .. NBlocks /\ Rank(S, b) = Cardinality(L) BY <1>5 DEF Rank
<1>11. IsFiniteSet(L) BY <1>1, <1>10, FS_Subset
<1>12. Cardinality(L) \in Nat BY <1>11, FS_CardinalityType
<1>13. ASSUME Rank(S, b) # k PROVE FALSE
  <2>1. Cardinality(L) > k /\ Cardinality(L) # 0 BY <1>9, <1>10, <1>12, <1>13
  <2>2. L # {} BY <1>11, <2>1, FS_EmptySet
  <2>3. PICK d \in L : \A c \in L : c <= d
    <3> HIDE DEF L
    <3> QED BY <1>10, <2>2, BlocksFinite, GreatestNat
  <2>4. d \in S /\ d < b /\ d \in Int BY <1>4
  <2>5. \A c \in S : c < d => c \in L BY <1>4, <1>9, <2>4
  <2>6. Rank(S, d) = Cardinality(L) - 1
    <3> HIDE DEF L
    <3> QED BY <1>10, <2>3, <2>5, RankStep
  <2>7. Cardinality(L) - 1 >= k
    <3> HIDE DEF L
    <3> QED BY <1>12, <2>1
  <2>8. d \in G BY <2>4, <2>6, <2>7
  <2>9. b <= d BY <1>8, <2>8
  <2> QED BY <1>9, <2>4, <2>9
<1> QED BY <1>9, <1>13

\* A sequence of different blocks.
LEMMA DistinctLen ==
    ASSUME NEW q \in Seq(Blocks), \A i, j \in DOMAIN q : q[i] = q[j] => i = j
    PROVE  Len(q) <= NBlocks
<1>1. q \in [1 .. Len(q) -> Blocks] /\ Len(q) \in Nat /\ DOMAIN q = 1 .. Len(q) OBVIOUS
<1>2. q \in Injection(1 .. Len(q), Blocks) BY <1>1 DEF Injection, IsInjective
<1>3. Cardinality(1 .. Len(q)) <= Cardinality(Blocks) BY <1>2, BlocksFinite, FS_Injection
<1>4. Cardinality(1 .. Len(q)) = Len(q)
  <2>1. 1 \in Int /\ Len(q) \in Int BY <1>1
  <2>2. Cardinality(1 .. Len(q)) = IF 1 > Len(q) THEN 0 ELSE Len(q) - 1 + 1 BY <2>1, FS_Interval
  <2> QED BY <1>1, <2>2
<1> QED BY <1>3, <1>4, BlocksFinite

\* SortedSeq lists a set of blocks, each once.
LEMMA SortedIs ==
    ASSUME NEW S, S \subseteq Blocks
    PROVE  /\ SortedSeq(S) \in Seq(S) /\ SortedSeq(S) \in Seq(Blocks)
           /\ \A i, j \in DOMAIN SortedSeq(S) : SortedSeq(S)[i] = SortedSeq(S)[j] => i = j
           /\ S = {} <=> SortedSeq(S) = <<>>
<1> DEFINE m == Cardinality(S)
           q == SortedSeq(S)
           P(i, b) == Rank(S, b) = i - 1
<1>1. IsFiniteSet(S) BY BlocksFinite, FS_Subset
<1>2. m \in Nat BY <1>1, FS_CardinalityType
<1>3. q = [i \in 1 .. m |-> CHOOSE b \in S : P(i, b)] BY DEF SortedSeq, Rank
<1>4. ASSUME NEW i \in 1 .. m PROVE q[i] \in S /\ Rank(S, q[i]) = i - 1
  <2>1. i - 1 \in Nat /\ i - 1 < m BY <1>2
  <2>2. \E b \in S : P(i, b) BY <2>1, RankExists
  <2>3. q[i] = CHOOSE b \in S : P(i, b) BY <1>3
  <2> HIDE DEF q, P
  <2>4. q[i] \in S /\ P(i, q[i]) BY <2>2, <2>3
  <2> QED BY <2>4 DEF P
<1> HIDE DEF q, P, m
<1>5. q \in [1 .. m -> S] BY <1>3, <1>4
<1>6. q \in Seq(S) /\ DOMAIN q = 1 .. m /\ Len(q) = m BY <1>2, <1>5
<1>7. q \in Seq(Blocks) BY <1>6
<1>8. ASSUME NEW i \in 1 .. m, NEW j \in 1 .. m, q[i] = q[j] PROVE i = j
  <2>1. i - 1 = j - 1 BY <1>4, <1>8
  <2> QED BY <2>1
<1>9. m = 0 <=> S = {} BY <1>1, FS_EmptySet DEF m
<1>10. m = 0 <=> q = <<>> BY <1>6
<1> QED BY <1>6, <1>7, <1>8, <1>9, <1>10 DEF q

\* The rest of such a sequence.
LEMMA TailIs ==
    ASSUME NEW S, NEW q \in Seq(S), q # <<>>, \A i, j \in DOMAIN q : q[i] = q[j] => i = j
    PROVE  /\ Head(q) \in S /\ Tail(q) \in Seq(S)
           /\ \A i, j \in DOMAIN Tail(q) : Tail(q)[i] = Tail(q)[j] => i = j
           /\ \A i \in DOMAIN Tail(q) : Tail(q)[i] # Head(q) /\ \E j \in DOMAIN q : Tail(q)[i] = q[j]
<1>1. Len(q) \in Nat /\ Len(q) > 0 /\ DOMAIN q = 1 .. Len(q) OBVIOUS
<1>2. Head(q) = q[1] /\ 1 \in DOMAIN q BY <1>1
<1>3. DOMAIN Tail(q) = 1 .. Len(q) - 1 /\ Tail(q) \in Seq(S) BY <1>1
<1>4. \A i \in DOMAIN Tail(q) : Tail(q)[i] = q[i + 1] /\ i + 1 \in DOMAIN q /\ i + 1 # 1 BY <1>1, <1>3
<1>5. ASSUME NEW i \in DOMAIN Tail(q), NEW j \in DOMAIN Tail(q), Tail(q)[i] = Tail(q)[j] PROVE i = j
  <2>1. i + 1 = j + 1 BY <1>4, <1>5
  <2> QED BY <1>3, <2>1
<1> QED BY <1>2, <1>3, <1>4, <1>5

\* What attaching an attachable volume leaves.
Attached(f, c, n, id) ==
    /\ \A b \in Blocks :
        \/ /\ leb'[b] = EmptyLeb /\ undone'[b] \in {EmptyLeb, f[b]} /\ b # c
           /\ state'[b] = [p \in Pages |-> "empty"] /\ using'[b] = 0
           /\ \A v \in Virt : index'[v] # None => index'[v].block # b
        \/ /\ leb'[b] = f[b] /\ undone'[b] = EmptyLeb /\ FullLeb(f[b]) /\ b # c
           /\ b # cur'.block /\ \A k \in DOMAIN fifo' : fifo'[k] # b
           /\ state'[b] = StateOf(f)[b] /\ using'[b] = UsingOf(StateOf(f), b)
        \/ /\ OpenLeb(leb'[b], n, id) /\ undone'[b] = EmptyLeb /\ b = c
           /\ \A p \in Pages : p < n => leb'[b].page[p] = f[b].page[p]
           /\ \A k \in DOMAIN fifo' : fifo'[k] # b
           /\ state'[b] = StateOf(f)[b] /\ using'[b] = UsingOf(StateOf(f), b)
    /\ leb' \in [Blocks -> LebType] /\ undone' \in [Blocks -> LebType]
    /\ state' \in [Blocks -> [Pages -> {"empty", "using", "discard"}]]
    /\ using' \in [Blocks -> 0 .. NPages]
    /\ index' = IndexOf(f) /\ logPage' = LogPageOf(f) /\ op' = Idle
    /\ checkCount' = 0 /\ pool' = [i \in Bufs |-> NoBuf]
    /\ blockId' \in 0 .. MaxId
    /\ \A i \in Pos : Written1(PageOf(f, i)) =>
        PageOf(f, i).id <= blockId' /\ (c = None => PageOf(f, i).id < blockId')
    /\ IF c # None THEN blockId' = id /\ cur' = [block |-> c, page |-> n - 1]
       ELSE cur'.page = -1 /\ cur' \in [block : Blocks \cup {None}, page : {-1}]
    /\ cur'.block = None => fifo' = <<>>
    /\ fifo' \in Seq(Blocks)
    /\ \A i, j \in DOMAIN fifo' : fifo'[i] = fifo'[j] => i = j
    /\ \A k \in DOMAIN fifo' : fifo'[k] # cur'.block
    /\ c = None => \A v \in Virt : index'[v] # None => index'[v].block # cur'.block

\* The states of the pages found.
LEMMA StateType ==
    ASSUME NEW f
    PROVE  StateOf(f) \in [Blocks -> [Pages -> {"empty", "using", "discard"}]]
<1> DEFINE ix == IndexOf(f)
           used == {ix[v] : v \in Virt}
           found == FoundPages(f)
           S(b, p) == IF [block |-> b, page |-> p] \in used THEN "using"
                      ELSE IF [block |-> b, page |-> p] \in found THEN "discard" ELSE "empty"
<1>1. StateOf(f) = [b \in Blocks |-> [p \in Pages |-> S(b, p)]] BY DEF StateOf
<1>2. \A b \in Blocks, p \in Pages : S(b, p) \in {"empty", "using", "discard"} OBVIOUS
<1> HIDE DEF S
<1> QED BY <1>1, <1>2

\* The fifo and the current block after attaching.
LEMMA AttachFifo ==
    ASSUME NEW f, NEW c, NEW n, NEW id, Attachable(f, c, n, id), Attach(f)
    PROVE  LET U == Unused(StateOf(f)) IN
           /\ U \subseteq Blocks
           /\ fifo' \in Seq(Blocks)
           /\ \A k \in DOMAIN fifo' : fifo'[k] \in U /\ fifo'[k] # cur'.block
           /\ \A i, j \in DOMAIN fifo' : fifo'[i] = fifo'[j] => i = j
           /\ cur'.block = None => fifo' = <<>>
           /\ IF c # None THEN cur' = [block |-> c, page |-> n - 1]
              ELSE cur'.page = -1 /\ cur'.block \in U \cup {None} /\ cur' = [block |-> cur'.block, page |-> -1]
<1> DEFINE U == Unused(StateOf(f))
           q == SortedSeq(U)
           last == c = None
<1>0. LastBlock(f) = c /\ (c # None => Written(f, c) = n) BY LastIs
<1>1. U \subseteq Blocks BY DEF Unused
<1>2. /\ cur' = IF c # None THEN [block |-> c, page |-> n - 1]
                ELSE [block |-> IF q = <<>> THEN None ELSE Head(q), page |-> -1]
      /\ fifo' = IF c = None /\ q # <<>> THEN Tail(q) ELSE q
  <2>1. /\ cur' = IF ~(LastBlock(f) = None) THEN [block |-> LastBlock(f), page |-> Written(f, LastBlock(f)) - 1]
                  ELSE [block |-> IF q = <<>> THEN None ELSE Head(q), page |-> -1]
        /\ fifo' = IF LastBlock(f) = None /\ q # <<>> THEN Tail(q) ELSE q
    BY DEF Attach
  <2> HIDE DEF q
  <2> QED BY <2>1, <1>0
<1> HIDE DEF U
<1>3. /\ q \in Seq(U) /\ q \in Seq(Blocks)
      /\ \A i, j \in DOMAIN q : q[i] = q[j] => i = j
      /\ U = {} <=> q = <<>>
  BY <1>1, SortedIs
<1> HIDE DEF q
<1>4. \A k \in DOMAIN q : q[k] \in U BY <1>3
<1>5. CASE c # None
  <2>1. c \notin U BY <1>5, LastUsed DEF U
  <2>2. fifo' = q /\ cur' = [block |-> c, page |-> n - 1] /\ cur'.block = c BY <1>2, <1>5
  <2> QED BY <1>1, <1>3, <1>4, <1>5, <2>1, <2>2 DEF U
<1>6. CASE c = None /\ q = <<>>
  <2>1. fifo' = <<>> /\ cur' = [block |-> None, page |-> -1] BY <1>2, <1>6
  <2> QED BY <1>1, <1>3, <1>4, <1>6, <2>1 DEF U
<1>7. CASE c = None /\ q # <<>>
  <2>1. fifo' = Tail(q) /\ cur' = [block |-> Head(q), page |-> -1] BY <1>2, <1>7
  <2>2. cur'.block = Head(q) /\ cur'.page = -1 BY <2>1
  <2>3. Tail(q) \in Seq(Blocks) /\ Head(q) \in U /\ U \subseteq Blocks BY <1>1, <1>3, <1>7, TailIs
  <2>4. /\ \A i, j \in DOMAIN Tail(q) : Tail(q)[i] = Tail(q)[j] => i = j
        /\ \A k \in DOMAIN Tail(q) : Tail(q)[k] \in U /\ Tail(q)[k] # Head(q)
    BY <1>3, <1>4, <1>7, TailIs
  <2>5. Head(q) # None BY <2>3, UftlSentinels
  <2> QED BY <1>7, <2>1, <2>2, <2>3, <2>4, <2>5 DEF U
<1> QED BY <1>5, <1>6, <1>7

\* What init_status() leaves, in the terms of the lemmas below.
LEMMA AttachIs ==
    ASSUME NEW f, NEW c, NEW n, NEW id, Attachable(f, c, n, id), Attach(f),
           \A e \in Entries(f) : e.id < MaxId
    PROVE  Attached(f, c, n, id)
<1> DEFINE U == Unused(StateOf(f))
           kept == Rescued(f)
<1>0. LastBlock(f) = c BY LastIs
<1>1. /\ leb' = [b \in Blocks |-> IF b \in U THEN EmptyLeb ELSE kept[b]]
      /\ index' = IndexOf(f) /\ logPage' = LogPageOf(f) /\ op' = Idle
      /\ checkCount' = 0 /\ pool' = [i \in Bufs |-> NoBuf]
      /\ state' = [b \in Blocks |-> IF b \in U THEN [p \in Pages |-> "empty"] ELSE StateOf(f)[b]]
      /\ using' = [b \in Blocks |-> UsingOf(StateOf(f), b)]
      /\ undone' = [b \in Blocks |->
            IF "unmap_undone" \in Faults /\ b \in U /\ f[b].log # Torn THEN f[b] ELSE EmptyLeb]
  BY DEF Attach
<1>2. /\ f \in [Blocks -> LebType] /\ kept \in [Blocks -> LebType] /\ EmptyLeb \in LebType
      /\ \A b \in Blocks : b # c => kept[b] = f[b]
      /\ c # None => OpenLeb(kept[c], n, id) /\ \A p \in Pages : p < n => kept[c].page[p] = f[c].page[p]
  BY RescuedIs, EmptyPages DEF Attachable
<1>3. c # None => c \notin U /\ c \in Blocks BY LastUsed DEF Attachable
<1>4. \A b \in Blocks : b \in U <=> \A v \in Virt : index'[v] # None => index'[v].block # b
  BY <1>1, UnusedIs
<1>5. \A b \in Blocks : b \in U => using'[b] = 0
  <2>1. \A b \in U : UsingOf(StateOf(f), b) = 0 BY DEF Unused
  <2> HIDE DEF U
  <2> QED BY <2>1, <1>1
<1>6. \A b \in Blocks : b \notin U /\ b # c => FullLeb(f[b])
  <2> SUFFICES ASSUME NEW b \in Blocks, b \notin U, b # c PROVE FullLeb(f[b]) OBVIOUS
  <2>1. PICK v \in Virt : index'[v] # None /\ index'[v].block = b BY <1>4
  <2>2. NewestAt(f, index'[v], v) /\ index'[v] \in Pos BY <1>1, <2>1, IndexIs
  <2>3. Written1(f[b].page[index'[v].page]) /\ index'[v].page \in Pages
    BY <2>1, <2>2 DEF NewestAt, PagesFor, PageOf, Pos
  <2> QED BY <2>3, LebKinds
<1>7. /\ fifo' \in Seq(Blocks)
      /\ \A k \in DOMAIN fifo' : fifo'[k] \in U /\ fifo'[k] # cur'.block
      /\ \A i, j \in DOMAIN fifo' : fifo'[i] = fifo'[j] => i = j
      /\ cur'.block = None => fifo' = <<>>
      /\ IF c # None THEN cur' = [block |-> c, page |-> n - 1]
         ELSE cur'.page = -1 /\ cur'.block \in U \cup {None} /\ cur' = [block |-> cur'.block, page |-> -1]
      /\ U \subseteq Blocks
  BY AttachFifo
<1> DEFINE m == Max({0} \cup {e.id : e \in Entries(f)})
<1>8. /\ m \in 0 .. MaxId
      /\ \A i \in Pos : Written1(PageOf(f, i)) => PageOf(f, i).id <= m
      /\ c # None => m = id
      /\ m = 0 \/ \E e \in Entries(f) : m = e.id
  BY MaxIdIs
<1>9. blockId' = IF c = None THEN m + 1 ELSE m
  <2>1. blockId' = IF LastBlock(f) = None THEN m + 1 ELSE m BY DEF Attach
  <2> HIDE DEF m
  <2> QED BY <1>0, <2>1
<1>10. MaxId \in Nat /\ MaxId > 0 BY UftlSizes
<1> HIDE DEF U, kept, m
<1>11. m < MaxId /\ m \in Nat
  <2>1. m \in Nat BY <1>8, <1>10
  <2> QED BY <1>8, <1>10, <2>1
<1>12. blockId' \in 0 .. MaxId BY <1>9, <1>10, <1>11
<1>13. \A i \in Pos : Written1(PageOf(f, i)) =>
            PageOf(f, i).id <= blockId' /\ (c = None => PageOf(f, i).id < blockId')
  <2> SUFFICES ASSUME NEW i \in Pos, Written1(PageOf(f, i))
               PROVE  PageOf(f, i).id <= blockId' /\ (c = None => PageOf(f, i).id < blockId') OBVIOUS
  <2>1. PageOf(f, i).id \in Int BY FoundTypes
  <2>2. PageOf(f, i).id <= m BY <1>8
  <2> QED BY <1>9, <1>11, <2>1, <2>2
<1>14. c # None => blockId' = id BY <1>8, <1>9
<1>15. leb' \in [Blocks -> LebType] /\ undone' \in [Blocks -> LebType] BY <1>1, <1>2
<1>16. ASSUME NEW b \in Blocks
       PROVE  \/ /\ leb'[b] = EmptyLeb /\ undone'[b] \in {EmptyLeb, f[b]} /\ b # c
                 /\ state'[b] = [p \in Pages |-> "empty"] /\ using'[b] = 0
                 /\ \A v \in Virt : index'[v] # None => index'[v].block # b
              \/ /\ leb'[b] = f[b] /\ undone'[b] = EmptyLeb /\ FullLeb(f[b]) /\ b # c
                 /\ b # cur'.block /\ \A k \in DOMAIN fifo' : fifo'[k] # b
                 /\ state'[b] = StateOf(f)[b] /\ using'[b] = UsingOf(StateOf(f), b)
              \/ /\ OpenLeb(leb'[b], n, id) /\ undone'[b] = EmptyLeb /\ b = c
                 /\ \A p \in Pages : p < n => leb'[b].page[p] = f[b].page[p]
                 /\ \A k \in DOMAIN fifo' : fifo'[k] # b
                 /\ state'[b] = StateOf(f)[b] /\ using'[b] = UsingOf(StateOf(f), b)
  <2>0. b # None BY UftlSentinels
  <2>1. CASE b \in U
    <3>1. b # c BY <2>0, <2>1, <1>3
    <3>2. leb'[b] = EmptyLeb /\ undone'[b] \in {EmptyLeb, f[b]} /\ state'[b] = [p \in Pages |-> "empty"]
      BY <1>1, <2>1
    <3> QED BY <3>1, <3>2, <2>1, <1>4, <1>5
  <2>2. CASE b \notin U /\ b # c
    <3>1. leb'[b] = f[b] /\ undone'[b] = EmptyLeb /\ state'[b] = StateOf(f)[b] /\ using'[b] = UsingOf(StateOf(f), b)
      BY <1>1, <1>2, <2>2
    <3>2. FullLeb(f[b]) BY <1>6, <2>2
    <3>3. b # cur'.block
      <4>1. CASE c # None
        <5>1. cur'.block = c BY <1>7, <4>1
        <5> QED BY <5>1, <2>2
      <4>2. CASE c = None BY <1>7, <4>2, <2>0, <2>2
      <4> QED BY <4>1, <4>2
    <3> QED BY <3>1, <3>2, <3>3, <1>7, <2>2
  <2>3. CASE b = c
    <3>1. b \notin U BY <2>0, <2>3, <1>3
    <3>2. leb'[b] = kept[b] /\ undone'[b] = EmptyLeb /\ state'[b] = StateOf(f)[b] /\ using'[b] = UsingOf(StateOf(f), b)
      BY <1>1, <3>1
    <3> QED BY <2>0, <2>3, <3>1, <3>2, <1>2, <1>7
  <2> QED BY <2>1, <2>2, <2>3
<1>17. /\ c = None => cur' \in [block : Blocks \cup {None}, page : {-1}]
       /\ c = None => \A v \in Virt : index'[v] # None => index'[v].block # cur'.block
  <2> SUFFICES ASSUME c = None
               PROVE  /\ cur' \in [block : Blocks \cup {None}, page : {-1}]
                      /\ \A v \in Virt : index'[v] # None => index'[v].block # cur'.block
    OBVIOUS
  <2>1. cur'.block \in U \cup {None} /\ cur' = [block |-> cur'.block, page |-> -1] BY <1>7
  <2>2. cur' \in [block : Blocks \cup {None}, page : {-1}] BY <1>7, <2>1
  <2>3. ASSUME NEW v \in Virt, index'[v] # None PROVE index'[v].block # cur'.block
    <3>1. index'[v] \in Pos BY <1>1, <2>3, IndexIs
    <3>2. index'[v].block # None /\ index'[v].block \in Blocks BY <3>1, UftlSentinels DEF Pos
    <3> QED BY <1>4, <2>1, <2>3, <3>2, <1>7
  <2> QED BY <2>2, <2>3
<1>18. /\ IF c # None THEN blockId' = id /\ cur' = [block |-> c, page |-> n - 1]
          ELSE cur'.page = -1 /\ cur' \in [block : Blocks \cup {None}, page : {-1}]
  BY <1>7, <1>14, <1>17
<1>19. state' \in [Blocks -> [Pages -> {"empty", "using", "discard"}]] BY <1>1, StateType
<1>20. using' \in [Blocks -> 0 .. NPages] BY <1>1, UsingIs
<1> QED BY <1>1, <1>7, <1>12, <1>13, <1>15, <1>16, <1>17, <1>18, <1>19, <1>20 DEF Attached

(***************************************************************************)
(* Attaching establishes the invariant.                                    *)
(***************************************************************************)
\* The pages that are in the media after attaching were there before.
LEMMA AttachedMedia ==
    ASSUME NEW f, NEW c, NEW n, NEW id, Attachable(f, c, n, id), Attached(f, c, n, id), NEW b \in Blocks
    PROVE  /\ \A p \in Pages : Written1(Media(b)'.page[p]) =>
                  Written1(f[b].page[p]) /\ Media(b)'.page[p] = f[b].page[p]
           /\ FullLeb(Media(b)') => b # c /\ FullLeb(f[b]) /\ Media(b)' = f[b]
           /\ (undone'[b] # EmptyLeb => leb'[b] = EmptyLeb)
           /\ b # c => leb'[b] = EmptyLeb \/ (leb'[b] = f[b] /\ FullLeb(f[b]))
           /\ undone'[b] = EmptyLeb \/ FullLeb(undone'[b]) \/ TornLeb(undone'[b])
<1> DEFINE x == leb'[b]
           u == undone'[b]
           w == f[b]
<1>1. Media(b)' = IF x = EmptyLeb THEN u ELSE x BY DEF Media
<1>2. \/ x = EmptyLeb /\ u \in {EmptyLeb, w} /\ b # c
      \/ x = w /\ u = EmptyLeb /\ FullLeb(w) /\ b # c
      \/ OpenLeb(x, n, id) /\ u = EmptyLeb /\ b = c /\ \A p \in Pages : p < n => x.page[p] = w.page[p]
  BY DEF Attached
<1>3. b # c => w = EmptyLeb \/ FullLeb(w) \/ TornLeb(w) BY DEF Attachable
<1>4. b = c => \A p \in Pages : Written1(w.page[p]) <=> p < n BY LebKinds
<1>5. ~FullLeb(EmptyLeb) BY EmptyPages, ZeroPage DEF FullLeb, Written1
<1> HIDE DEF x, u, w
<1>6. CASE x = EmptyLeb /\ u \in {EmptyLeb, w} /\ b # c
  <2>1. Media(b)' = u BY <1>1, <1>6
  <2> QED BY <2>1, <1>3, <1>5, <1>6, EmptyPages DEF x, u, w
<1>7. CASE x = w /\ u = EmptyLeb /\ FullLeb(w) /\ b # c
  <2>1. x # EmptyLeb BY <1>5, <1>7
  <2>2. Media(b)' = x BY <1>1, <2>1
  <2> QED BY <2>2, <1>7 DEF x, u, w
<1>8. CASE /\ OpenLeb(x, n, id) /\ u = EmptyLeb /\ b = c
           /\ \A p \in Pages : p < n => x.page[p] = w.page[p]
  <2>1. Media(b)' = x BY <1>1, <1>8
  <2>2. \A p \in Pages : Written1(x.page[p]) => p < n BY <1>8 DEF OpenLeb, Written1
  <2>3. ~FullLeb(x) BY <1>8 DEF OpenLeb, FullLeb, Written1
  <2> QED BY <2>1, <2>2, <2>3, <1>4, <1>8 DEF x, u, w
<1> QED BY <1>2, <1>6, <1>7, <1>8

\* The page of a virtual sector is still there.
LEMMA AttachedPage ==
    ASSUME NEW f, NEW c, NEW n, NEW id, Attachable(f, c, n, id), Attached(f, c, n, id),
           NEW v \in Virt, index'[v] # None
    PROVE  /\ index'[v] \in Pos /\ NewestAt(f, index'[v], v)
           /\ leb'[index'[v].block].page[index'[v].page] = PageOf(f, index'[v])
           /\ MediaPage(index[v])' = PageOf(f, index'[v])
           /\ Written1(PageOf(f, index'[v])) /\ PageOf(f, index'[v]).sector = v
           /\ StateOf(f)[index'[v].block][index'[v].page] = "using"
           /\ state'[index'[v].block] = StateOf(f)[index'[v].block]
<1> DEFINE i == index'[v]
           b == i.block
           p == i.page
<1>0. index' = IndexOf(f) BY DEF Attached
<1>1. i \in Pos /\ NewestAt(f, i, v) BY <1>0, IndexIs
<1>2. Written1(PageOf(f, i)) /\ PageOf(f, i).sector = v BY <1>1 DEF NewestAt, PagesFor
<1>3. b \in Blocks /\ p \in Pages /\ i = At(b, p) BY <1>1 DEF Pos, At
<1>4. StateOf(f)[b][p] = "using"
  <2>1. \E x \in Virt : IndexOf(f)[x] = At(b, p) BY <1>0, <1>3
  <2> HIDE DEF i, b, p
  <2> QED BY <2>1, <1>3, StateIs
<1>5. /\ ~(leb'[b] = EmptyLeb /\ \A w \in Virt : index'[w] # None => index'[w].block # b)
  OBVIOUS
<1>6. leb'[b].page[p] = f[b].page[p] /\ state'[b] = StateOf(f)[b]
  <2>1. b = c => p < n BY <1>2, <1>3, LebKinds DEF PageOf
  <2>2. \/ leb'[b] = f[b] /\ state'[b] = StateOf(f)[b]
        \/ b = c /\ state'[b] = StateOf(f)[b] /\ \A q \in Pages : q < n => leb'[b].page[q] = f[b].page[q]
    <3> HIDE DEF i, b, p
    <3> QED BY <1>3, <1>5 DEF Attached
  <2> HIDE DEF i, b, p
  <2> QED BY <1>3, <2>1, <2>2
<1>7. leb'[b] # EmptyLeb
  <2>1. Written1(leb'[b].page[p]) BY <1>2, <1>6 DEF PageOf
  <2> HIDE DEF i, b, p
  <2> QED BY <2>1, <1>3, EmptyPages
<1>8. MediaPage(index[v])' = f[b].page[p] BY <1>6, <1>7 DEF MediaPage, Media
<1>9. PageOf(f, i) = f[b].page[p] BY DEF PageOf
<1> QED BY <1>1, <1>2, <1>4, <1>6, <1>8, <1>9

\* The contents of the LEBs.
LEMMA AttachedFlash ==
    ASSUME NEW f, NEW c, NEW n, NEW id, Attachable(f, c, n, id), Attached(f, c, n, id)
    PROVE  FlashInv'
<1>2. \A b \in Blocks : undone'[b] # EmptyLeb =>
        leb'[b] = EmptyLeb /\ (FullLeb(undone'[b]) \/ TornLeb(undone'[b]))
  BY AttachedMedia
<1> USE DEF Attached
<1>1. op'.pc = "idle" BY DEF Idle
<1>3. CASE c # None
  <2>0. c \in Blocks /\ n \in Pages /\ n \in Int /\ n > 0 /\ n - 1 # NPages - 1
    BY <1>3, ZeroPage DEF Attachable, Pages
  <2>1. cur'.block = c /\ cur'.page = n - 1 /\ cur'.page + 1 = n /\ blockId' = id BY <1>3, <2>0
  <2>2. OpenLeb(leb'[c], n, id) /\ \A p \in Pages : p < n => leb'[c].page[p] = f[c].page[p]
    BY <2>0
  <2>3. \A p \in Pages : p < n => logPage'[p] = f[c].page[p].sector BY <1>3, LogPageIs
  <2>4. \A p \in 0 .. n - 1 : p \in Pages /\ p < n BY <2>0, ZeroPage DEF Pages
  <2>5. \A b \in Blocks : b # cur'.block => leb'[b] = EmptyLeb \/ FullLeb(leb'[b])
    BY <2>1, AttachedMedia
  <2> QED BY <1>1, <1>2, <2>0, <2>1, <2>2, <2>3, <2>4, <2>5 DEF FlashInv
<1>4. CASE c = None
  <2>1. cur'.page = -1 /\ cur'.block \in Blocks \cup {None} BY <1>4
  <2>2. \A b \in Blocks : leb'[b] = EmptyLeb \/ FullLeb(leb'[b]) BY <1>4, UftlSentinels, AttachedMedia
  <2>3. ASSUME cur'.block # None PROVE leb'[cur'.block] = EmptyLeb
    <3> DEFINE d == cur'.block
    <3>1. d \in Blocks /\ d # c BY <1>4, <2>1, <2>3
    <3> HIDE DEF d
    <3> QED BY <3>1 DEF d
  <2>4. ~(-1 = NPages - 1) /\ 0 .. -1 = {} BY ZeroPage
  <2>5. cur'.block # None => OpenLeb(leb'[cur'.block], 0, blockId')
    <3>1. \A p \in Pages : ~(p < 0) BY DEF Pages
    <3> QED BY <2>3, <3>1, EmptyPages DEF OpenLeb
  <2> QED BY <1>1, <1>2, <2>1, <2>2, <2>4, <2>5 DEF FlashInv
<1> QED BY <1>3, <1>4

\* The fifo holds empty blocks, each once.
LEMMA AttachedFifo ==
    ASSUME NEW f, NEW c, NEW n, NEW id, Attachable(f, c, n, id), Attached(f, c, n, id)
    PROVE  FifoInv'
<1>1. fifo' \in Seq(Blocks) BY DEF Attached
<1>2. ASSUME NEW k \in DOMAIN fifo' PROVE leb'[fifo'[k]] = EmptyLeb
  <2> DEFINE b == fifo'[k]
  <2>1. b \in Blocks BY <1>1
  <2>2. ~(b # c /\ \A m \in DOMAIN fifo' : fifo'[m] # b) /\ ~(\A m \in DOMAIN fifo' : fifo'[m] # b) OBVIOUS
  <2> HIDE DEF b
  <2>3. leb'[b] = EmptyLeb BY <2>1, <2>2 DEF Attached
  <2> QED BY <2>3 DEF b
<1> QED BY <1>1, <1>2 DEF FifoInv, Attached

\* The ids of blocks are different and at most block_id.
LEMMA AttachedIds ==
    ASSUME NEW f, NEW c, NEW n, NEW id, Attachable(f, c, n, id), Attached(f, c, n, id)
    PROVE  IdInv'
<1> DEFINE M(b) == Media(b)'
<1>1. \A b \in Blocks : FullLeb(M(b)) => b # c /\ FullLeb(f[b]) /\ M(b) = f[b] BY AttachedMedia
<1>2. ASSUME NEW b \in Blocks, FullLeb(M(b)) PROVE M(b).log.id < blockId'
  <2>1. b # c /\ FullLeb(f[b]) /\ M(b) = f[b] BY <1>1, <1>2
  <2>2. CASE c # None
    <3>1. f[b].log.id < id /\ blockId' = id BY <2>1, <2>2 DEF Attachable, Attached
    <3> QED BY <2>1, <3>1
  <2>3. CASE c = None
    <3> DEFINE i == [block |-> b, page |-> 0]
    <3>1. i \in Pos /\ PageOf(f, i) = f[b].page[0] BY ZeroPage DEF Pos, PageOf
    <3>2. Written1(f[b].page[0]) /\ f[b].page[0].id = f[b].log.id BY <2>1, ZeroPage DEF FullLeb
    <3>3. PageOf(f, i).id < blockId' BY <2>3, <3>1, <3>2 DEF Attached
    <3> QED BY <2>1, <3>1, <3>2, <3>3
  <2> QED BY <2>2, <2>3
<1>3. \A b, d \in Blocks : b # d /\ FullLeb(M(b)) /\ FullLeb(M(d)) => M(b).log.id # M(d).log.id
  BY <1>1 DEF Attachable
<1> QED BY <1>2, <1>3 DEF IdInv

\* The index is that of the newest pages.
LEMMA AttachedOrder ==
    ASSUME NEW f, NEW c, NEW n, NEW id, Attachable(f, c, n, id), Attached(f, c, n, id)
    PROVE  OrderInv'
<1>1. op'.pc = "idle" BY DEF Idle, Attached
<1>2. ~Pending' BY <1>1 DEF Pending
<1>3. ASSUME NEW i \in Pos, Written1(MediaPage(i)')
      PROVE  index'[MediaPage(i)'.sector] # None /\ Older(i, index[MediaPage(i).sector])'
  <2>1. i.block \in Blocks /\ i.page \in Pages BY DEF Pos
  <2>2. Written1(PageOf(f, i)) /\ MediaPage(i)' = PageOf(f, i)
    <3>1. MediaPage(i)' = Media(i.block)'.page[i.page] BY DEF MediaPage
    <3> QED BY <1>3, <2>1, <3>1, AttachedMedia DEF PageOf
  <2> DEFINE v == PageOf(f, i).sector
  <2>3. v \in Virt /\ i \in PagesFor(f, v) /\ MediaPage(i)'.sector = v
    BY <2>2, FoundTypes DEF PagesFor
  <2> HIDE DEF v
  <2>4. index'[v] # None BY <2>3, IndexIs DEF Attached
  <2>5. NewestAt(f, index'[v], v) /\ MediaPage(index[v])' = PageOf(f, index'[v])
    BY <2>3, <2>4, AttachedPage
  <2>6. PageOf(f, i).id < PageOf(f, index'[v]).id \/ (index'[v].block = i.block /\ i.page <= index'[v].page)
    BY <2>3, <2>5 DEF NewestAt
  <2>7. \/ MediaPage(i)'.id < MediaPage(index[v])'.id
        \/ i.block = index'[v].block /\ i.page <= index'[v].page
    BY <2>2, <2>5, <2>6
  <2>8. Older(i, index[v])' BY <2>7 DEF Older
  <2>9. Older(i, index[MediaPage(i).sector])' <=> Older(i, index[v])' BY <2>3 DEF Older
  <2> QED BY <2>3, <2>4, <2>8, <2>9
<1>4. ASSUME NEW v \in Virt, index'[v] # None PROVE Holds(index[v], v)'
  <2>1. /\ leb'[index'[v].block].page[index'[v].page] = PageOf(f, index'[v])
        /\ Written1(PageOf(f, index'[v])) /\ PageOf(f, index'[v]).sector = v
    BY <1>4, AttachedPage
  <2> QED BY <2>1 DEF Holds, Written1
<1> QED BY <1>2, <1>3, <1>4 DEF OrderInv

\* The states and the number of pages in use.
LEMMA AttachedState ==
    ASSUME NEW f, NEW c, NEW n, NEW id, Attachable(f, c, n, id), Attached(f, c, n, id)
    PROVE  StateInv'
<1>1. op'.pc = "idle" BY DEF Idle, Attached
<1>2. ~Pending' BY <1>1 DEF Pending
<1>3. ASSUME NEW b \in Blocks, NEW p \in Pages
      PROVE  /\ state'[b][p] = "empty" <=> leb'[b].page[p] = Empty
             /\ state'[b][p] = "using" => \E v \in Virt : index'[v] = At(b, p)
  <2>0. /\ StateOf(f)[b][p] = "using" <=> \E v \in Virt : index'[v] = At(b, p)
        /\ StateOf(f)[b][p] = "empty" <=> ~Written1(f[b].page[p])
    BY StateIs DEF Attached
  <2>1. CASE leb'[b] = EmptyLeb /\ state'[b] = [q \in Pages |-> "empty"]
    BY <2>1, EmptyPages
  <2>2. CASE leb'[b] = f[b] /\ FullLeb(f[b]) /\ state'[b] = StateOf(f)[b]
    <3>1. Written1(f[b].page[p]) BY <2>2 DEF FullLeb
    <3> QED BY <2>0, <2>2, <3>1 DEF Written1
  <2>3. CASE /\ OpenLeb(leb'[b], n, id) /\ b = c /\ state'[b] = StateOf(f)[b]
             /\ \A q \in Pages : q < n => leb'[b].page[q] = f[b].page[q]
    <3>1. Written1(f[b].page[p]) <=> p < n BY <2>3, LebKinds
    <3>2. Written1(leb'[b].page[p]) \/ leb'[b].page[p] = Empty BY <2>3 DEF OpenLeb
    <3>3. Written1(leb'[b].page[p]) <=> p < n BY <2>3 DEF OpenLeb, Written1
    <3> QED BY <2>0, <2>3, <3>1, <3>2, <3>3 DEF Written1
  <2> QED BY <2>1, <2>2, <2>3 DEF Attached
<1>4. ASSUME NEW v \in Virt, index'[v] # None PROVE state'[index'[v].block][index'[v].page] = "using"
  BY <1>4, AttachedPage
<1>5. ASSUME NEW b \in Blocks PROVE using'[b] = UsingOf(state', b)
  <2>1. CASE state'[b] = StateOf(f)[b] /\ using'[b] = UsingOf(StateOf(f), b)
    BY <2>1, UsingSame
  <2>2. CASE state'[b] = [p \in Pages |-> "empty"] /\ using'[b] = 0
    <3>1. \A p \in Pages : state'[b][p] # "using" BY <2>2
    <3> QED BY <2>2, <3>1, UsingIs
  <2> QED BY <2>1, <2>2 DEF Attached
<1> QED BY <1>2, <1>3, <1>4, <1>5 DEF StateInv

\* No operation is executed and the pool is empty.
LEMMA AttachedControl ==
    ASSUME NEW f, NEW c, NEW n, NEW id, Attachable(f, c, n, id), Attached(f, c, n, id)
    PROVE  ControlInv' /\ CallInv' /\ BufInv' /\ ~Pending' /\ ~AfterIndex'
           /\ \A v \in Virt : Holding(v)' = {i \in Bufs : FALSE}
<1>1. op'.pc = "idle" BY DEF Idle, Attached
<1>2. ~Scrubbing' BY <1>1 DEF Scrubbing
<1>3. ControlInv' BY <1>1, <1>2 DEF ControlInv
<1>4. CallInv' BY <1>1 DEF CallInv
<1>5. \A i \in Bufs : pool'[i] = NoBuf /\ pool'[i].sector = None BY DEF NoBuf, Attached
<1>6. BufInv' BY <1>5 DEF BufInv
<1>7. \A v \in Virt : Holding(v)' = {i \in Bufs : FALSE}
  <2>1. \A v \in Virt : v # None BY UftlSentinels
  <2> QED BY <1>5, <2>1 DEF Holding
<1>8. ~Pending' /\ ~AfterIndex' BY <1>1 DEF Pending, AfterIndex
<1> QED BY <1>3, <1>4, <1>6, <1>7, <1>8

\* The types of the variables.
LEMMA AttachedType ==
    ASSUME NEW f, NEW c, NEW n, NEW id, Attachable(f, c, n, id), Attached(f, c, n, id),
           want' \in [Virt -> Data],
           durable' \in [Virt -> [Secs -> SUBSET (Vals \cup {Junk})]],
           misread' \in BOOLEAN
    PROVE  TypeInv'
<1>1. index' \in [Virt -> Pos \cup {None}]
  <2>1. index' = IndexOf(f) BY DEF Attached
  <2>2. \A v \in Virt : IndexOf(f)[v] \in Pos \cup {None} BY IndexIs
  <2>3. DOMAIN IndexOf(f) = Virt /\ IndexOf(f) = [v \in Virt |-> IndexOf(f)[v]] BY DEF IndexOf
  <2> QED BY <2>1, <2>2, <2>3
<1>2. cur' \in [block : Blocks \cup {None}, page : -1 .. NPages - 1]
  <2>1. CASE c # None
    <3>1. cur' = [block |-> c, page |-> n - 1] /\ c \in Blocks BY <2>1 DEF Attached, Attachable
    <3>2. n - 1 \in -1 .. NPages - 1 BY <2>1, ZeroPage DEF Attachable, Pages
    <3> QED BY <3>1, <3>2
  <2>2. CASE c = None
    <3>1. cur' \in [block : Blocks \cup {None}, page : {-1}] BY <2>2 DEF Attached
    <3>2. -1 \in -1 .. NPages - 1 BY ZeroPage
    <3> QED BY <3>1, <3>2
  <2> QED BY <2>1, <2>2
<1>3. logPage' \in [Pages -> Virt \cup {None}] BY LogPageIs DEF Attached
<1>4. fifo' \in Seq(Blocks) /\ Len(fifo') <= NBlocks BY DistinctLen DEF Attached
<1>5. checkCount' \in 0 .. NPages + 1 BY ZeroPage DEF Attached
<1>6. pool' \in [Bufs -> [sector : Virt \cup {None}, read : BOOLEAN, dirty : SUBSET Secs, data : Data]]
  <2>1. NoBuf \in [sector : Virt \cup {None}, read : BOOLEAN, dirty : SUBSET Secs, data : Data]
    BY DEF NoBuf, Data
  <2>2. pool' = [i \in Bufs |-> NoBuf] BY DEF Attached
  <2> QED BY <2>1, <2>2
<1>7. /\ op' \in [pc : Pcs, call : CallType, buf : Bufs, block : Blocks \cup {None},
                  page : 0 .. NPages, after : {"idle", "index", "count", "scrub", "gc"}, room : Int]
      /\ op'.pc \in Pcs /\ op'.buf \in Bufs
  <2>1. 0 \in Virt /\ 0 \in Secs /\ 0 \in Bufs /\ 0 \in 0 .. NPages BY UftlSizes DEF Virt, Secs, Bufs
  <2>2. NoCall \in CallType BY <2>1 DEF NoCall, CallType
  <2>3. op' = Idle BY DEF Attached
  <2> QED BY <2>1, <2>2, <2>3 DEF Idle, Pcs
<1>8. UftlTypeOK'
  <2>1. /\ leb' \in [Blocks -> LebType] /\ undone' \in [Blocks -> LebType]
        /\ state' \in [Blocks -> [Pages -> {"empty", "using", "discard"}]]
        /\ using' \in [Blocks -> 0 .. NPages]
        /\ blockId' \in 0 .. MaxId
    BY DEF Attached
  <2> QED BY <2>1, <1>1, <1>2, <1>3, <1>4, <1>5, <1>6, <1>7 DEF UftlTypeOK
<1> QED BY <1>7, <1>8 DEF TypeInv

\* What is read after attaching is on the page of the index.
LEMMA AttachedData ==
    ASSUME NEW f, NEW c, NEW n, NEW id, Attachable(f, c, n, id), Attached(f, c, n, id),
           NEW v \in Virt, NEW s \in Secs
    PROVE  /\ index'[v] # None => PageData(index[v])'[s] = AttachedValue(f, index', v, s)
           /\ index'[v] = None => AttachedValue(f, index', v, s) = Junk
           /\ AttachedValue(f, index', v, s) \in Vals \cup {Junk}
<1>1. CASE index'[v] = None BY <1>1 DEF AttachedValue
<1>2. CASE index'[v] # None
  <2>1. /\ leb'[index'[v].block].page[index'[v].page] = PageOf(f, index'[v])
        /\ Written1(PageOf(f, index'[v])) /\ index'[v] \in Pos
    BY <1>2, AttachedPage
  <2> DEFINE r == PageOf(f, index'[v])
  <2>2. r \notin {Empty, Torn} BY <2>1 DEF Written1
  <2>3. AttachedValue(f, index', v, s) = r.data[s] BY <1>2, <2>2 DEF AttachedValue, PageOf
  <2>4. PageData(index[v])' = r.data BY <2>1, <2>2 DEF PageData
  <2>5. r.data \in Data
    <3>1. index'[v].block \in Blocks /\ index'[v].page \in Pages BY <2>1 DEF Pos
    <3>2. f[index'[v].block] \in LebType BY <3>1 DEF Attachable
    <3> QED BY <2>1, <3>1, <3>2, PageType DEF PageOf
  <2>6. r.data[s] \in Vals \cup {Junk} BY <2>5 DEF Data
  <2> HIDE DEF r
  <2> QED BY <1>2, <2>3, <2>4, <2>6
<1> QED BY <1>1, <1>2

(***************************************************************************)
(* The LEBs after a power cut.                                             *)
(***************************************************************************)
\* The part of the invariant that describes the LEBs and the index.
LebInv == TypeInv /\ FlashInv /\ FifoInv /\ IdInv /\ OrderInv

\* The parts of cur_offset.
LEMMA CurType ==
    ASSUME TypeInv
    PROVE  /\ cur = At(cur.block, cur.page) /\ cur.block \in Blocks \cup {None}
           /\ cur.page \in Int /\ cur.page >= -1 /\ cur.page < NPages /\ NPages \in Nat /\ NPages > 0
           /\ blockId \in 0 .. MaxId /\ blockId \in Int
<1>1. cur \in [block : Blocks \cup {None}, page : -1 .. NPages - 1] /\ blockId \in 0 .. MaxId
  BY DEF TypeInv, UftlTypeOK
<1>2. MaxId \in Nat BY UftlSizes
<1> QED BY <1>1, <1>2, ZeroPage DEF At

\* An open block without pages is empty.
LEMMA OpenZero ==
    ASSUME NEW x \in LebType, NEW id, OpenLeb(x, 0, id)
    PROVE  x = EmptyLeb
<1>1. \A p \in Pages : ~(p < 0) BY DEF Pages
<1>2. \A p \in Pages : x.page[p] = Empty BY <1>1 DEF OpenLeb
<1>3. x.page = [p \in Pages |-> Empty]
  <2>1. DOMAIN x.page = Pages /\ x.page = [p \in Pages |-> x.page[p]] BY DEF LebType
  <2> QED BY <1>2, <2>1
<1>4. x = [page |-> x.page, log |-> x.log] BY DEF LebType
<1> QED BY <1>3, <1>4 DEF OpenLeb, EmptyLeb

\* The next page to be written is free.
LEMMA NextPageFree ==
    ASSUME TypeInv, FlashInv, FifoInv, op.pc # "log", NewPage.block # None
    PROVE  /\ NewPage \in Pos /\ NewPage = At(NewPage.block, NewPage.page)
           /\ leb[NewPage.block] \in LebType /\ leb[NewPage.block].log = Empty
           /\ leb[NewPage.block].page[NewPage.page] = Empty
           /\ IF NewBlock
              THEN /\ NewPage.page = 0 /\ fifo # <<>> /\ NewPage.block = Head(fifo)
                   /\ leb[NewPage.block] = EmptyLeb /\ NewPage.block # cur.block
                   /\ cur.page = NPages - 1
              ELSE /\ NewPage.block = cur.block /\ NewPage.page = cur.page + 1
                   /\ cur.page + 1 < NPages
                   /\ OpenLeb(leb[cur.block], cur.page + 1, blockId)
<1>0. leb \in [Blocks -> LebType] /\ fifo \in Seq(Blocks) BY DEF TypeInv, UftlTypeOK
<1>1. CASE NewBlock
  <2>1. NewPage = [block |-> IF fifo = <<>> THEN None ELSE Head(fifo), page |-> 0] BY <1>1 DEF NewPage
  <2>2. fifo # <<>> /\ NewPage = [block |-> Head(fifo), page |-> 0] BY <2>1
  <2>3. Head(fifo) = fifo[1] /\ 1 \in DOMAIN fifo BY <1>0, <2>2
  <2>4. Head(fifo) \in Blocks /\ leb[Head(fifo)] = EmptyLeb /\ Head(fifo) # cur.block
    BY <1>0, <2>3 DEF FifoInv
  <2>5. cur.page = NPages - 1 BY <1>1, CurType DEF NewBlock
  <2> QED BY <1>1, <2>2, <2>4, <2>5, EmptyPages, ZeroPage DEF Pos, At
<1>2. CASE ~NewBlock
  <2>0. cur \in [block : Blocks \cup {None}, page : -1 .. NPages - 1] BY DEF TypeInv, UftlTypeOK
  <2>1. NewPage = [cur EXCEPT !.page = cur.page + 1] BY <1>2 DEF NewPage
  <2>2. NewPage = [block |-> cur.block, page |-> cur.page + 1] BY <2>0, <2>1
  <2>3. cur.page + 1 # NPages /\ cur.page # NPages - 1 BY <1>2, CurType DEF NewBlock
  <2>4. cur.page + 1 \in Pages /\ cur.page + 1 < NPages /\ ~(cur.page + 1 < cur.page + 1)
    BY <2>3, CurType DEF Pages
  <2>5. cur.block \in Blocks /\ cur.block # None BY <2>2, CurType
  <2>6. OpenLeb(leb[cur.block], cur.page + 1, blockId) BY <2>3, <2>5 DEF FlashInv
  <2>7. leb[cur.block].log = Empty /\ leb[cur.block].page[cur.page + 1] = Empty
    BY <2>4, <2>6 DEF OpenLeb
  <2> QED BY <1>0, <1>2, <2>2, <2>4, <2>5, <2>6, <2>7 DEF Pos, At
<1> QED BY <1>1, <1>2

\* The LEBs a cut or a restart may leave.
TornIn(f, b) ==
    /\ NewPage.block = b /\ NewPage \in Pos
    /\ f[b].log = Empty /\ f[b].page[NewPage.page] = Torn
    /\ leb[b].page[NewPage.page] = Empty
    /\ \A p \in Pages : p # NewPage.page => f[b].page[p] = leb[b].page[p]
CutOf(f) ==
    /\ f \in [Blocks -> LebType] /\ op.pc # "log"
    /\ \A b \in Blocks : \/ f[b] = EmptyLeb /\ leb[b] = EmptyLeb
                         \/ f[b] = Media(b)
                         \/ TornIn(f, b)

\* A shutdown leaves what a cut may leave.
LEMMA RestartLebs ==
    ASSUME TypeInv, op.pc # "log"
    PROVE  CutOf(leb)
BY DEF TypeInv, UftlTypeOK, CutOf, Media

\* What a cut leaves on the LEBs, unless it hits a log page.
LEMMA CutLebsAre ==
    ASSUME TypeInv, FlashInv, FifoInv, NoLogCuts, "cut" \in Faults, NEW f \in CutLebs
    PROVE  CutOf(f)
<1>0. leb \in [Blocks -> LebType] /\ undone \in [Blocks -> LebType] BY DEF TypeInv, UftlTypeOK
<1>1. PICK g \in TornWrites, back \in SUBSET {b \in Blocks : undone[b] # EmptyLeb} :
        f = [b \in Blocks |-> IF g[b] = EmptyLeb /\ b \in back THEN undone[b] ELSE g[b]]
  BY DEF CutLebs
<1>2. {"cut_before_log"} \cap Faults = {} /\ {"cut_in_log"} \cap Faults = {} BY DEF NoLogCuts
<1>3. op.pc # "log"
  <2> SUFFICES ASSUME op.pc = "log" PROVE FALSE OBVIOUS
  <2>1. TornWrites = {} BY <1>2 DEF TornWrites
  <2> QED BY <1>1, <2>1
<1> DEFINE t == [leb EXCEPT ![NewPage.block].page[NewPage.page] = Torn]
<1>4. g = leb \/ (Writing /\ g = t) BY <1>1, <1>3 DEF TornWrites
<1>5. CASE g = leb
  <2>1. ASSUME NEW b \in Blocks PROVE (f[b] = EmptyLeb /\ leb[b] = EmptyLeb) \/ f[b] = Media(b)
    BY <1>1, <1>5 DEF Media
  <2>2. f \in [Blocks -> LebType] BY <1>0, <1>1, <1>5
  <2> QED BY <1>3, <2>1, <2>2 DEF CutOf
<1>6. CASE Writing /\ g = t
  <2> DEFINE nb == NewPage.block
             np == NewPage.page
  <2>1. NewPage.block # None BY <1>6 DEF Writing
  <2>2. NewPage \in Pos /\ leb[nb] \in LebType /\ leb[nb].log = Empty /\ leb[nb].page[np] = Empty
    BY <1>3, <2>1, NextPageFree
  <2>3. nb \in Blocks /\ np \in Pages BY <2>2 DEF Pos
  <2> HIDE DEF nb, np
  <2>4. g = [leb EXCEPT ![nb].page[np] = Torn] BY <1>6 DEF nb, np
  <2>5. \A b \in Blocks : b # nb => g[b] = leb[b] BY <1>0, <2>3, <2>4
  <2>6. g[nb] = [leb[nb] EXCEPT !.page[np] = Torn] BY <1>0, <2>3, <2>4
  <2>7. g[nb].log = leb[nb].log /\ g[nb].page = [leb[nb].page EXCEPT ![np] = Torn]
    BY <2>2, <2>6 DEF LebType
  <2>8. leb[nb].page \in [Pages -> PageRec \cup {Empty, Torn}] BY <2>2 DEF LebType
  <2>9. g[nb].page[np] = Torn /\ \A p \in Pages : p # np => g[nb].page[p] = leb[nb].page[p]
    BY <2>3, <2>7, <2>8
  <2>10. g[nb] \in LebType
    <3>1. [leb[nb].page EXCEPT ![np] = Torn] \in [Pages -> PageRec \cup {Empty, Torn}] BY <2>8
    <3>2. g[nb] = [page |-> [leb[nb].page EXCEPT ![np] = Torn], log |-> leb[nb].log]
      BY <2>2, <2>6 DEF LebType
    <3> QED BY <2>2, <3>1, <3>2 DEF LebType
  <2>11. g[nb] # EmptyLeb BY <2>3, <2>9, EmptyPages, UftlSentinels
  <2>12. g \in [Blocks -> LebType]
    <3>1. DOMAIN g = Blocks /\ g = [b \in Blocks |-> g[b]] BY <1>0, <2>4
    <3> QED BY <1>0, <2>5, <2>10, <3>1
  <2>13. f \in [Blocks -> LebType] BY <1>0, <1>1, <2>12
  <2>14. ASSUME NEW b \in Blocks, b # nb PROVE (f[b] = EmptyLeb /\ leb[b] = EmptyLeb) \/ f[b] = Media(b)
    BY <1>1, <2>5, <2>14 DEF Media
  <2>15. f[nb] = g[nb] BY <1>1, <2>3, <2>11
  <2>16. TornIn(f, nb) BY <2>2, <2>7, <2>9, <2>15 DEF TornIn, nb, np
  <2> QED BY <1>3, <2>13, <2>14, <2>16 DEF CutOf
<1> QED BY <1>4, <1>5, <1>6

\* The pages a cut leaves are those on the LEBs.
LEMMA CutPages ==
    ASSUME LebInv, NEW f, CutOf(f), NEW i \in Pos
    PROVE  /\ Written1(PageOf(f, i)) => MediaPage(i) = PageOf(f, i)
           /\ Written1(PageOf(leb, i)) => PageOf(f, i) = PageOf(leb, i) /\ MediaPage(i) = PageOf(leb, i)
<1> DEFINE b == i.block
           p == i.page
<1>1. b \in Blocks /\ p \in Pages BY DEF Pos
<1>2. leb[b] = EmptyLeb => ~Written1(leb[b].page[p]) BY <1>1, EmptyPages
<1>3. Written1(leb[b].page[p]) => Media(b) = leb[b] BY <1>2 DEF Media
<1>4. CASE f[b] = EmptyLeb /\ leb[b] = EmptyLeb
  <2>1. ~Written1(f[b].page[p]) BY <1>1, <1>4, EmptyPages
  <2> QED BY <1>2, <1>4, <2>1 DEF PageOf
<1>5. CASE f[b] = Media(b) BY <1>3, <1>5 DEF PageOf, MediaPage
<1>6. CASE TornIn(f, b)
  <2>1. CASE p = NewPage.page
    <3>1. ~Written1(f[b].page[p]) /\ ~Written1(leb[b].page[p]) BY <1>6, <2>1 DEF TornIn, Written1
    <3> QED BY <3>1 DEF PageOf
  <2>2. CASE p # NewPage.page
    <3>1. f[b].page[p] = leb[b].page[p] BY <1>1, <1>6, <2>2 DEF TornIn
    <3> QED BY <1>3, <3>1 DEF PageOf, MediaPage
  <2> QED BY <2>1, <2>2
<1> QED BY <1>1, <1>4, <1>5, <1>6 DEF CutOf

\* The block that is open, with its pages.
OpenBlock == IF cur.block # None /\ cur.page >= 0 /\ cur.page + 1 < NPages THEN cur.block ELSE None

\* A block that was full before the cut.
LEMMA CutFull ==
    ASSUME LebInv, NEW f, CutOf(f), NEW b \in Blocks, FullLeb(f[b])
    PROVE  f[b] = Media(b) /\ b # OpenBlock
<1>1. f[b] # EmptyLeb BY ZeroPage, EmptyPages DEF FullLeb
<1>2. ~TornIn(f, b) BY DEF FullLeb, TornIn, Written1, Pos
<1>3. f[b] = Media(b) BY <1>1, <1>2 DEF CutOf
<1>4. ASSUME b = OpenBlock PROVE FALSE
  <2>1. b = cur.block /\ cur.block # None /\ cur.page >= 0 /\ cur.page + 1 < NPages
    BY <1>4, UftlSentinels DEF OpenBlock
  <2>2. cur.page # NPages - 1 BY <2>1, CurType DEF LebInv
  <2>3. OpenLeb(leb[b], cur.page + 1, blockId) BY <2>1, <2>2 DEF LebInv, FlashInv
  <2>4. Written1(leb[b].page[0])
    <3>1. 0 < cur.page + 1 BY <2>1, CurType DEF LebInv
    <3> QED BY <2>3, <3>1, ZeroPage DEF OpenLeb
  <2>5. leb[b] # EmptyLeb BY <2>4, EmptyPages, ZeroPage
  <2>6. Media(b) = leb[b] BY <2>5 DEF Media
  <2> QED BY <1>3, <2>3, <2>6 DEF OpenLeb, FullLeb, Written1
<1> QED BY <1>3, <1>4

\* Attaching can make sense of what a cut leaves.
LEMMA CutAttachable ==
    ASSUME LebInv, NEW f, CutOf(f)
    PROVE  Attachable(f, OpenBlock, cur.page + 1, blockId)
<1> DEFINE c == OpenBlock
           n == cur.page + 1
<1>0. /\ cur.block \in Blocks \cup {None} /\ cur.page \in Int /\ cur.page >= -1 /\ cur.page < NPages
      /\ NPages \in Nat /\ NPages > 0 /\ blockId \in Int
      /\ leb \in [Blocks -> LebType] /\ op.pc # "log"
  BY CurType DEF LebInv, TypeInv, UftlTypeOK, CutOf
<1>1. ASSUME NEW b \in Blocks, b # c PROVE f[b] = EmptyLeb \/ FullLeb(f[b]) \/ TornLeb(f[b])
  <2>1. leb[b] = EmptyLeb \/ FullLeb(leb[b])
    <3>1. CASE b # cur.block BY <3>1 DEF LebInv, FlashInv
    <3>2. CASE b = cur.block /\ cur.page = NPages - 1
      BY <1>0, <3>2, UftlSentinels DEF LebInv, FlashInv
    <3>3. CASE b = cur.block /\ cur.page # NPages - 1
      <4>1. cur.page = -1 BY <1>0, <1>1, <3>3, UftlSentinels DEF OpenBlock
      <4>2. OpenLeb(leb[b], 0, blockId) BY <3>3, <4>1, UftlSentinels DEF LebInv, FlashInv
      <4> QED BY <1>0, <4>2, OpenZero
    <3> QED BY <3>1, <3>2, <3>3
  <2>2. CASE f[b] = EmptyLeb BY <2>2
  <2>3. CASE f[b] = Media(b)
    <3>1. undone[b] = EmptyLeb \/ FullLeb(undone[b]) \/ TornLeb(undone[b]) BY DEF LebInv, FlashInv
    <3> QED BY <2>1, <2>3, <3>1 DEF Media
  <2>4. CASE TornIn(f, b)
    <3>1. NewPage.block # None BY <2>4, UftlSentinels DEF TornIn
    <3>2. /\ NewPage.block = b
          /\ IF NewBlock THEN NewPage.page = 0 /\ leb[b] = EmptyLeb
             ELSE NewPage.block = cur.block /\ NewPage.page = cur.page + 1 /\ cur.page + 1 < NPages
                  /\ OpenLeb(leb[cur.block], cur.page + 1, blockId)
      BY <1>0, <2>4, <3>1, NextPageFree DEF LebInv, TornIn
    <3>3. NewPage.page = 0 /\ leb[b] = EmptyLeb
      <4>1. CASE NewBlock BY <3>2, <4>1
      <4>2. CASE ~NewBlock
        <5>1. cur.block = b /\ cur.page + 1 < NPages BY <3>2, <4>2
        <5>2. cur.page = -1 BY <1>0, <1>1, <5>1, UftlSentinels DEF OpenBlock
        <5>3. cur.page + 1 = 0 BY <5>2
        <5>4. OpenLeb(leb[b], 0, blockId) /\ NewPage.page = 0 BY <3>2, <4>2, <5>1, <5>3
        <5> QED BY <1>0, <5>4, OpenZero
      <4> QED BY <4>1, <4>2
    <3>4. TornLeb(f[b])
      <4>1. f[b].log = Empty /\ f[b].page[0] = Torn
            /\ \A p \in Pages : p # 0 => f[b].page[p] = leb[b].page[p]
        BY <2>4, <3>3 DEF TornIn
      <4> QED BY <3>3, <4>1, EmptyPages DEF TornLeb
    <3> QED BY <3>4
  <2> QED BY <2>2, <2>3, <2>4 DEF CutOf
<1>2. ASSUME c # None
      PROVE  /\ c \in Blocks /\ n \in Pages /\ n > 0 /\ f[c].log = Empty
             /\ \A p \in Pages :
                 /\ p < n => Written1(f[c].page[p]) /\ f[c].page[p].id = blockId
                 /\ p = n => f[c].page[p] \in {Empty, Torn}
                 /\ p > n => f[c].page[p] = Empty
             /\ \A b \in Blocks : FullLeb(f[b]) => f[b].log.id < blockId
  <2>1. c = cur.block /\ cur.block \in Blocks /\ cur.page >= 0 /\ cur.page + 1 < NPages
    BY <1>0, <1>2 DEF OpenBlock
  <2>2. OpenLeb(leb[c], n, blockId)
    <3>1. cur.page # NPages - 1 BY <1>0, <2>1
    <3> QED BY <2>1, <3>1, UftlSentinels DEF LebInv, FlashInv
  <2>3. c \in Blocks /\ n \in Pages /\ n > 0 /\ n \in Int /\ 0 < n BY <1>0, <2>1 DEF Pages
  <2> HIDE DEF n, c
  <2>4. Written1(leb[c].page[0]) BY <2>2, <2>3, ZeroPage DEF OpenLeb
  <2>5. leb[c] # EmptyLeb BY <2>4, EmptyPages, ZeroPage
  <2>6. Media(c) = leb[c] BY <2>5 DEF Media
  <2>7. f[c] = leb[c] \/ TornIn(f, c) BY <2>3, <2>5, <2>6 DEF CutOf
  <2>8. f[c].log = Empty BY <2>2, <2>7 DEF TornIn, OpenLeb
  <2>9. TornIn(f, c) => NewPage.page = n
    <3> SUFFICES ASSUME TornIn(f, c) PROVE NewPage.page = n OBVIOUS
    <3>1. NewPage.block = c /\ NewPage.block # None BY <2>3, UftlSentinels DEF TornIn
    <3>2. ~NewBlock /\ NewPage.page = cur.page + 1
      BY <1>0, <2>5, <3>1, NextPageFree DEF LebInv
    <3> QED BY <3>2 DEF n
  <2>10. ASSUME NEW p \in Pages
         PROVE  /\ p < n => Written1(f[c].page[p]) /\ f[c].page[p].id = blockId
                /\ p = n => f[c].page[p] \in {Empty, Torn}
                /\ p > n => f[c].page[p] = Empty
    <3>1. p \in Int BY DEF Pages
    <3>2. /\ p < n => Written1(leb[c].page[p]) /\ leb[c].page[p].id = blockId
          /\ ~(p < n) => leb[c].page[p] = Empty
      BY <2>2 DEF OpenLeb
    <3>3. p # n => f[c].page[p] = leb[c].page[p] BY <2>7, <2>9 DEF TornIn
    <3>4. p = n => f[c].page[p] \in {Empty, Torn} BY <2>3, <2>7, <2>9, <3>2 DEF TornIn
    <3> QED BY <2>3, <3>1, <3>2, <3>3, <3>4
  <2>11. ASSUME NEW b \in Blocks, FullLeb(f[b]) PROVE f[b].log.id < blockId
    <3>1. f[b] = Media(b) /\ b # c BY <2>11, CutFull DEF c
    <3>2. b # cur.block BY <3>1, <2>1 DEF c
    <3> QED BY <2>11, <3>1, <3>2 DEF LebInv, IdInv
  <2> QED BY <2>3, <2>8, <2>10, <2>11
<1>3. ASSUME NEW b \in Blocks, NEW d \in Blocks, b # d, FullLeb(f[b]), FullLeb(f[d])
      PROVE  f[b].log.id # f[d].log.id
  <2>1. f[b] = Media(b) /\ f[d] = Media(d) BY <1>3, CutFull
  <2> QED BY <1>3, <2>1 DEF LebInv, IdInv
<1> HIDE DEF c, n
<1>4. f \in [Blocks -> LebType] BY DEF CutOf
<1>5. Attachable(f, c, n, blockId) BY <1>1, <1>2, <1>3, <1>4 DEF Attachable
<1> QED BY <1>5 DEF c, n

\* The newest page of a virtual sector: the pending one, or the one of the
\* index.
LEMMA CutIndex ==
    ASSUME LebInv, NEW f, CutOf(f), NEW v \in Virt,
           op.pc = "index" => cur.block # None /\ cur.page >= 0
    PROVE  LET pend == op.pc = "index" /\ leb[cur.block].page[cur.page].sector = v IN
           /\ pend => IndexOf(f)[v] = cur /\ PageOf(f, cur) = PageOf(leb, cur)
                      /\ Written1(PageOf(leb, cur)) /\ cur \in Pos
           /\ ~pend => IndexOf(f)[v] = index[v]
           /\ ~pend /\ index[v] # None =>
                  PageOf(f, index[v]) = PageOf(leb, index[v]) /\ Written1(PageOf(leb, index[v]))
                  /\ PageOf(leb, index[v]).sector = v
<1>0. Attachable(f, OpenBlock, cur.page + 1, blockId) BY CutAttachable
<1>1. TypeInv /\ op.pc # "log" /\ index \in [Virt -> Pos \cup {None}] /\ leb \in [Blocks -> LebType]
  BY DEF LebInv, TypeInv, UftlTypeOK, CutOf
<1>2. Pending <=> op.pc = "index" BY <1>1 DEF Pending
<1>3. CASE op.pc = "index" /\ leb[cur.block].page[cur.page].sector = v
  <2>0. cur = At(cur.block, cur.page) /\ cur.block \in Blocks /\ cur.page \in Int /\ cur.page >= 0
        /\ cur.page < NPages /\ blockId \in Int
    BY <1>1, <1>3, CurType
  <2>1. cur.page \in Pages /\ cur \in Pos BY <2>0, ZeroPage DEF Pages, At, Pos
  <2>2. Written1(leb[cur.block].page[cur.page]) /\ leb[cur.block].page[cur.page].id = blockId
    <3>1. CASE cur.page = NPages - 1
      <4>1. FullLeb(leb[cur.block]) /\ leb[cur.block].log.id = blockId
        BY <1>1, <1>3, <3>1 DEF LebInv, FlashInv
      <4> QED BY <2>1, <4>1 DEF FullLeb
    <3>2. CASE cur.page # NPages - 1
      <4>1. OpenLeb(leb[cur.block], cur.page + 1, blockId) BY <1>3, <3>2 DEF LebInv, FlashInv
      <4>2. cur.page < cur.page + 1 BY <2>0
      <4> QED BY <2>1, <4>1, <4>2 DEF OpenLeb
    <3> QED BY <3>1, <3>2
  <2>3. PageOf(leb, cur) = leb[cur.block].page[cur.page] BY DEF PageOf
  <2>4. PageOf(f, cur) = PageOf(leb, cur) BY <2>1, <2>2, <2>3, CutPages
  <2>5. cur \in PagesFor(f, v) BY <1>3, <2>1, <2>2, <2>3, <2>4 DEF PagesFor
  <2>6. ASSUME NEW j \in PagesFor(f, v)
        PROVE  PageOf(f, j).id < PageOf(f, cur).id \/ (cur.block = j.block /\ j.page <= cur.page)
    <3>1. j \in Pos /\ Written1(PageOf(f, j)) BY DEF PagesFor
    <3>2. j.block \in Blocks /\ j.page \in Pages /\ j.page \in Int BY <1>0, <3>1, FoundTypes
    <3>3. CASE j.block = cur.block
      <4>1. CASE cur.page = NPages - 1 BY <2>0, <3>2, <3>3, <4>1, ZeroPage DEF Pages
      <4>2. CASE cur.page # NPages - 1
        <5>1. cur.page + 1 < NPages BY <2>0, <4>2, ZeroPage
        <5>2. OpenBlock = cur.block BY <1>3, <2>0, <5>1 DEF OpenBlock
        <5>3. j.page < cur.page + 1 BY <1>0, <3>1, <3>2, <3>3, <5>2, UftlSentinels, LebKinds DEF PageOf
        <5> QED BY <2>0, <3>2, <3>3, <5>3
      <4> QED BY <4>1, <4>2
    <3>4. CASE j.block # cur.block
      <4>1. j.block # OpenBlock BY <3>2, <3>4, UftlSentinels DEF OpenBlock
      <4>2. FullLeb(f[j.block]) BY <1>0, <3>1, <3>2, <4>1, LebKinds DEF PageOf
      <4>3. f[j.block] = Media(j.block) BY <3>2, <4>2, CutFull
      <4>4. f[j.block].log.id < blockId BY <3>2, <3>4, <4>2, <4>3 DEF LebInv, IdInv
      <4>5. PageOf(f, j).id = f[j.block].log.id BY <3>2, <4>2 DEF FullLeb, PageOf
      <4> QED BY <2>2, <2>3, <2>4, <4>4, <4>5
    <3> QED BY <3>3, <3>4
  <2>7. NewestAt(f, cur, v) BY <2>5, <2>6 DEF NewestAt
  <2>8. IndexOf(f)[v] = cur BY <1>0, <2>7, IndexAt
  <2> QED BY <1>3, <2>1, <2>2, <2>3, <2>4, <2>8
<1>4. CASE ~(op.pc = "index" /\ leb[cur.block].page[cur.page].sector = v)
  <2>1. ASSUME NEW j \in PagesFor(f, v)
        PROVE  index[v] # None /\ Older(j, index[v]) /\ MediaPage(j) = PageOf(f, j)
    <3>1. j \in Pos /\ Written1(PageOf(f, j)) /\ PageOf(f, j).sector = v BY DEF PagesFor
    <3>2. MediaPage(j) = PageOf(f, j) BY <3>1, CutPages
    <3>3. ~(Pending /\ j = cur)
      <4> SUFFICES ASSUME Pending, j = cur PROVE FALSE OBVIOUS
      <4>1. op.pc = "index" /\ cur.block # None /\ cur.page >= 0 BY <1>2
      <4>2. leb[cur.block] # EmptyLeb
        <5>1. CASE cur.page = NPages - 1
          <6>1. FullLeb(leb[cur.block]) BY <1>1, <4>1, <5>1 DEF LebInv, FlashInv
          <6> QED BY <6>1, EmptyPages, ZeroPage DEF FullLeb
        <5>2. CASE cur.page # NPages - 1
          <6>1. OpenLeb(leb[cur.block], cur.page + 1, blockId) BY <4>1, <5>2 DEF LebInv, FlashInv
          <6>2. 0 < cur.page + 1 BY <1>1, <4>1, CurType
          <6>3. Written1(leb[cur.block].page[0]) BY <6>1, <6>2, ZeroPage DEF OpenLeb
          <6> QED BY <6>3, EmptyPages, ZeroPage
        <5> QED BY <5>1, <5>2
      <4>3. MediaPage(j) = leb[cur.block].page[cur.page] BY <4>2 DEF MediaPage, Media
      <4> QED BY <1>4, <3>1, <3>2, <4>1, <4>3
    <3>4. /\ index[MediaPage(j).sector] # None
          /\ Older(j, index[MediaPage(j).sector])
      BY <3>1, <3>2, <3>3 DEF LebInv, OrderInv
    <3> QED BY <3>1, <3>2, <3>4
  <2>2. CASE index[v] = None
    <3>1. PagesFor(f, v) = {} BY <2>1, <2>2
    <3>2. IndexOf(f)[v] = None BY <1>0, <3>1, IndexNone
    <3> QED BY <1>4, <2>2, <3>2
  <2>3. CASE index[v] # None
    <3> DEFINE i == index[v]
    <3>1. i \in Pos BY <1>1, <2>3
    <3>2. Written1(PageOf(leb, i)) /\ PageOf(leb, i).sector = v
      BY <2>3 DEF LebInv, OrderInv, Holds, Written1, PageOf
    <3>3. PageOf(f, i) = PageOf(leb, i) /\ MediaPage(i) = PageOf(leb, i) BY <3>1, <3>2, CutPages
    <3>4. i \in PagesFor(f, v) BY <3>1, <3>2, <3>3 DEF PagesFor
    <3>5. ASSUME NEW j \in PagesFor(f, v)
          PROVE  PageOf(f, j).id < PageOf(f, i).id \/ (i.block = j.block /\ j.page <= i.page)
      BY <2>1, <3>3 DEF Older
    <3>6. NewestAt(f, i, v) BY <3>4, <3>5 DEF NewestAt
    <3>7. IndexOf(f)[v] = i BY <1>0, <3>6, IndexAt
    <3> QED BY <1>4, <2>3, <3>2, <3>3, <3>7
  <2> QED BY <2>2, <2>3
<1> QED BY <1>3, <1>4

UftlAll == /\ LebInv /\ StateInv /\ ControlInv /\ CallInv /\ BufInv /\ DataInv /\ DurableInv

\* What is durable is found by attaching.
LEMMA SurvivesIs ==
    ASSUME UftlAll, NEW f, CutOf(f), NEW v \in Virt, NEW s \in Secs, Junk \notin durable[v][s]
    PROVE  AttachedValue(f, IndexOf(f), v, s) \in durable[v][s]
<1>0. LebInv /\ op.pc # "log" BY DEF UftlAll, CutOf
<1>1. op.pc = "index" => cur.block # None /\ cur.page >= 0 BY DEF UftlAll, ControlInv
<1>2. /\ want[v][s] \in durable[v][s] /\ want[v][s] # Junk
      /\ index[v] # None /\ PageData(index[v])[s] \in durable[v][s]
  BY DEF UftlAll, DurableInv
<1> DEFINE ix == IndexOf(f)
           i == ix[v]
           pend == op.pc = "index" /\ leb[cur.block].page[cur.page].sector = v
<1>3. /\ pend => i = cur /\ PageOf(f, cur) = PageOf(leb, cur) /\ Written1(PageOf(leb, cur)) /\ cur \in Pos
      /\ ~pend => i = index[v]
      /\ ~pend /\ index[v] # None => PageOf(f, index[v]) = PageOf(leb, index[v]) /\ Written1(PageOf(leb, index[v]))
  BY <1>0, <1>1, CutIndex
<1>4. AttachedValue(f, ix, v, s) =
        IF i = None \/ ~Written1(PageOf(f, i)) THEN Junk ELSE PageOf(f, i).data[s]
  BY DEF AttachedValue, PageOf, Written1
<1>5. CASE pend
  <2>1. cur # None BY <1>3, <1>5, UftlSentinels
  <2>2. AttachedValue(f, ix, v, s) = PageOf(leb, cur).data[s] BY <1>3, <1>4, <1>5, <2>1
  <2>3. pool[op.buf].sector = v /\ Agrees(leb[cur.block].page[cur.page].data, v)
    BY <1>5 DEF UftlAll, DataInv, Pending
  <2>4. PageOf(leb, cur).data[s] = want[v][s] BY <1>2, <2>3 DEF Agrees, PageOf
  <2> QED BY <1>2, <2>2, <2>4
<1>6. CASE ~pend
  <2>1. AttachedValue(f, ix, v, s) = PageOf(leb, index[v]).data[s] BY <1>2, <1>3, <1>4, <1>6
  <2>2. PageData(index[v]) = PageOf(leb, index[v]).data BY <1>2, <1>3, <1>6 DEF PageData, PageOf, Written1
  <2> QED BY <1>2, <2>1, <2>2
<1> QED BY <1>5, <1>6

\* Attaching restores the invariant, whatever is found.
LEMMA AttachKeeps ==
    ASSUME NEW f, NEW c, NEW n, NEW id, Attachable(f, c, n, id), Attached(f, c, n, id),
           want' \in [Virt -> Data], misread' \in BOOLEAN,
           durable' \in [Virt -> [Secs -> SUBSET (Vals \cup {Junk})]],
           \A v \in Virt, s \in Secs : OnFlash(v, s)', DurableInv'
    PROVE  UftlAll'
<1>1. TypeInv' BY AttachedType
<1>2. FlashInv' /\ FifoInv' /\ IdInv' /\ OrderInv' /\ StateInv'
  BY AttachedFlash, AttachedFifo, AttachedIds, AttachedOrder, AttachedState
<1>3. ControlInv' /\ CallInv' /\ BufInv' /\ ~Pending' /\ ~AfterIndex' BY AttachedControl
<1>4. DataInv' BY <1>3 DEF DataInv
<1> QED BY <1>1, <1>2, <1>3, <1>4 DEF UftlAll, LebInv

\* After a power cut the invariant holds again.
LEMMA PowerCutKeeps ==
    ASSUME UftlAll, NoLogCuts, PowerCut, misread \in BOOLEAN
    PROVE  UftlAll'
<1>1. PICK f \in CutLebs :
        /\ \A e \in Entries(f) : e.id < MaxId
        /\ Attach(f)
        /\ want' = [v \in Virt |-> [s \in Secs |-> AttachedValue(f, index', v, s)]]
        /\ durable' = [v \in Virt |-> [s \in Secs |-> {want'[v][s]}]]
  BY DEF PowerCut
<1>2. "cut" \in Faults /\ misread' = misread BY DEF PowerCut
<1>3. LebInv /\ TypeInv /\ FlashInv /\ FifoInv BY DEF UftlAll, LebInv
<1>4. CutOf(f) BY <1>2, <1>3, CutLebsAre
<1> DEFINE c == OpenBlock
           n == cur.page + 1
           id == blockId
<1>5. Attachable(f, c, n, id) BY <1>3, <1>4, CutAttachable
<1> HIDE DEF c, n, id
<1>6. Attached(f, c, n, id) BY <1>1, <1>5, AttachIs
<1>7. \A v \in Virt, s \in Secs :
        /\ index'[v] # None => PageData(index[v])'[s] = AttachedValue(f, index', v, s)
        /\ index'[v] = None => AttachedValue(f, index', v, s) = Junk
        /\ AttachedValue(f, index', v, s) \in Vals \cup {Junk}
  BY <1>5, <1>6, AttachedData
<1>8. want' \in [Virt -> Data] BY <1>1, <1>7 DEF Data
<1>9. durable' \in [Virt -> [Secs -> SUBSET (Vals \cup {Junk})]] BY <1>1, <1>8 DEF Data
<1>10. \A v \in Virt, s \in Secs : want'[v][s] = AttachedValue(f, index', v, s) /\ durable'[v][s] = {want'[v][s]}
  BY <1>1
<1>11. \A v \in Virt, s \in Secs : OnFlash(v, s)' BY <1>7, <1>10 DEF OnFlash
<1>12. DurableInv'
  <2>1. ASSUME NEW v \in Virt, NEW s \in Secs, Junk \notin durable'[v][s]
        PROVE  /\ want'[v][s] \in durable'[v][s]
               /\ index'[v] # None /\ PageData(index[v])'[s] \in durable'[v][s]
    BY <2>1, <1>7, <1>10
  <2> QED BY <1>2, <2>1 DEF DurableInv
<1> QED BY <1>2, <1>5, <1>6, <1>8, <1>9, <1>11, <1>12, AttachKeeps

\* After a shutdown with clean buffers it does too.
LEMMA RestartKeeps ==
    ASSUME UftlAll, Restart, misread \in BOOLEAN
    PROVE  UftlAll'
<1>1. /\ op.pc = "idle" /\ \A i \in Bufs : pool[i].dirty = {}
      /\ \A e \in Entries(leb) : e.id < MaxId
      /\ Attach(leb) /\ want' = want /\ durable' = durable /\ misread' = misread
  BY DEF Restart, hist
<1>2. LebInv /\ TypeInv BY DEF UftlAll, LebInv
<1>3. CutOf(leb) BY <1>1, <1>2, RestartLebs
<1> DEFINE c == OpenBlock
           n == cur.page + 1
           id == blockId
<1>4. Attachable(leb, c, n, id) BY <1>2, <1>3, CutAttachable
<1> HIDE DEF c, n, id
<1>5. Attached(leb, c, n, id) BY <1>1, <1>4, AttachIs
<1>6. \A v \in Virt : index'[v] = index[v]
  <2>1. \A v \in Virt : IndexOf(leb)[v] = index[v] BY <1>1, <1>2, <1>3, CutIndex
  <2> QED BY <2>1, <1>5 DEF Attached
<1>7. ASSUME NEW v \in Virt, NEW s \in Secs, index[v] # None
      PROVE  PageData(index[v])'[s] = PageData(index[v])[s]
  <2>1. /\ leb'[index'[v].block].page[index'[v].page] = PageOf(leb, index'[v])
    BY <1>4, <1>5, <1>6, <1>7, AttachedPage
  <2> QED BY <1>6, <2>1 DEF PageData, PageOf
<1>8. \A v \in Virt, s \in Secs : OnFlash(v, s)
  <2>1. \A v \in Virt : \A i \in Holding(v) : pool[i].dirty = {} BY <1>1 DEF Holding
  <2> QED BY <2>1 DEF UftlAll, DataInv
<1>9. \A v \in Virt, s \in Secs : OnFlash(v, s)' BY <1>1, <1>6, <1>7, <1>8 DEF OnFlash
<1>10. DurableInv'
  <2>1. DurableInv BY DEF UftlAll
  <2> QED BY <2>1, <1>1, <1>6, <1>7 DEF DurableInv
<1>11. want' \in [Virt -> Data] /\ durable' \in [Virt -> [Secs -> SUBSET (Vals \cup {Junk})]]
  BY <1>1, <1>2 DEF TypeInv, UftlTypeOK
<1> QED BY <1>1, <1>4, <1>5, <1>9, <1>10, <1>11, AttachKeeps

(***************************************************************************)
(* What the invariant says of reads and tables.                            *)
(***************************************************************************)
\* The parts of a page buffer.
LEMMA PoolType ==
    ASSUME TypeInv, NEW i \in Bufs
    PROVE  /\ pool[i].sector \in Virt \cup {None} /\ pool[i].dirty \subseteq Secs
           /\ pool[i].data \in Data
BY DEF TypeInv, UftlTypeOK

\* ReadsLatest, from the data in the buffers and on the pages.
LEMMA AllReads ==
    ASSUME UftlAll, NEW v \in Virt, NEW s \in Secs, want[v][s] # Junk
    PROVE  ReadValue(v, s) = want[v][s]
<1>1. TypeInv /\ BufInv /\ DataInv BY DEF UftlAll, LebInv
<1>2. CASE Holding(v) = {}
  <2>1. OnFlash(v, s) BY <1>1, <1>2 DEF DataInv
  <2> QED BY <1>2, <2>1 DEF ReadValue, OnFlash
<1>3. CASE Holding(v) # {}
  <2>1. PICK i \in Bufs : pool[i].sector = v BY <1>3 DEF Holding
  <2>2. v # None BY UftlSentinels
  <2>3. \A j \in Holding(v) : j = i BY <1>1, <2>1, <2>2 DEF Holding, BufInv
  <2>4. Holding(v) = {i} BY <2>1, <2>3 DEF Holding
  <2>5. Min({i}) = i
    <3>1. i \in Int BY DEF Bufs
    <3> QED BY <3>1 DEF Min
  <2> DEFINE b == pool[i]
  <2>6. ReadValue(v, s) = IF s \in b.dirty THEN b.data[s] ELSE Merged(b)[s]
    BY <1>3, <2>4, <2>5 DEF ReadValue
  <2>7. s \in b.dirty \/ b.read => b.data[s] = want[v][s] BY <1>1, <2>1, <2>2 DEF BufInv
  <2>8. s \notin b.dirty => OnFlash(v, s) BY <1>1, <2>1, <2>4 DEF DataInv
  <2>9. b.sector = v BY <2>1
  <2> HIDE DEF b
  <2>10. CASE s \in b.dirty BY <2>6, <2>7, <2>10
  <2>11. CASE s \notin b.dirty
    <3>1. index[v] # None /\ PageData(index[v])[s] = want[v][s] BY <2>8, <2>11 DEF OnFlash
    <3>2. CASE b.read BY <2>6, <2>7, <2>9, <2>11, <3>2 DEF Merged
    <3>3. CASE ~b.read
      <4>1. Merged(b) = [t \in Secs |-> IF t \in b.dirty THEN b.data[t] ELSE PageData(index[v])[t]]
        BY <2>9, <3>1, <3>3 DEF Merged
      <4> QED BY <2>6, <2>11, <3>1, <4>1
    <3> QED BY <3>2, <3>3
  <2> QED BY <2>10, <2>11
<1> QED BY <1>2, <1>3

\* UftlInv, from the parts of the invariant.
LEMMA AllTables ==
    ASSUME UftlAll
    PROVE  UftlTypeOK /\ TablesAgree /\ LogTruthful /\ RecycledUnused
<1>1. /\ TypeInv /\ FlashInv /\ FifoInv /\ OrderInv /\ StateInv /\ ControlInv
      /\ cur.block \in Blocks \cup {None}
  BY CurType DEF UftlAll, LebInv
<1>2. UftlTypeOK BY <1>1 DEF TypeInv
<1>3. TablesAgree
  <2> SUFFICES ASSUME op.pc = "idle" PROVE TablesAgree BY DEF TablesAgree
  <2>1. ~Scrubbing BY DEF Scrubbing
  <2>2. \A v \in Virt : index[v] # None =>
            Holds(index[v], v) /\ state[index[v].block][index[v].page] = "using"
    BY <1>1 DEF OrderInv, StateInv
  <2>3. cur.block # None =>
            \A b \in Blocks, p \in Pages : state[b][p] = "using" =>
                \E v \in Virt : index[v] = [block |-> b, page |-> p]
    BY <1>1, <2>1 DEF StateInv, At
  <2>4. \A b \in Blocks : using[b] = UsingOf(state, b) BY <1>1 DEF StateInv
  <2>5. /\ \A i \in DOMAIN fifo : leb[fifo[i]] = EmptyLeb
        /\ \A i, j \in DOMAIN fifo : fifo[i] = fifo[j] => i = j
    BY <1>1 DEF FifoInv
  <2> QED BY <2>2, <2>3, <2>4, <2>5 DEF TablesAgree
<1>4. LogTruthful
  <2> SUFFICES ASSUME NEW b \in Blocks, leb[b].log \notin {Empty, Torn}, NEW p \in Pages
               PROVE  /\ leb[b].page[p] \notin {Empty, Torn}
                      /\ leb[b].log.sectors[p] = leb[b].page[p].sector
                      /\ leb[b].log.id = leb[b].page[p].id
    BY DEF LogTruthful
  <2>1. leb[b] # EmptyLeb BY EmptyPages
  <2>2. FullLeb(leb[b])
    <3>1. CASE b # cur.block BY <1>1, <2>1, <3>1 DEF FlashInv
    <3>2. CASE b = cur.block
      <4>1. cur.block # None BY <3>2, UftlSentinels
      <4>2. ~OpenLeb(leb[cur.block], cur.page + 1, blockId) BY <3>2 DEF OpenLeb
      <4> QED BY <1>1, <3>2, <4>1, <4>2 DEF FlashInv
    <3> QED BY <3>1, <3>2
  <2> QED BY <2>2 DEF FullLeb, Written1
<1>5. RecycledUnused BY <1>1 DEF RecycledUnused, ControlInv
<1> QED BY <1>2, <1>3, <1>4, <1>5

(***************************************************************************)
(* Steps that change neither LEBs nor index.                               *)
(***************************************************************************)

LebSame == UNCHANGED <<leb, undone, index, cur, blockId, logPage, fifo>>

\* The LEBs and the index are as they were.
LEMMA QuietLebs ==
    ASSUME LebInv, LebSame, op.pc \notin {"log", "index"}, op'.pc \notin {"log", "index"}
    PROVE  FlashInv' /\ FifoInv' /\ IdInv' /\ OrderInv'
<1>1. ~Pending /\ ~Pending' BY DEF Pending
<1>2. FlashInv' BY DEF LebInv, FlashInv, LebSame
<1>3. FifoInv' BY DEF LebInv, FifoInv, LebSame
<1>4. \A b : Media(b)' = Media(b) BY DEF Media, LebSame
<1>5. IdInv' BY <1>4 DEF LebInv, IdInv, LebSame
<1>6. \A i : MediaPage(i)' = MediaPage(i) BY <1>4 DEF MediaPage
<1>7. OrderInv'
  <2>1. ASSUME NEW i \in Pos, Written1(MediaPage(i)')
        PROVE  index'[MediaPage(i)'.sector] # None /\ Older(i, index[MediaPage(i).sector])'
    <3>1. Written1(MediaPage(i)) /\ MediaPage(i)' = MediaPage(i) /\ index' = index
      BY <2>1, <1>6 DEF LebSame
    <3> DEFINE j == index[MediaPage(i).sector]
    <3>2. index[MediaPage(i).sector] # None /\ Older(i, j) BY <1>1, <3>1 DEF LebInv, OrderInv
    <3>3. MediaPage(index[MediaPage(i).sector])' = MediaPage(j)
      <4>1. MediaPage(index[MediaPage(i).sector])' = Media(index[MediaPage(i).sector].block)'.page[j.page]
        BY <3>1 DEF MediaPage
      <4>2. Media(index[MediaPage(i).sector].block)' = Media(j.block)
        BY <3>1 DEF Media, LebSame
      <4> QED BY <4>1, <4>2 DEF MediaPage
    <3>4. Older(i, index[MediaPage(i).sector])'
      BY <3>1, <3>2, <3>3 DEF Older
    <3> QED BY <3>1, <3>2, <3>4
  <2>2. \A v \in Virt : index'[v] # None => Holds(index[v], v)'
    BY <1>1 DEF LebInv, OrderInv, LebSame, Holds
  <2> QED BY <1>1, <2>1, <2>2 DEF OrderInv
<1> QED BY <1>2, <1>3, <1>5, <1>7

\* And so are the states of the pages.
LEMMA QuietState ==
    ASSUME StateInv, UNCHANGED <<leb, index, cur, state, using>>,
           op.pc \notin {"log", "index"}, op'.pc \notin {"log", "index"},
           Scrubbing => Scrubbing' /\ op'.block = op.block /\ op'.page = op.page
    PROVE  StateInv'
<1>1. ~Pending /\ ~Pending' BY DEF Pending
<1> QED BY <1>1 DEF StateInv

\* The pages do not change either.
LEMMA QuietPages ==
    ASSUME LebSame
    PROVE  /\ \A v : PageData(index[v])' = PageData(index[v]) /\ index'[v] = index[v]
           /\ want' = want => \A v, s : OnFlash(v, s)' <=> OnFlash(v, s)
BY DEF LebSame, PageData, OnFlash

\* What a flush leaves.
LEMMA FlushedKeeps ==
    ASSUME Flushed, want' = want,
           "cut" \notin Faults => \A v \in Virt, s \in Secs : Junk \in durable[v][s],
           \A v \in Virt, s \in Secs : Junk \notin durable[v][s] =>
               /\ want[v][s] \in durable[v][s]
               /\ index'[v] # None /\ PageData(index[v])'[s] \in durable[v][s],
           \A v \in Virt, s \in Secs :
               (\A i \in Bufs : pool'[i].sector = v => s \notin pool'[i].dirty) => OnFlash(v, s)'
    PROVE  DurableInv'
<1>1. CASE durable' = durable BY <1>1 DEF DurableInv
<1>2. CASE /\ "cut" \in Faults
           /\ durable' = [v \in Virt |-> IF LeftDirty(v) THEN durable[v] ELSE [s \in Secs |-> {want[v][s]}]]
  <2>1. ASSUME NEW v \in Virt, NEW s \in Secs, Junk \notin durable'[v][s]
        PROVE  /\ want'[v][s] \in durable'[v][s]
               /\ index'[v] # None /\ PageData(index[v])'[s] \in durable'[v][s]
    <3>1. CASE LeftDirty(v)
      <4>1. durable'[v][s] = durable[v][s] BY <1>2, <3>1
      <4> QED BY <2>1, <4>1
    <3>2. CASE ~LeftDirty(v)
      <4>1. durable'[v][s] = {want[v][s]} BY <1>2, <3>2
      <4>2. OnFlash(v, s)' BY <3>2 DEF LeftDirty
      <4> QED BY <2>1, <4>1, <4>2 DEF OnFlash
    <3> QED BY <3>1, <3>2
  <2> QED BY <1>2, <2>1 DEF DurableInv
<1> QED BY <1>1, <1>2 DEF Flushed

\* The values a flush makes durable.
LEMMA FlushedType ==
    ASSUME Flushed, want \in [Virt -> Data],
           durable \in [Virt -> [Secs -> SUBSET (Vals \cup {Junk})]]
    PROVE  durable' \in [Virt -> [Secs -> SUBSET (Vals \cup {Junk})]]
<1>1. \A v \in Virt, s \in Secs : want[v][s] \in Vals \cup {Junk} BY DEF Data
<1>2. CASE durable' = durable BY <1>2
<1>3. CASE durable' = [v \in Virt |-> IF LeftDirty(v) THEN durable[v] ELSE [s \in Secs |-> {want[v][s]}]]
  <2>1. \A v \in Virt : [s \in Secs |-> {want[v][s]}] \in [Secs -> SUBSET (Vals \cup {Junk})] BY <1>1
  <2> HIDE DEF LeftDirty
  <2> QED BY <1>3, <2>1
<1> QED BY <1>2, <1>3 DEF Flushed

\* Return is idle, or goes on with the next buffer of a flush.
OpType == [pc : Pcs, call : CallType, buf : Bufs, block : Blocks \cup {None},
           page : 0 .. NPages, after : {"idle", "index", "count", "scrub", "gc"}, room : Int]

\* No operation is executed.
LEMMA IdleType == Idle \in OpType /\ Idle.pc = "idle"
<1>1. 0 \in Virt /\ 0 \in Secs /\ 0 \in Bufs /\ 0 \in 0 .. NPages BY UftlSizes DEF Virt, Secs, Bufs
<1>2. NoCall \in CallType BY <1>1 DEF NoCall, CallType
<1> QED BY <1>1, <1>2 DEF Idle, OpType, Pcs

\* The operation ends or goes on with the next buffer.
LEMMA ReturnIs ==
    ASSUME op \in OpType
    PROVE  /\ Return \in OpType
           /\ Return.pc = "idle" \/ (Return.pc = "sync" /\ Return.call.kind = "flush")
<1>1. CASE op.call.kind = "flush" /\ op.buf < NBufs - 1
  <2>1. op.buf + 1 \in Bufs BY <1>1, UftlSizes DEF Bufs, OpType
  <2>2. Return = [op EXCEPT !.pc = "sync", !.buf = op.buf + 1] BY <1>1 DEF Return
  <2>3. "sync" \in Pcs BY DEF Pcs
  <2>4. Return \in OpType BY <2>1, <2>2, <2>3 DEF OpType
  <2>5. Return.pc = "sync" /\ Return.call = op.call BY <2>2 DEF OpType
  <2> QED BY <1>1, <2>4, <2>5
<1>2. CASE ~(op.call.kind = "flush" /\ op.buf < NBufs - 1)
  <2>1. Return = Idle BY <1>2 DEF Return
  <2> QED BY <2>1, IdleType
<1> QED BY <1>1, <1>2

(***************************************************************************)
(* Steps that change neither LEBs nor tables: ends and failures.           *)
(***************************************************************************)
PoolTypes == [Bufs -> [sector : Virt \cup {None}, read : BOOLEAN, dirty : SUBSET Secs, data : Data]]
DurableTypes == [Virt -> [Secs -> SUBSET (Vals \cup {Junk})]]

\* Durable values, seen from the index after the step.
DurableKept ==
    /\ "cut" \notin Faults => \A v \in Virt, s \in Secs : Junk \in durable[v][s]
    /\ \A v \in Virt, s \in Secs : Junk \notin durable[v][s] =>
        /\ want[v][s] \in durable[v][s]
        /\ index'[v] # None /\ PageData(index[v])'[s] \in durable[v][s]

\* What the buffers other than op.buf do not hold is on flash after the step.
OthersOnFlash ==
    \A v \in Virt, s \in Secs :
        (\A i \in Bufs : i # op.buf /\ pool[i].sector = v => s \notin pool[i].dirty) => OnFlash(v, s)'

\* Outside the write path nothing is to be said of the operation.
LEMMA AtRest ==
    ASSUME op'.pc \in {"idle", "sync", "resume"}
    PROVE  ControlInv' /\ ~Pending' /\ ~AfterIndex' /\ ~Scrubbing'
<1>1. ~Pending' /\ ~AfterIndex' /\ ~Scrubbing' BY DEF Pending, AfterIndex, Scrubbing
<1> QED BY <1>1 DEF ControlInv

\* The end of sync_one_buf().
LEMMA EndSyncIs ==
    ASSUME TypeInv, BufInv, CallInv, op.pc \notin {"idle", "resume"}, EndSync,
           OthersOnFlash, DurableKept, \A v \in Virt : index[v] # None => index'[v] # None
    PROVE  /\ op' \in OpType /\ op'.pc \in {"idle", "sync", "resume"}
           /\ pool' \in PoolTypes /\ durable' \in DurableTypes
           /\ want' = want /\ misread' = misread
           /\ ControlInv' /\ CallInv' /\ BufInv' /\ DataInv' /\ DurableInv'
<1>0. /\ op \in OpType /\ pool \in PoolTypes /\ want \in [Virt -> Data] /\ durable \in DurableTypes
      /\ op.buf \in Bufs
  BY DEF TypeInv, UftlTypeOK, OpType, PoolTypes, DurableTypes
<1>1. /\ pool' = [pool EXCEPT ![op.buf] = NoBuf] /\ Flushed /\ want' = want /\ misread' = misread
      /\ op' = IF op.call.kind \in {"write", "read"} THEN [op EXCEPT !.pc = "resume"] ELSE Return
  BY DEF EndSync
<1>2. NoBuf \in [sector : Virt \cup {None}, read : BOOLEAN, dirty : SUBSET Secs, data : Data]
  BY DEF NoBuf, Data
<1>3. pool' \in PoolTypes BY <1>0, <1>1, <1>2 DEF PoolTypes
<1>4. pool'[op.buf] = NoBuf /\ \A i \in Bufs : i # op.buf => pool'[i] = pool[i]
  BY <1>0, <1>1 DEF PoolTypes
<1>5. NoBuf.sector = None /\ NoBuf.dirty = {} BY DEF NoBuf
<1>6. durable' \in DurableTypes BY <1>0, <1>1, FlushedType DEF DurableTypes
<1>7. /\ op' \in OpType /\ op'.pc \in {"idle", "sync", "resume"}
      /\ op'.pc = "resume" => op' = [op EXCEPT !.pc = "resume"] /\ op.call.kind \in {"write", "read"}
      /\ op'.pc = "sync" => op'.call.kind = "flush"
  <2>1. CASE op.call.kind \in {"write", "read"}
    <3>1. op' = [op EXCEPT !.pc = "resume"] BY <1>1, <2>1
    <3>2. op' \in OpType /\ op'.pc = "resume" BY <1>0, <3>1 DEF OpType, Pcs
    <3> QED BY <2>1, <3>1, <3>2
  <2>2. CASE op.call.kind \notin {"write", "read"}
    <3>1. op' = Return BY <1>1, <2>2
    <3> QED BY <1>0, <3>1, ReturnIs
  <2> QED BY <2>1, <2>2
<1>8. ControlInv' /\ ~Pending' /\ ~AfterIndex' BY <1>7, AtRest
<1>9. CallInv'
  <2>1. CASE op'.pc = "resume"
    <3>1. op' = [op EXCEPT !.pc = "resume"] /\ op.call.kind \in {"write", "read"} BY <1>7, <2>1
    <3>2. op'.buf = op.buf /\ op'.call = op.call /\ op'.call.kind = op.call.kind /\ op.call.v \in Virt
      BY <1>0, <3>1 DEF OpType, CallType
    <3>3. /\ op.buf = 0 /\ Holding(op.call.v) = {}
          /\ op.call.kind = "read" => index[op.call.v] # None
          /\ op.call.kind = "write" => op.call.x \in Vals
      BY <3>1 DEF CallInv
    <3>4. op.call.v # None BY <3>2, UftlSentinels
    <3>5. Holding(op.call.v)' = {}
      <4>1. \A i \in Bufs : pool'[i].sector # op.call.v BY <1>4, <1>5, <3>3, <3>4 DEF Holding
      <4> QED BY <3>2, <4>1 DEF Holding
    <3>6. pool'[0].sector = None BY <1>4, <1>5, <3>3
    <3> QED BY <2>1, <3>1, <3>2, <3>3, <3>5, <3>6 DEF CallInv
  <2>2. CASE op'.pc # "resume" BY <1>7, <2>2 DEF CallInv
  <2> QED BY <2>1, <2>2
<1>10. BufInv'
  <2>1. \A i \in Bufs : pool'[i].sector = None => pool'[i] = NoBuf BY <1>4 DEF BufInv
  <2>2. \A i, j \in Bufs : pool'[i].sector = pool'[j].sector /\ pool'[i].sector # None => i = j
    BY <1>4, <1>5 DEF BufInv
  <2>3. \A i \in Bufs : pool'[i].sector # None => i # op.buf /\ pool'[i] = pool[i] BY <1>4, <1>5
  <2> QED BY <1>1, <2>1, <2>2, <2>3 DEF BufInv
<1>11. ASSUME NEW v \in Virt, NEW s \in Secs, \A i \in Bufs : pool'[i].sector = v => s \notin pool'[i].dirty
       PROVE  OnFlash(v, s)'
  <2>1. \A i \in Bufs : i # op.buf /\ pool[i].sector = v => s \notin pool[i].dirty BY <1>4, <1>11
  <2> QED BY <2>1 DEF OthersOnFlash
<1>12. DataInv'
  <2>1. ASSUME NEW v \in Virt, NEW s \in Secs, \A i \in Holding(v)' : s \notin pool'[i].dirty
        PROVE  OnFlash(v, s)'
    BY <2>1, <1>11 DEF Holding
  <2> QED BY <1>8, <2>1 DEF DataInv
<1>13. DurableInv' BY <1>1, <1>11, FlushedKeeps DEF DurableKept
<1> QED BY <1>1, <1>3, <1>6, <1>7, <1>8, <1>9, <1>10, <1>12, <1>13

\* A step that fails: the buffer stays.
LEMMA FailIs ==
    ASSUME TypeInv, Fail
    PROVE  /\ op' \in OpType /\ op'.pc \in {"idle", "sync"}
           /\ durable' \in DurableTypes /\ want' = want /\ misread' = misread
           /\ ControlInv' /\ ~Pending' /\ ~AfterIndex' /\ CallInv'
<1>0. op \in OpType /\ want \in [Virt -> Data] /\ durable \in DurableTypes
  BY DEF TypeInv, UftlTypeOK, OpType, DurableTypes
<1>1. op' = Return /\ Flushed /\ want' = want /\ misread' = misread BY DEF Fail
<1>2. op' \in OpType /\ (op'.pc = "idle" \/ (op'.pc = "sync" /\ op'.call.kind = "flush"))
  BY <1>0, <1>1, ReturnIs
<1>3. ControlInv' /\ ~Pending' /\ ~AfterIndex' BY <1>2, AtRest
<1>4. CallInv' BY <1>2 DEF CallInv
<1>5. durable' \in DurableTypes BY <1>0, <1>1, FlushedType DEF DurableTypes
<1> QED BY <1>1, <1>2, <1>3, <1>4, <1>5

\* The types, for a step that changes neither LEBs nor tables.
LEMMA QuietType ==
    ASSUME TypeInv, LebSame, UNCHANGED <<state, using>>, checkCount' \in 0 .. NPages + 1,
           op' \in OpType, pool' \in PoolTypes, want' \in [Virt -> Data], durable' \in DurableTypes,
           misread' \in BOOLEAN
    PROVE  TypeInv'
<1>1. UftlTypeOK'
  <2>1. op'.pc \in Pcs /\ op'.buf \in Bufs BY DEF OpType
  <2> QED BY <2>1 DEF TypeInv, UftlTypeOK, LebSame, PoolTypes, DurableTypes
<1> QED BY <1>1 DEF TypeInv, OpType

Quiet == LebSame /\ UNCHANGED <<state, using>>

\* A step between two steps that write, and what it has to show.
LEMMA QuietKeeps ==
    ASSUME UftlAll, Quiet, op.pc \notin {"log", "index"}, op'.pc \notin {"log", "index"},
           Scrubbing => Scrubbing' /\ op'.block = op.block /\ op'.page = op.page,
           checkCount' \in 0 .. NPages + 1, op' \in OpType, pool' \in PoolTypes,
           want' \in [Virt -> Data], durable' \in DurableTypes, misread' \in BOOLEAN,
           ControlInv', CallInv', BufInv', DataInv', DurableInv'
    PROVE  UftlAll'
<1>1. LebInv /\ TypeInv /\ StateInv /\ LebSame BY DEF UftlAll, LebInv, Quiet
<1>2. TypeInv' BY <1>1, QuietType DEF Quiet
<1>3. FlashInv' /\ FifoInv' /\ IdInv' /\ OrderInv' BY <1>1, QuietLebs
<1>4. StateInv' BY <1>1, QuietState DEF Quiet, LebSame
<1> QED BY <1>2, <1>3, <1>4 DEF UftlAll, LebInv

\* The end of sync_one_buf() without a change of the index.
LEMMA QuietEnd ==
    ASSUME UftlAll, Quiet, EndSync, op.pc \in {"sync", "count", "gc"},
           checkCount' \in 0 .. NPages + 1, misread \in BOOLEAN,
           op.pc = "sync" => pool[op.buf].dirty = {}
    PROVE  UftlAll'
<1>1. TypeInv /\ BufInv /\ CallInv /\ DataInv /\ DurableInv /\ LebSame BY DEF UftlAll, LebInv, Quiet
<1>2. op.buf \in Bufs BY <1>1 DEF TypeInv, UftlTypeOK
<1>3. want' = want BY DEF EndSync
<1>4. /\ \A v : PageData(index[v])' = PageData(index[v]) /\ index'[v] = index[v]
      /\ \A v, s : OnFlash(v, s)' <=> OnFlash(v, s)
  BY <1>1, <1>3, QuietPages
<1>5. OthersOnFlash
  <2> SUFFICES ASSUME NEW v \in Virt, NEW s \in Secs,
                      \A i \in Bufs : i # op.buf /\ pool[i].sector = v => s \notin pool[i].dirty
               PROVE  OnFlash(v, s)
    BY <1>4 DEF OthersOnFlash
  <2>1. CASE op.pc = "sync"
    <3>1. \A i \in Holding(v) : s \notin pool[i].dirty BY <2>1 DEF Holding
    <3> QED BY <1>1, <3>1 DEF DataInv
  <2>2. CASE op.pc # "sync" /\ pool[op.buf].sector = v
    <3>1. AfterIndex BY <2>2 DEF AfterIndex
    <3> QED BY <1>1, <2>2, <3>1 DEF DataInv
  <2>3. CASE op.pc # "sync" /\ pool[op.buf].sector # v
    <3>1. \A i \in Holding(v) : s \notin pool[i].dirty BY <2>3 DEF Holding
    <3> QED BY <1>1, <3>1 DEF DataInv
  <2> QED BY <2>1, <2>2, <2>3
<1>6. DurableKept BY <1>1, <1>4 DEF DurableKept, DurableInv
<1>7. /\ op' \in OpType /\ op'.pc \in {"idle", "sync", "resume"}
      /\ pool' \in PoolTypes /\ durable' \in DurableTypes
      /\ want' = want /\ misread' = misread
      /\ ControlInv' /\ CallInv' /\ BufInv' /\ DataInv' /\ DurableInv'
  BY <1>1, <1>4, <1>5, <1>6, EndSyncIs
<1>8. ~Scrubbing BY DEF Scrubbing
<1>9. want' \in [Virt -> Data] BY <1>1, <1>3 DEF TypeInv, UftlTypeOK
<1> QED BY <1>7, <1>8, <1>9, QuietKeeps

\* A clean buffer is freed.
LEMMA SyncCleanKeeps ==
    ASSUME UftlAll, SyncClean, misread \in BOOLEAN
    PROVE  UftlAll'
<1>1. /\ op.pc = "sync" /\ pool[op.buf].dirty = {} /\ EndSync /\ Quiet /\ checkCount' = checkCount
  BY DEF SyncClean, ram, Quiet, LebSame
<1>2. checkCount' \in 0 .. NPages + 1 BY <1>1 DEF UftlAll, LebInv, TypeInv, UftlTypeOK
<1> QED BY <1>1, <1>2, QuietEnd

\* garbage_checking() returns.
LEMMA GcDoneKeeps ==
    ASSUME UftlAll, GcDone, misread \in BOOLEAN
    PROVE  UftlAll'
<1>1. op.pc = "gc" /\ EndSync /\ Quiet /\ checkCount' = 0 BY DEF GcDone, Quiet, LebSame
<1>2. checkCount' \in 0 .. NPages + 1 BY <1>1, ZeroPage
<1> QED BY <1>1, <1>2, QuietEnd

(***************************************************************************)
(* Steps on buffers.                                                       *)
(***************************************************************************)
\* The data of the page a virtual sector is read from.
LEMMA PageDataType ==
    ASSUME TypeInv, NEW v \in Virt, index[v] # None
    PROVE  index[v] \in Pos /\ PageData(index[v]) \in Data
<1>1. index[v] \in Pos /\ leb \in [Blocks -> LebType] BY DEF TypeInv, UftlTypeOK
<1> DEFINE x == leb[index[v].block]
           p == index[v].page
<1>2. x \in LebType /\ p \in Pages BY <1>1 DEF Pos
<1>3. Junk \in Vals \cup {Junk} OBVIOUS
<1>4. PageData(index[v]) = IF x.page[p] \in {Empty, Torn} THEN [s \in Secs |-> Junk] ELSE x.page[p].data
  BY DEF PageData
<1> HIDE DEF x, p
<1>5. x.page[p] \notin {Empty, Torn} => x.page[p].data \in Data BY <1>2, PageType DEF Written1
<1> QED BY <1>1, <1>4, <1>5 DEF Data

\* The sectors of a buffer with those on flash are what was written last.
LEMMA MergedIs ==
    ASSUME TypeInv, BufInv, DataInv, NEW i \in Bufs, pool[i].sector # None
    PROVE  Merged(pool[i]) \in Data /\ Agrees(Merged(pool[i]), pool[i].sector)
<1> DEFINE b == pool[i]
           v == b.sector
<1>1. v \in Virt /\ b.dirty \subseteq Secs /\ b.data \in Data BY PoolType
<1>2. \A s \in Secs : s \in b.dirty \/ b.read => (want[v][s] # Junk => b.data[s] = want[v][s])
  BY DEF BufInv
<1>3. ASSUME NEW s \in Secs, s \notin b.dirty PROVE OnFlash(v, s)
  <2>1. \A j \in Holding(v) : j = i BY <1>1, UftlSentinels DEF Holding, BufInv
  <2> QED BY <1>1, <1>3, <2>1 DEF DataInv
<1>4. index[v] # None => PageData(index[v]) \in Data BY <1>1, PageDataType
<1>5. Merged(b) = IF b.read \/ index[v] = None THEN b.data
                  ELSE [s \in Secs |-> IF s \in b.dirty THEN b.data[s] ELSE PageData(index[v])[s]]
  BY DEF Merged
<1> HIDE DEF b, v
<1>6. CASE b.read \/ index[v] = None
  <2>1. Merged(b) = b.data BY <1>5, <1>6
  <2>2. ASSUME NEW s \in Secs, want[v][s] # Junk PROVE b.data[s] = want[v][s]
    <3>1. CASE s \in b.dirty \/ b.read BY <1>2, <2>2, <3>1
    <3>2. CASE ~(s \in b.dirty \/ b.read) BY <1>3, <1>6, <2>2, <3>2 DEF OnFlash
    <3> QED BY <3>1, <3>2
  <2>3. Merged(b) \in Data BY <1>1, <2>1
  <2>4. Agrees(Merged(b), v) BY <2>1, <2>2 DEF Agrees
  <2> QED BY <2>3, <2>4 DEF b, v
<1>7. CASE ~(b.read \/ index[v] = None)
  <2> DEFINE d == PageData(index[v])
  <2>0. d \in Data BY <1>4, <1>7
  <2>1. \A s \in Secs : s \notin b.dirty => (want[v][s] # Junk => d[s] = want[v][s])
    BY <1>3 DEF OnFlash
  <2>2. Merged(b) = [s \in Secs |-> IF s \in b.dirty THEN b.data[s] ELSE d[s]] BY <1>5, <1>7
  <2> HIDE DEF d
  <2>3. Merged(b) \in Data BY <1>1, <2>0, <2>2 DEF Data
  <2>4. Agrees(Merged(b), v) BY <1>2, <2>1, <2>2 DEF Agrees
  <2> QED BY <2>3, <2>4 DEF b, v
<1> QED BY <1>6, <1>7

\* The buffer a sector is kept in, or a free one.
LEMMA BufChoice ==
    ASSUME BufInv, NEW v \in Virt, BufFor(v) # {}
    PROVE  /\ Min(BufFor(v)) \in Bufs
           /\ Holding(v) = {} => pool[Min(BufFor(v))] = NoBuf
           /\ Holding(v) # {} => /\ pool[Min(BufFor(v))].sector = v
                                 /\ Holding(v) = {Min(BufFor(v))}
<1>1. NBufs - 1 \in Nat BY UftlSizes
<1>2. BufFor(v) \subseteq 0 .. NBufs - 1 BY DEF BufFor, Holding, Bufs
<1>3. \E m \in BufFor(v) : \A k \in BufFor(v) : m <= k BY <1>1, <1>2, LeastNat
<1>4. Min(BufFor(v)) \in BufFor(v) BY <1>3 DEF Min
<1> DEFINE i == Min(BufFor(v))
<1>5. i \in BufFor(v) BY <1>4
<1> HIDE DEF i
<1>6. i \in Bufs BY <1>2, <1>5 DEF Bufs
<1>7. Holding(v) = {} => pool[i].sector = None BY <1>5 DEF BufFor
<1>8. Holding(v) # {} => pool[i].sector = v BY <1>5 DEF BufFor, Holding
<1>9. \A j \in Holding(v) : Holding(v) # {} => j = i BY <1>6, <1>8, UftlSentinels DEF BufInv, Holding
<1>10. Holding(v) # {} => Holding(v) = {i} BY <1>9
<1> QED BY <1>6, <1>7, <1>8, <1>10 DEF i, BufInv

\* A step that only begins an operation.
LEMMA BeginKeeps ==
    ASSUME UftlAll, Quiet, op.pc = "idle", UNCHANGED <<checkCount, pool, want, durable>>,
           NEW kind \in {"write", "read", "queue", "flush"}, NEW v \in Virt, NEW s \in Secs,
           NEW x \in Vals \cup {Junk}, NEW i \in Bufs,
           Begin(kind, v, s, x, i),
           kind \in {"write", "read"} => i = 0 /\ Holding(v) = {},
           kind = "read" => index[v] # None,
           kind = "write" => x \in Vals, misread' \in BOOLEAN
    PROVE  UftlAll'
<1>0. TypeInv /\ BufInv /\ DataInv /\ DurableInv /\ LebSame BY DEF UftlAll, LebInv, Quiet
<1> DEFINE call == [kind |-> kind, v |-> v, s |-> s, x |-> x]
<1>1. op' = [Idle EXCEPT !.pc = "sync", !.buf = i, !.call = call] BY DEF Begin
<1>2. call \in CallType /\ call.kind = kind /\ call.v = v /\ call.x = x BY DEF CallType
<1> HIDE DEF call
<1>3. Idle \in OpType BY IdleType
<1>4. op' \in OpType /\ op'.pc = "sync" /\ op'.buf = i /\ op'.call = call
  BY <1>1, <1>2, <1>3 DEF OpType, Pcs
<1>5. ControlInv' /\ ~Pending' /\ ~AfterIndex' BY <1>4, AtRest
<1>6. \A w : Holding(w)' = Holding(w) BY DEF Holding
<1>7. CallInv' BY <1>2, <1>4, <1>6, <1>0 DEF CallInv, LebSame
<1>8. BufInv' BY <1>0 DEF BufInv
<1>9. /\ \A w : PageData(index[w])' = PageData(index[w]) /\ index'[w] = index[w]
      /\ \A w, t : OnFlash(w, t)' <=> OnFlash(w, t)
  BY <1>0, QuietPages
<1>10. DataInv' BY <1>0, <1>5, <1>6, <1>9 DEF DataInv
<1>11. DurableInv' BY <1>0, <1>9 DEF DurableInv
<1>12. ~Scrubbing BY DEF Scrubbing
<1>13. pool' \in PoolTypes /\ checkCount' \in 0 .. NPages + 1 /\ want' \in [Virt -> Data]
       /\ durable' \in DurableTypes
  BY <1>0 DEF TypeInv, UftlTypeOK, PoolTypes, DurableTypes
<1> QED BY <1>4, <1>5, <1>7, <1>8, <1>10, <1>11, <1>12, <1>13, QuietKeeps

\* The delayed work takes a buffer.
LEMMA QueueFlushKeeps ==
    ASSUME UftlAll, NEW i \in Bufs, QueueFlush(i), misread \in BOOLEAN
    PROVE  UftlAll'
<1>1. /\ op.pc = "idle" /\ Begin("queue", 0, 0, Junk, i) /\ Quiet
      /\ UNCHANGED <<checkCount, pool, want, durable, misread>>
  BY DEF QueueFlush, ram, hist, Quiet, LebSame
<1>2. 0 \in Virt /\ 0 \in Secs BY UftlSizes DEF Virt, Secs
<1> QED BY <1>1, <1>2, BeginKeeps

\* ubiblock_flush() is called.
LEMMA AllFlushKeeps ==
    ASSUME UftlAll, AllFlush, misread \in BOOLEAN
    PROVE  UftlAll'
<1>1. /\ op.pc = "idle" /\ Begin("flush", 0, 0, Junk, 0) /\ Quiet
      /\ UNCHANGED <<checkCount, pool, want, durable, misread>>
  BY DEF AllFlush, ram, hist, Quiet, LebSame
<1>2. 0 \in Virt /\ 0 \in Secs /\ 0 \in Bufs BY UftlSizes DEF Virt, Secs, Bufs
<1> QED BY <1>1, <1>2, BeginKeeps

\* A step to idle that changes one buffer.
LEMMA IdleKeeps ==
    ASSUME UftlAll, Quiet, op.pc \in {"idle", "resume"}, op' = Idle, checkCount' = checkCount,
           pool' \in PoolTypes, want' \in [Virt -> Data], durable' \in DurableTypes,
           misread' \in BOOLEAN, BufInv', DurableInv',
           \A v \in Virt, s \in Secs : (\A i \in Holding(v)' : s \notin pool'[i].dirty) => OnFlash(v, s)'
    PROVE  UftlAll'
<1>1. op' \in OpType /\ op'.pc = "idle" BY IdleType
<1>2. ControlInv' /\ ~Pending' /\ ~AfterIndex' BY <1>1, AtRest
<1>3. CallInv' BY <1>1 DEF CallInv
<1>4. DataInv' BY <1>2 DEF DataInv
<1>5. ~Scrubbing BY DEF Scrubbing
<1>6. checkCount' \in 0 .. NPages + 1 BY DEF UftlAll, LebInv, TypeInv, UftlTypeOK
<1> QED BY <1>1, <1>2, <1>3, <1>4, <1>5, <1>6, QuietKeeps

\* A sector is stored in a buffer.
LEMMA StoreKeeps ==
    ASSUME UftlAll, Quiet, op.pc \in {"idle", "resume"}, checkCount' = checkCount,
           NEW v \in Virt, NEW s \in Secs, NEW x \in Vals, BufFor(v) # {}, StoreSector(v, s, x),
           misread \in BOOLEAN
    PROVE  UftlAll'
<1> DEFINE i == Min(BufFor(v))
<1>0. TypeInv /\ BufInv /\ DataInv /\ DurableInv /\ LebSame BY DEF UftlAll, LebInv, Quiet
<1>1. /\ pool' = [pool EXCEPT ![i].sector = v, ![i].data[s] = x,
                              ![i].dirty = IF Holding(v) # {} THEN @ \cup {s} ELSE {s}]
      /\ op' = Idle /\ want' = [want EXCEPT ![v][s] = x] /\ misread' = misread
      /\ durable' = IF "cut" \in Faults /\ Junk \notin durable[v][s]
                    THEN [durable EXCEPT ![v][s] = @ \cup {x}] ELSE durable
  BY DEF StoreSector
<1>2. /\ i \in Bufs
      /\ Holding(v) = {} => pool[i] = NoBuf
      /\ Holding(v) # {} => pool[i].sector = v /\ Holding(v) = {i}
  BY <1>0, BufChoice
<1> HIDE DEF i
<1>3. pool \in PoolTypes /\ want \in [Virt -> Data] /\ durable \in DurableTypes
  BY <1>0 DEF TypeInv, UftlTypeOK, PoolTypes, DurableTypes
<1> DEFINE b == pool[i]
           c == pool'[i]
<1>4. /\ c = [b EXCEPT !.sector = v, !.data = [b.data EXCEPT ![s] = x],
                       !.dirty = IF Holding(v) # {} THEN b.dirty \cup {s} ELSE {s}]
      /\ \A j \in Bufs : j # i => pool'[j] = pool[j]
      /\ b \in [sector : Virt \cup {None}, read : BOOLEAN, dirty : SUBSET Secs, data : Data]
  BY <1>1, <1>2, <1>3 DEF PoolTypes
<1>5. /\ c.sector = v /\ c.read = b.read /\ c.data = [b.data EXCEPT ![s] = x]
      /\ c.dirty = IF Holding(v) # {} THEN b.dirty \cup {s} ELSE {s}
      /\ c \in [sector : Virt \cup {None}, read : BOOLEAN, dirty : SUBSET Secs, data : Data]
  <2>1. [b.data EXCEPT ![s] = x] \in Data BY <1>4 DEF Data
  <2>2. (IF Holding(v) # {} THEN b.dirty \cup {s} ELSE {s}) \in SUBSET Secs BY <1>4
  <2> HIDE DEF b, c
  <2> QED BY <1>4, <2>1, <2>2
<1>6. pool' \in PoolTypes
  <2>1. pool' = [pool EXCEPT ![i] = c] BY <1>1, <1>2, <1>3 DEF PoolTypes
  <2> HIDE DEF c
  <2> QED BY <1>2, <1>3, <1>5, <2>1 DEF PoolTypes
<1>7. /\ want'[v][s] = x
      /\ \A w \in Virt, t \in Secs : w # v \/ t # s => want'[w][t] = want[w][t]
      /\ want' \in [Virt -> Data]
  BY <1>1, <1>3 DEF Data
<1>8. durable' \in DurableTypes
  <2>1. CASE durable' = durable BY <1>3, <2>1
  <2>2. CASE durable' = [durable EXCEPT ![v][s] = @ \cup {x}] BY <1>3, <2>2 DEF DurableTypes
  <2> QED BY <1>1, <2>1, <2>2
<1>9. v # None BY UftlSentinels
<1>10. b.sector = v => Holding(v) # {} BY <1>2 DEF Holding
<1>11. \A w : PageData(index[w])' = PageData(index[w]) /\ index'[w] = index[w]
  BY <1>0, QuietPages
<1>12. b.data \in Data BY <1>4
<1> HIDE DEF b, c
<1>13. BufInv'
  <2>0. b = pool[i] /\ c = pool'[i] BY DEF b, c
  <2>1. \A j \in Bufs : pool'[j].sector = None => pool'[j] = NoBuf
    BY <1>0, <1>4, <1>5, <1>9, <2>0 DEF BufInv
  <2>2. ASSUME NEW j \in Bufs, j # i PROVE pool'[j].sector # v
    <3>1. CASE Holding(v) = {} BY <1>4, <2>2, <3>1 DEF Holding
    <3>2. CASE Holding(v) # {} BY <1>2, <1>4, <2>2, <3>2 DEF Holding
    <3> QED BY <3>1, <3>2
  <2>3. \A j, k \in Bufs : pool'[j].sector = pool'[k].sector /\ pool'[j].sector # None => j = k
    <3> SUFFICES ASSUME NEW j \in Bufs, NEW k \in Bufs,
                        pool'[j].sector = pool'[k].sector, pool'[j].sector # None
                 PROVE  j = k
      OBVIOUS
    <3>1. CASE j = i \/ k = i BY <1>5, <2>0, <2>2, <3>1
    <3>2. CASE j # i /\ k # i
      <4>1. pool'[j] = pool[j] /\ pool'[k] = pool[k] BY <1>4, <3>2
      <4> QED BY <1>0, <4>1 DEF BufInv
    <3> QED BY <3>1, <3>2
  <2>4. ASSUME NEW j \in Bufs, pool'[j].sector # None, NEW t \in Secs,
               t \in pool'[j].dirty \/ pool'[j].read, want'[pool'[j].sector][t] # Junk
        PROVE  pool'[j].data[t] = want'[pool'[j].sector][t]
    <3>1. CASE j # i
      <4>1. pool'[j] = pool[j] /\ pool[j].sector # v /\ pool[j].sector \in Virt
        BY <1>4, <1>0, <2>2, <2>4, <3>1, PoolType
      <4>2. want'[pool[j].sector][t] = want[pool[j].sector][t] BY <1>7, <4>1
      <4> QED BY <1>0, <2>4, <4>1, <4>2 DEF BufInv
    <3>2. CASE j = i /\ t = s
      <4>1. c.data[s] = x BY <1>5, <1>12 DEF Data
      <4> QED BY <1>5, <1>7, <2>0, <3>2, <4>1
    <3>3. CASE j = i /\ t # s
      <4>1. want'[v][t] = want[v][t] /\ c.data[t] = b.data[t] BY <1>5, <1>7, <1>12, <3>3 DEF Data
      <4>2. t \in b.dirty \/ b.read BY <1>5, <2>0, <2>4, <3>3
      <4>3. Holding(v) # {}
        <5>1. NoBuf.dirty = {} /\ NoBuf.read = FALSE BY DEF NoBuf
        <5> QED BY <1>2, <2>0, <4>2, <5>1
      <4>4. b.sector = v BY <1>2, <2>0, <4>3
      <4>5. want[v][t] # Junk => b.data[t] = want[v][t] BY <1>0, <1>2, <1>9, <2>0, <4>2, <4>4 DEF BufInv
      <4> QED BY <1>5, <2>0, <2>4, <3>3, <4>1, <4>5
    <3> QED BY <3>1, <3>2, <3>3
  <2> QED BY <2>1, <2>3, <2>4 DEF BufInv
<1>14. ASSUME NEW w \in Virt, NEW t \in Secs, \A j \in Holding(w)' : t \notin pool'[j].dirty
       PROVE  OnFlash(w, t)'
  <2>0. b = pool[i] /\ c = pool'[i] BY DEF b, c
  <2>1. \A j \in Holding(w) : t \notin pool[j].dirty
    <3> SUFFICES ASSUME NEW j \in Holding(w) PROVE t \notin pool[j].dirty OBVIOUS
    <3>1. j \in Bufs /\ pool[j].sector = w BY DEF Holding
    <3>2. CASE j # i BY <1>4, <1>14, <3>1, <3>2 DEF Holding
    <3>3. CASE j = i
      <4>1. CASE Holding(v) = {} BY <1>2, <3>3, <4>1 DEF NoBuf
      <4>2. CASE Holding(v) # {}
        <5>1. w = v BY <1>2, <3>1, <3>3, <4>2
        <5>2. i \in Holding(w)' BY <1>2, <1>5, <2>0, <5>1 DEF Holding
        <5>3. t \notin c.dirty BY <1>14, <2>0, <5>2
        <5> QED BY <1>5, <2>0, <3>3, <4>2, <5>3
      <4> QED BY <4>1, <4>2
    <3> QED BY <3>2, <3>3
  <2>2. OnFlash(w, t) BY <1>0, <2>1 DEF DataInv
  <2>3. w # v \/ t # s
    <3> SUFFICES ASSUME w = v PROVE t # s OBVIOUS
    <3>1. i \in Holding(w)' BY <1>2, <1>5, <2>0 DEF Holding
    <3>2. t \notin c.dirty BY <1>14, <2>0, <3>1
    <3> QED BY <1>5, <3>2
  <2>4. want'[w][t] = want[w][t] BY <1>7, <2>3
  <2> QED BY <1>11, <2>2, <2>4 DEF OnFlash
<1>15. DurableInv'
  <2>1. "cut" \notin Faults => \A w \in Virt, t \in Secs : Junk \in durable'[w][t]
    BY <1>0, <1>1 DEF DurableInv
  <2>2. ASSUME NEW w \in Virt, NEW t \in Secs, Junk \notin durable'[w][t]
        PROVE  /\ want'[w][t] \in durable'[w][t]
               /\ index'[w] # None /\ PageData(index[w])'[t] \in durable'[w][t]
    <3>1. CASE w = v /\ t = s
      <4>1. Junk \notin durable[v][s]
        <5>1. CASE durable' = durable BY <2>2, <3>1, <5>1
        <5>2. CASE durable' # durable BY <1>1, <5>2
        <5> QED BY <5>1, <5>2
      <4>2. durable' = [durable EXCEPT ![v][s] = @ \cup {x}] BY <1>0, <1>1, <4>1 DEF DurableInv
      <4>3. durable'[v][s] = durable[v][s] \cup {x} BY <1>3, <4>2 DEF DurableTypes
      <4> QED BY <1>0, <1>7, <1>11, <3>1, <4>1, <4>3 DEF DurableInv
    <3>2. CASE w # v \/ t # s
      <4>1. durable'[w][t] = durable[w][t]
        <5>1. CASE durable' = durable BY <5>1
        <5>2. CASE durable' = [durable EXCEPT ![v][s] = @ \cup {x}]
          BY <1>3, <3>2, <5>2 DEF DurableTypes
        <5> QED BY <1>1, <5>1, <5>2
      <4> QED BY <1>0, <1>7, <1>11, <2>2, <3>2, <4>1 DEF DurableInv
    <3> QED BY <3>1, <3>2
  <2> QED BY <2>1, <2>2 DEF DurableInv
<1> QED BY <1>1, <1>6, <1>7, <1>8, <1>13, <1>14, <1>15, IdleKeeps

\* A page is read into a buffer.
LEMMA FetchKeeps ==
    ASSUME UftlAll, Quiet, op.pc \in {"idle", "resume"}, checkCount' = checkCount,
           NEW v \in Virt, NEW s \in Secs, BufFor(v) # {}, index[v] # None, FetchSector(v, s),
           misread \in BOOLEAN, ~misread'
    PROVE  UftlAll'
<1> DEFINE i == Min(BufFor(v))
<1>0. TypeInv /\ BufInv /\ DataInv /\ DurableInv /\ LebSame BY DEF UftlAll, LebInv, Quiet
<1>1. /\ op' = Idle /\ want' = want /\ durable' = durable /\ misread' \in BOOLEAN
      /\ \/ pool' = pool
         \/ Holding(v) = {} /\ pool' = [pool EXCEPT ![i].sector = v, ![i].read = TRUE, ![i].dirty = {},
                                                  ![i].data = PageData(index[v])]
         \/ Holding(v) # {} /\ pool' = [pool EXCEPT ![i].read = TRUE, ![i].data = Merged(pool[i])]
  BY DEF FetchSector
<1>2. /\ i \in Bufs
      /\ Holding(v) = {} => pool[i] = NoBuf
      /\ Holding(v) # {} => pool[i].sector = v /\ Holding(v) = {i}
  BY <1>0, BufChoice
<1> HIDE DEF i
<1>3. pool \in PoolTypes /\ want \in [Virt -> Data] /\ durable \in DurableTypes
  BY <1>0 DEF TypeInv, UftlTypeOK, PoolTypes, DurableTypes
<1>4. /\ \A w : PageData(index[w])' = PageData(index[w]) /\ index'[w] = index[w]
      /\ \A w, t : OnFlash(w, t)' <=> OnFlash(w, t)
  BY <1>0, <1>1, QuietPages
<1>5. DurableInv' BY <1>0, <1>1, <1>4 DEF DurableInv
<1>6. v # None BY UftlSentinels
<1> DEFINE b == pool[i]
           c == pool'[i]
           kind == [sector : Virt \cup {None}, read : BOOLEAN, dirty : SUBSET Secs, data : Data]
<1>7. b \in kind BY <1>2, <1>3 DEF PoolTypes
<1>8. CASE pool' = pool
  <2>1. BufInv' BY <1>0, <1>1, <1>8 DEF BufInv
  <2>2. \A w : Holding(w)' = Holding(w) BY <1>8 DEF Holding
  <2>3. \A w \in Virt, t \in Secs : (\A j \in Holding(w)' : t \notin pool'[j].dirty) => OnFlash(w, t)'
    BY <1>0, <1>4, <1>8, <2>2 DEF DataInv
  <2> QED BY <1>1, <1>3, <1>5, <1>8, <2>1, <2>3, IdleKeeps
<1>9. CASE pool' # pool
  <2>1. /\ c.sector = v /\ c.read = TRUE /\ c.dirty \subseteq b.dirty /\ c \in kind
        /\ pool' = [pool EXCEPT ![i] = c]
        /\ Holding(v) # {} => c.dirty = b.dirty
        /\ Agrees(c.data, v)
    <3>1. CASE Holding(v) = {}
      <4> DEFINE d == PageData(index[v])
      <4>1. pool' = [pool EXCEPT ![i].sector = v, ![i].read = TRUE, ![i].dirty = {}, ![i].data = d]
        BY <1>1, <1>9, <3>1
      <4>2. d \in Data BY <1>0, PageDataType
      <4>3. \A t \in Secs : OnFlash(v, t) BY <1>0, <3>1 DEF DataInv
      <4>4. Agrees(d, v) BY <4>3 DEF OnFlash, Agrees
      <4> HIDE DEF d
      <4>5. c = [b EXCEPT !.sector = v, !.read = TRUE, !.dirty = {}, !.data = d]
            /\ pool' = [pool EXCEPT ![i] = c]
        BY <1>2, <1>3, <4>1 DEF PoolTypes
      <4>6. pool' = [pool EXCEPT ![i] = c] BY <4>5
      <4> HIDE DEF b, c
      <4>7. c.sector = v /\ c.read = TRUE /\ c.dirty = {} /\ c.data = d /\ c \in kind BY <1>7, <4>2, <4>5
      <4> QED BY <3>1, <4>4, <4>6, <4>7
    <3>2. CASE Holding(v) # {}
      <4> DEFINE d == Merged(b)
      <4>1. pool' = [pool EXCEPT ![i].read = TRUE, ![i].data = d] BY <1>1, <1>9, <3>2
      <4>2. d \in Data /\ Agrees(d, v) BY <1>0, <1>2, <1>6, <3>2, MergedIs
      <4>3. b.sector = v BY <1>2, <3>2
      <4> HIDE DEF d
      <4>5. c = [b EXCEPT !.read = TRUE, !.data = d] /\ pool' = [pool EXCEPT ![i] = c]
        BY <1>2, <1>3, <4>1 DEF PoolTypes
      <4>6. pool' = [pool EXCEPT ![i] = c] BY <4>5
      <4> HIDE DEF b, c
      <4>7. c.sector = v /\ c.read = TRUE /\ c.dirty = b.dirty /\ c.data = d /\ c \in kind
        BY <1>7, <4>2, <4>3, <4>5
      <4> QED BY <3>2, <4>2, <4>6, <4>7
    <3> QED BY <3>1, <3>2
  <2>2. c = pool'[i] /\ \A j \in Bufs : j # i => pool'[j] = pool[j]
    BY <1>2, <1>3, <2>1 DEF PoolTypes
  <2>3. pool' \in PoolTypes
    <3> HIDE DEF c
    <3> QED BY <1>2, <1>3, <2>1 DEF PoolTypes
  <2>4. ASSUME NEW j \in Bufs, j # i PROVE pool'[j].sector # v
    <3>1. CASE Holding(v) = {} BY <2>2, <2>4, <3>1 DEF Holding
    <3>2. CASE Holding(v) # {} BY <1>2, <2>2, <2>4, <3>2 DEF Holding
    <3> QED BY <3>1, <3>2
  <2>5. Holding(v) = {} => b.dirty = {} BY <1>2 DEF NoBuf
  <2> HIDE DEF c
  <2>6. BufInv'
    <3>1. \A j \in Bufs : pool'[j].sector = None => pool'[j] = NoBuf
      BY <1>0, <1>6, <2>1, <2>2 DEF BufInv
    <3>2. \A j, k \in Bufs : pool'[j].sector = pool'[k].sector /\ pool'[j].sector # None => j = k
      BY <1>0, <2>1, <2>2, <2>4 DEF BufInv
    <3>3. ASSUME NEW j \in Bufs, pool'[j].sector # None, NEW t \in Secs,
                 t \in pool'[j].dirty \/ pool'[j].read, want[pool'[j].sector][t] # Junk
          PROVE  pool'[j].data[t] = want[pool'[j].sector][t]
      <4>1. CASE j # i BY <1>0, <2>2, <3>3, <4>1 DEF BufInv
      <4>2. CASE j = i BY <2>1, <2>2, <3>3, <4>2 DEF Agrees
      <4> QED BY <4>1, <4>2
    <3> QED BY <1>1, <3>1, <3>2, <3>3 DEF BufInv
  <2>7. ASSUME NEW w \in Virt, NEW t \in Secs, \A j \in Holding(w)' : t \notin pool'[j].dirty
        PROVE  OnFlash(w, t)'
    <3>1. \A j \in Holding(w) : t \notin pool[j].dirty
      <4> SUFFICES ASSUME NEW j \in Holding(w) PROVE t \notin pool[j].dirty OBVIOUS
      <4>1. j \in Bufs /\ pool[j].sector = w BY DEF Holding
      <4>2. CASE j # i BY <2>2, <2>7, <4>1, <4>2 DEF Holding
      <4>3. CASE j = i /\ Holding(v) = {} BY <2>5, <4>3
      <4>4. CASE j = i /\ Holding(v) # {}
        <5>1. w = v BY <1>2, <4>1, <4>4
        <5>2. i \in Holding(w)' BY <1>2, <2>1, <2>2, <5>1 DEF Holding
        <5>3. t \notin c.dirty BY <2>2, <2>7, <5>2
        <5> QED BY <2>1, <4>4, <5>3
      <4> QED BY <4>2, <4>3, <4>4
    <3> QED BY <1>0, <1>4, <3>1 DEF DataInv
  <2> QED BY <1>1, <1>3, <1>5, <2>3, <2>6, <2>7, IdleKeeps
<1> QED BY <1>8, <1>9

(***************************************************************************)
(* The calls.                                                              *)
(***************************************************************************)
\* ftl_core_io_write() is called.
LEMMA WriteSectorKeeps ==
    ASSUME UftlAll, NEW v \in Virt, NEW s \in Secs, NEW x \in Vals, WriteSector(v, s, x), misread \in BOOLEAN
    PROVE  UftlAll'
<1>1. op.pc = "idle" /\ Quiet /\ checkCount' = checkCount BY DEF WriteSector, ram, Quiet, LebSame
<1>2. CASE BufFor(v) # {}
  <2>1. StoreSector(v, s, x) BY <1>2 DEF WriteSector
  <2> QED BY <1>1, <1>2, <2>1, StoreKeeps
<1>3. CASE BufFor(v) = {}
  <2>1. Begin("write", v, s, x, 0) /\ UNCHANGED <<pool, want, durable, misread>>
    BY <1>3 DEF WriteSector, hist
  <2>2. Holding(v) = {} BY <1>3 DEF BufFor
  <2>3. 0 \in Bufs BY UftlSizes DEF Bufs
  <2> QED BY <1>1, <2>1, <2>2, <2>3, BeginKeeps
<1> QED BY <1>2, <1>3

\* ftl_core_io_read() is called.
LEMMA ReadSectorKeeps ==
    ASSUME UftlAll, NEW v \in Virt, NEW s \in Secs, ReadSector(v, s), misread \in BOOLEAN, ~misread'
    PROVE  UftlAll'
<1>1. op.pc = "idle" /\ index[v] # None /\ Quiet /\ checkCount' = checkCount
  BY DEF ReadSector, ram, Quiet, LebSame
<1>2. CASE BufFor(v) # {}
  <2>1. FetchSector(v, s) BY <1>2 DEF ReadSector
  <2> QED BY <1>1, <1>2, <2>1, FetchKeeps
<1>3. CASE BufFor(v) = {}
  <2>1. Begin("read", v, s, Junk, 0) /\ UNCHANGED <<pool, want, durable, misread>>
    BY <1>3 DEF ReadSector, hist
  <2>2. Holding(v) = {} BY <1>3 DEF BufFor
  <2>3. 0 \in Bufs BY UftlSizes DEF Bufs
  <2> QED BY <1>1, <2>1, <2>2, <2>3, BeginKeeps
<1> QED BY <1>2, <1>3

\* Either goes on after flush_one_buf().
LEMMA ResumeKeeps ==
    ASSUME UftlAll, Resume, misread \in BOOLEAN, ~misread'
    PROVE  UftlAll'
<1>1. op.pc = "resume" /\ Quiet /\ checkCount' = checkCount BY DEF Resume, ram, Quiet, LebSame
<1>2. TypeInv /\ CallInv BY DEF UftlAll, LebInv
<1> DEFINE v == op.call.v
           s == op.call.s
           x == op.call.x
<1>3. v \in Virt /\ s \in Secs BY <1>2 DEF TypeInv, CallType
<1>4. /\ op.call.kind \in {"write", "read"} /\ pool[0].sector = None /\ Holding(v) = {}
      /\ op.call.kind = "read" => index[v] # None
      /\ op.call.kind = "write" => x \in Vals
  BY <1>1, <1>2 DEF CallInv
<1>5. BufFor(v) # {}
  <2>1. 0 \in Bufs BY UftlSizes DEF Bufs
  <2>2. 0 \in BufFor(v) BY <1>4, <2>1 DEF BufFor
  <2> QED BY <2>2
<1>6. CASE op.call.kind = "write"
  <2>1. StoreSector(v, s, x) BY <1>6 DEF Resume
  <2> HIDE DEF v, s, x
  <2> QED BY <1>1, <1>3, <1>4, <1>5, <1>6, <2>1, StoreKeeps
<1>7. CASE op.call.kind # "write"
  <2>1. FetchSector(v, s) BY <1>7 DEF Resume
  <2> HIDE DEF v, s, x
  <2> QED BY <1>1, <1>3, <1>4, <1>5, <1>7, <2>1, FetchKeeps
<1> QED BY <1>6, <1>7

\* The page to merge cannot be read.
LEMMA SyncReadFailsKeeps ==
    ASSUME UftlAll, SyncReadFails, misread \in BOOLEAN
    PROVE  UftlAll'
<1>1. op.pc = "sync" /\ Fail /\ Quiet /\ checkCount' = checkCount /\ pool' = pool
  BY DEF SyncReadFails, ram, Quiet, LebSame
<1>2. TypeInv /\ BufInv /\ DataInv /\ DurableInv /\ LebSame BY <1>1 DEF UftlAll, LebInv, Quiet
<1>3. /\ op' \in OpType /\ op'.pc \in {"idle", "sync"}
      /\ durable' \in DurableTypes /\ want' = want /\ misread' = misread
      /\ ControlInv' /\ ~Pending' /\ ~AfterIndex' /\ CallInv'
  BY <1>1, <1>2, FailIs
<1>4. /\ \A w : PageData(index[w])' = PageData(index[w]) /\ index'[w] = index[w]
      /\ \A w, t : OnFlash(w, t)' <=> OnFlash(w, t)
  BY <1>2, <1>3, QuietPages
<1>5. \A w : Holding(w)' = Holding(w) BY <1>1 DEF Holding
<1>6. DataInv' BY <1>1, <1>2, <1>3, <1>4, <1>5 DEF DataInv
<1>7. BufInv' BY <1>1, <1>2, <1>3 DEF BufInv
<1>8. DurableInv'
  <2>1. \A w \in Virt, t \in Secs :
            (\A i \in Bufs : pool'[i].sector = w => t \notin pool'[i].dirty) => OnFlash(w, t)'
    BY <1>1, <1>2, <1>4 DEF DataInv, Holding
  <2>2. /\ "cut" \notin Faults => \A w \in Virt, t \in Secs : Junk \in durable[w][t]
        /\ \A w \in Virt, t \in Secs : Junk \notin durable[w][t] =>
               /\ want[w][t] \in durable[w][t]
               /\ index'[w] # None /\ PageData(index[w])'[t] \in durable[w][t]
    BY <1>2, <1>4 DEF DurableInv
  <2>3. Flushed BY <1>1 DEF Fail
  <2> QED BY <1>3, <2>1, <2>2, <2>3, FlushedKeeps
<1>9. ~Scrubbing BY <1>1 DEF Scrubbing
<1>10. pool' \in PoolTypes /\ checkCount' \in 0 .. NPages + 1 /\ want' \in [Virt -> Data]
  BY <1>1, <1>2, <1>3 DEF TypeInv, UftlTypeOK, PoolTypes
<1> QED BY <1>1, <1>3, <1>6, <1>7, <1>8, <1>9, <1>10, QuietKeeps

\* A step inside an operation that changes neither buffers nor data.
LEMMA InnerKeeps ==
    ASSUME UftlAll, Quiet, checkCount' \in 0 .. NPages + 1, UNCHANGED <<pool, want, durable>>, misread' \in BOOLEAN,
           op.pc \in {"count", "gc", "scrub"}, op' \in OpType, op'.pc \in {"bug", "gc", "erase", "scrub"},
           op'.call = op.call, op'.buf = op.buf,
           Scrubbing => Scrubbing' /\ op'.block = op.block /\ op'.page = op.page,
           ControlInv'
    PROVE  UftlAll'
<1>0. TypeInv /\ CallInv /\ BufInv /\ DataInv /\ DurableInv /\ LebSame BY DEF UftlAll, LebInv, Quiet
<1>1. /\ \A w : PageData(index[w])' = PageData(index[w]) /\ index'[w] = index[w]
      /\ \A w, t : OnFlash(w, t)' <=> OnFlash(w, t)
  BY <1>0, QuietPages
<1>2. \A w : Holding(w)' = Holding(w) BY DEF Holding
<1>3. AfterIndex /\ ~Pending' BY DEF AfterIndex, Pending
<1>4. CallInv' BY <1>0, <1>1, <1>2 DEF CallInv
<1>5. BufInv' BY <1>0 DEF BufInv
<1>6. DataInv' BY <1>0, <1>1, <1>2, <1>3 DEF DataInv
<1>7. DurableInv' BY <1>0, <1>1 DEF DurableInv
<1>8. pool' \in PoolTypes /\ want' \in [Virt -> Data] /\ durable' \in DurableTypes
  BY <1>0 DEF TypeInv, UftlTypeOK, PoolTypes, DurableTypes
<1> QED BY <1>4, <1>5, <1>6, <1>7, <1>8, QuietKeeps

\* The page counter stays in its range.
LEMMA CountType ==
    ASSUME checkCount \in 0 .. NPages + 1
    PROVE  Min({checkCount + 1, NPages + 1}) \in 0 .. NPages + 1
<1> DEFINE S == {checkCount + 1, NPages + 1}
<1>1. checkCount + 1 \in Nat /\ NPages + 1 \in Nat BY ZeroPage
<1>2. \E m \in S : \A k \in S : m <= k
  <2>1. CASE checkCount + 1 <= NPages + 1 BY <1>1, <2>1
  <2>2. CASE ~(checkCount + 1 <= NPages + 1) BY <1>1, <2>2
  <2> QED BY <2>1, <2>2
<1>3. Min(S) \in S /\ \A k \in S : Min(S) <= k
  <2> DEFINE T(m) == \A k \in S : m <= k
  <2>1. \E m \in S : T(m) BY <1>2
  <2>2. Min(S) = CHOOSE m \in S : T(m) BY DEF Min
  <2> HIDE DEF S, T
  <2>3. Min(S) \in S /\ T(Min(S)) BY <2>1, <2>2
  <2> QED BY <2>3 DEF T
<1>4. Min(S) \in Nat /\ Min(S) <= NPages + 1 BY <1>1, <1>3
<1> QED BY <1>4, ZeroPage

\* A page was written, and recycling may be due.
LEMMA CountKeeps ==
    ASSUME UftlAll, Count, misread \in BOOLEAN
    PROVE  UftlAll'
<1>1. op.pc = "count" /\ Quiet /\ CountPage BY DEF Count, Quiet, LebSame
<1>2. TypeInv /\ ControlInv /\ CallInv BY DEF UftlAll, LebInv
<1>3. checkCount' \in 0 .. NPages + 1 BY <1>1, <1>2, CountType DEF CountPage, TypeInv, UftlTypeOK
<1>4. CASE EndSync BY <1>1, <1>3, <1>4, QuietEnd
<1>5. CASE op' = [op EXCEPT !.pc = "gc", !.room = -1] /\ UNCHANGED <<pool, hist>>
  <2>1. op' = [op EXCEPT !.pc = "gc", !.room = -1] /\ op \in OpType BY <1>2, <1>5 DEF TypeInv, OpType
  <2>6. -1 \in Int /\ "gc" \in Pcs BY DEF Pcs
  <2>2. op' \in OpType /\ op'.pc = "gc" /\ op'.call = op.call /\ op'.buf = op.buf
    BY <2>1, <2>6 DEF OpType
  <2>3. ~Scrubbing /\ ~Scrubbing' BY <1>1, <2>2 DEF Scrubbing
  <2>4. ControlInv' BY <1>1, <1>2, <1>5, <2>2, <2>3 DEF ControlInv, Quiet, LebSame
  <2>5. UNCHANGED <<pool, want, durable, misread>> BY <1>5 DEF hist
  <2> QED BY <1>1, <1>3, <2>2, <2>3, <2>4, <2>5, InnerKeeps
<1> QED BY <1>1, <1>4, <1>5 DEF CountPage

\* The page written last is read from.
LEMMA CurUsed ==
    ASSUME LebInv, op.pc \notin {"log", "index"}, cur.block # None, cur.page >= 0
    PROVE  \E v \in Virt : index[v] # None /\ index[v].block = cur.block
<1>1. /\ TypeInv /\ cur = At(cur.block, cur.page) /\ cur.block \in Blocks /\ cur.page \in Int
      /\ cur.page < NPages /\ blockId \in Int /\ NPages \in Nat
  BY CurType DEF LebInv
<1>2. cur.page \in Pages /\ cur \in Pos BY <1>1 DEF Pages, Pos, At
<1>3. leb \in [Blocks -> LebType] /\ index \in [Virt -> Pos \cup {None}] BY <1>1 DEF TypeInv, UftlTypeOK
<1> DEFINE x == leb[cur.block]
<1>4. \A p \in Pages : Written1(x.page[p]) => x.page[p].id = blockId
  <2>1. CASE FullLeb(x) /\ x.log.id = blockId BY <2>1 DEF FullLeb
  <2>2. CASE OpenLeb(x, cur.page + 1, blockId) BY <2>2 DEF OpenLeb, Written1
  <2> QED BY <2>1, <2>2 DEF LebInv, FlashInv
<1>5. Written1(x.page[cur.page])
  <2>1. CASE FullLeb(x) BY <1>2, <2>1 DEF FullLeb
  <2>2. CASE OpenLeb(x, cur.page + 1, blockId) BY <1>1, <1>2, <2>2 DEF OpenLeb
  <2> QED BY <2>1, <2>2 DEF LebInv, FlashInv
<1>6. x # EmptyLeb BY <1>2, <1>5, EmptyPages
<1>7. Media(cur.block) = x BY <1>6 DEF Media
<1>8. MediaPage(cur) = x.page[cur.page] BY <1>7 DEF MediaPage
<1> DEFINE v == x.page[cur.page].sector
           j == index[v]
<1>9. v \in Virt BY <1>1, <1>2, <1>3, <1>5, PageType
<1>10. j # None /\ Older(cur, j)
  <2>1. ~Pending BY DEF Pending
  <2> QED BY <1>2, <1>5, <1>8, <2>1 DEF LebInv, OrderInv
<1>11. j \in Pos /\ Written1(leb[j.block].page[j.page])
  BY <1>3, <1>9, <1>10 DEF LebInv, OrderInv, Holds, Written1
<1>12. j.block = cur.block
  <2> SUFFICES ASSUME j.block # cur.block PROVE FALSE OBVIOUS
  <2>1. j.block \in Blocks /\ j.page \in Pages BY <1>11 DEF Pos
  <2>2. leb[j.block] # EmptyLeb BY <1>11, <2>1, EmptyPages
  <2>3. FullLeb(leb[j.block]) BY <2>1, <2>2 DEF LebInv, FlashInv
  <2>4. Media(j.block) = leb[j.block] BY <2>2 DEF Media
  <2>5. Media(j.block).log.id < blockId BY <2>1, <2>3, <2>4 DEF LebInv, IdInv
  <2>6. MediaPage(j).id = Media(j.block).log.id BY <2>1, <2>3, <2>4 DEF MediaPage, FullLeb
  <2>7. MediaPage(cur).id = blockId BY <1>2, <1>4, <1>5, <1>8
  <2>8. MediaPage(j).id \in 0 .. MaxId
    <3>1. leb[j.block] \in LebType BY <1>3, <2>1
    <3>2. MediaPage(j) = leb[j.block].page[j.page] BY <2>4 DEF MediaPage
    <3> QED BY <1>11, <2>1, <3>1, <3>2, PageType
  <2>9. MediaPage(cur).id < MediaPage(j).id BY <1>10 DEF Older
  <2>10. MediaPage(j).id \in Int BY <2>8
  <2> HIDE DEF j
  <2> QED BY <1>1, <2>5, <2>6, <2>7, <2>9, <2>10
<1> QED BY <1>9, <1>10, <1>12

\* The block to recycle is written completely.
LEMMA VictimIs ==
    ASSUME UftlAll, op.pc = "gc", Recyclable # {}
    PROVE  /\ Victim \in Blocks /\ FullLeb(leb[Victim])
           /\ using[Victim] # 0 => \E p \in Pages : state[Victim][p] = "using"
           /\ using[Victim] = 0 => Victim # cur.block /\ \A v \in Virt : index[v] # None => index[v].block # Victim
<1>0. LebInv /\ TypeInv /\ StateInv /\ ControlInv BY DEF UftlAll, LebInv
<1>1. /\ NPages \in Nat /\ NPages > 0 /\ using \in [Blocks -> 0 .. NPages] /\ NBlocks - 1 \in Nat
      /\ index \in [Virt -> Pos \cup {None}] /\ leb \in [Blocks -> LebType]
  BY <1>0, ZeroPage, UftlSizes DEF TypeInv, UftlTypeOK
<1> DEFINE num(b) == UsingNum(state, using, b)
           least == {b \in Recyclable : \A c \in Recyclable : num(b) <= num(c)}
<1>2. Recyclable \subseteq Blocks BY DEF Recyclable
<1>3. \A b \in Blocks : num(b) \in 0 .. NPages
  <2> SUFFICES ASSUME NEW b \in Blocks PROVE num(b) \in 0 .. NPages OBVIOUS
  <2>1. using[b] \in 0 .. NPages /\ NPages \in 0 .. NPages BY <1>1
  <2> QED BY <2>1 DEF UsingNum
<1>4. \E b \in Recyclable : \A c \in Recyclable : num(b) <= num(c)
  <2> DEFINE S == {num(b) : b \in Recyclable}
  <2> HIDE DEF num
  <2>1. S \subseteq 0 .. NPages /\ S # {} BY <1>2, <1>3
  <2>2. \E m \in S : \A k \in S : m <= k BY <1>1, <2>1, LeastNat
  <2> QED BY <2>2
<1>5. least \subseteq 0 .. NBlocks - 1 /\ least # {} BY <1>2, <1>4 DEF Blocks
<1>6. Victim = Min(least) BY DEF Victim
<1> HIDE DEF least
<1>7. \E m \in least : \A k \in least : m <= k BY <1>1, <1>5, LeastNat
<1>8. Victim \in least BY <1>6, <1>7 DEF Min
<1> DEFINE b == Victim
<1>9. b \in Blocks /\ num(b) < NPages BY <1>8 DEF least, Recyclable
<1> HIDE DEF b
<1>10. /\ state[b][0] # "empty" /\ using[b] < NPages
       /\ b = cur.block => state[b][NPages - 1] # "empty"
  <2>1. NPages \in Int BY <1>1
  <2> QED BY <1>9, <2>1 DEF UsingNum
<1>11. 0 \in Pages /\ NPages - 1 \in Pages BY <1>1 DEF Pages
<1>12. \A p \in Pages : state[b][p] # "empty" => leb[b].page[p] # Empty BY <1>0, <1>9 DEF StateInv
<1>13. leb[b] # EmptyLeb BY <1>10, <1>11, <1>12, EmptyPages
<1>14. FullLeb(leb[b])
  <2>1. CASE b # cur.block BY <1>0, <1>9, <1>13, <2>1 DEF LebInv, FlashInv
  <2>2. CASE b = cur.block
    <3>1. cur.block # None BY <1>9, <2>2, UftlSentinels
    <3>2. CASE cur.page = NPages - 1 BY <1>0, <2>2, <3>1, <3>2 DEF LebInv, FlashInv
    <3>3. CASE cur.page # NPages - 1
      <4>1. OpenLeb(leb[b], cur.page + 1, blockId) BY <1>0, <2>2, <3>1, <3>3 DEF LebInv, FlashInv
      <4>2. ~(NPages - 1 < cur.page + 1) BY <1>0, <3>3, CurType
      <4>3. leb[b].page[NPages - 1] = Empty BY <1>11, <4>1, <4>2 DEF OpenLeb
      <4> QED BY <1>10, <1>11, <1>12, <2>2, <4>3
    <3> QED BY <3>2, <3>3
  <2> QED BY <2>1, <2>2
<1>15. using[b] = UsingOf(state, b) BY <1>0, <1>9 DEF StateInv
<1>16. using[b] # 0 => \E p \in Pages : state[b][p] = "using" BY <1>15, UsingIs
<1>17. ASSUME using[b] = 0, NEW v \in Virt, index[v] # None PROVE index[v].block # b
  <2>1. index[v] \in Pos /\ state[index[v].block][index[v].page] = "using"
    BY <1>0, <1>1, <1>17 DEF StateInv
  <2>2. \A p \in Pages : state[b][p] # "using" BY <1>15, <1>17, UsingIs
  <2> QED BY <2>1, <2>2 DEF Pos
<1>18. using[b] = 0 => b # cur.block
  <2>1. cur.block # None /\ cur.page >= 0 BY <1>0 DEF ControlInv
  <2>2. \E v \in Virt : index[v] # None /\ index[v].block = cur.block BY <1>0, <2>1, CurUsed
  <2> QED BY <1>17, <2>2
<1> QED BY <1>9, <1>14, <1>16, <1>17, <1>18 DEF b

\* garbage_checking() picks a block.
LEMMA GcPickKeeps ==
    ASSUME UftlAll, GcPick, misread \in BOOLEAN
    PROVE  UftlAll'
<1>1. op.pc = "gc" /\ Quiet /\ UNCHANGED <<checkCount, pool, want, durable, misread>>
  BY DEF GcPick, ram, hist, Quiet, LebSame
<1>2. /\ LebInv /\ TypeInv /\ ControlInv /\ StateInv /\ op \in OpType
      /\ checkCount' \in 0 .. NPages + 1
  BY <1>1 DEF UftlAll, LebInv, TypeInv, UftlTypeOK, OpType
<1>3. ~Scrubbing BY <1>1 DEF Scrubbing
<1>4. CASE Recyclable = {}
  <2>1. op' = [op EXCEPT !.pc = "bug"] BY <1>4 DEF GcPick
  <2>2. op' \in OpType /\ op'.pc = "bug" /\ op'.call = op.call /\ op'.buf = op.buf
    BY <1>2, <2>1 DEF OpType, Pcs
  <2>3. ControlInv' BY <2>2 DEF ControlInv, Scrubbing
  <2> QED BY <1>1, <1>2, <1>3, <2>2, <2>3, InnerKeeps
<1>5. CASE Recyclable # {}
  <2> DEFINE b == Victim
             pc == IF using[b] = 0 THEN "erase" ELSE "scrub"
  <2>0. Room \in Int
    BY <1>2, UftlSizes DEF Room, TypeInv, UftlTypeOK
  <2>1. op' = [op EXCEPT !.pc = pc, !.block = b, !.page = 0, !.after = "gc", !.room = Room]
    BY <1>5 DEF GcPick
  <2>2. /\ b \in Blocks /\ FullLeb(leb[b])
        /\ using[b] # 0 => \E p \in Pages : state[b][p] = "using"
        /\ using[b] = 0 => b # cur.block /\ \A v \in Virt : index[v] # None => index[v].block # b
    BY <1>1, <1>5, VictimIs
  <2> HIDE DEF b
  <2>3. /\ op' \in OpType /\ op'.pc = pc /\ op'.call = op.call /\ op'.buf = op.buf
        /\ op'.block = b /\ op'.page = 0 /\ op'.after = "gc"
    <3>1. pc \in Pcs BY DEF Pcs
    <3>2. 0 \in 0 .. NPages BY ZeroPage
    <3> HIDE DEF pc
    <3> QED BY <1>2, <2>0, <2>1, <2>2, <3>1, <3>2 DEF OpType
  <2>4. /\ UNCHANGED <<leb, index, cur, pool, state>> /\ cur.block # None /\ cur.page >= 0
        /\ pool[op.buf].sector # None /\ pool[op.buf].dirty # {}
    BY <1>1, <1>2 DEF Quiet, LebSame, ControlInv
  <2>5. \A v \in Virt : index[v] # None => index[v].page >= 0
    <3>1. \A v \in Virt : index[v] # None => index[v] \in Pos BY <1>2 DEF TypeInv, UftlTypeOK
    <3> QED BY <3>1 DEF Pos, Pages
  <2>6. ControlInv'
    <3>1. CASE using[b] = 0
      <4>1. op'.pc = "erase" BY <2>3, <3>1
      <4>2. index' = index /\ cur' = cur /\ leb' = leb /\ pool' = pool BY <2>4
      <4> QED BY <2>2, <2>3, <2>4, <2>5, <3>1, <4>1, <4>2 DEF ControlInv, Scrubbing
    <3>2. CASE using[b] # 0
      <4>1. op'.pc = "scrub" BY <2>3, <3>2
      <4>2. index' = index /\ cur' = cur /\ leb' = leb /\ pool' = pool /\ state' = state BY <2>4
      <4> QED BY <2>2, <2>3, <2>4, <2>5, <3>2, <4>1, <4>2 DEF ControlInv, Scrubbing
    <3> QED BY <3>1, <3>2
  <2>7. op'.pc \in {"bug", "gc", "erase", "scrub"} BY <2>3
  <2> QED BY <1>1, <1>2, <1>3, <2>3, <2>6, <2>7, InnerKeeps
<1> QED BY <1>4, <1>5

\* All pages of the block are copied.
LEMMA ScrubDoneKeeps ==
    ASSUME UftlAll, ScrubDone, misread \in BOOLEAN
    PROVE  UftlAll'
<1>1. /\ op.pc = "scrub" /\ Quiet /\ UNCHANGED <<checkCount, pool, want, durable, misread>>
      /\ op' = [op EXCEPT !.pc = "erase", !.after = "gc"]
  BY DEF ScrubDone, ram, hist, Quiet, LebSame
<1>2. /\ LebInv /\ TypeInv /\ ControlInv /\ StateInv /\ op \in OpType
      /\ checkCount' \in 0 .. NPages + 1
  BY <1>1 DEF UftlAll, LebInv, TypeInv, UftlTypeOK, OpType
<1>3. /\ op' \in OpType /\ op'.pc = "erase" /\ op'.call = op.call /\ op'.buf = op.buf
      /\ op'.block = op.block /\ op'.page = op.page /\ op'.after = "gc"
  BY <1>1, <1>2 DEF OpType, Pcs
<1>4. Scrubbing /\ Scrubbing' BY <1>1, <1>3 DEF Scrubbing
<1>5. UNCHANGED <<leb, index, cur, pool>> /\ op.page \in 0 .. NPages
  BY <1>1, <1>2 DEF Quiet, LebSame, OpType
<1>6. \A q \in Pages : q >= op.page => state[op.block][q] # "using" BY DEF ScrubDone
<1>7. op.page # 0
  <2> SUFFICES ASSUME op.page = 0 PROVE FALSE OBVIOUS
  <2>1. PICK p \in Pages : state[op.block][p] = "using" BY <1>1, <1>2 DEF ControlInv
  <2>2. p >= 0 BY DEF Pages
  <2> QED BY <1>6, <2>1, <2>2
<1>8. op.page > 0 BY <1>5, <1>7, ZeroPage
<1>9. op.block # cur.block BY <1>2, <1>4, <1>8 DEF ControlInv
<1>10. ASSUME NEW v \in Virt, index[v] # None PROVE index[v].block # op.block
  <2>1. index[v] \in Pos /\ state[index[v].block][index[v].page] = "using"
    BY <1>2, <1>10 DEF StateInv, TypeInv, UftlTypeOK
  <2>2. index[v].block = op.block => index[v].page >= op.page BY <1>2, <1>4, <1>10 DEF ControlInv
  <2> QED BY <1>6, <2>1, <2>2 DEF Pos
<1>11. ControlInv'
  <2>1. index' = index /\ cur' = cur /\ leb' = leb /\ pool' = pool BY <1>5
  <2>2. /\ cur.block # None /\ cur.page >= 0 /\ op.block \in Blocks /\ FullLeb(leb[op.block])
        /\ pool[op.buf].sector # None /\ pool[op.buf].dirty # {}
    BY <1>1, <1>2, <1>4 DEF ControlInv
  <2> QED BY <1>3, <1>4, <1>9, <1>10, <2>1, <2>2 DEF ControlInv
<1>12. op.pc \in {"count", "gc", "scrub"} /\ op'.pc \in {"bug", "gc", "erase", "scrub"} BY <1>1, <1>3
<1> QED BY <1>1, <1>2, <1>3, <1>4, <1>11, <1>12, InnerKeeps

(***************************************************************************)
(* Writing the next page of the current block.                             *)
(***************************************************************************)
\* The next page is written.
NextWritten(rec) ==
    /\ op.pc # "log" /\ NewPage.block # None /\ TakePage
    /\ leb' = [leb EXCEPT ![NewPage.block].page[NewPage.page] = rec]
    /\ undone' = [undone EXCEPT ![NewPage.block] = EmptyLeb]
    /\ logPage' = [logPage EXCEPT ![NewPage.page] = rec.sector]
    /\ rec \in PageRec /\ rec.id = blockId'

\* What that changes, nb and np being the block and the page.
PageWritten(nb, np, rec) ==
    /\ cur' = At(nb, np) /\ cur' \in Pos /\ nb \in Blocks /\ np \in Pages /\ cur.block # None
    /\ leb[nb].page[np] = Empty /\ leb[nb].log = Empty
    /\ leb'[nb].page[np] = rec /\ leb'[nb].log = Empty
    /\ \A p \in Pages : p # np => leb'[nb].page[p] = leb[nb].page[p]
    /\ \A b \in Blocks : b # nb => leb'[b] = leb[b] /\ undone'[b] = undone[b]
    /\ undone'[nb] = EmptyLeb
    /\ leb' \in [Blocks -> LebType] /\ undone' \in [Blocks -> LebType]
    /\ logPage' = [logPage EXCEPT ![np] = rec.sector] /\ logPage' \in [Pages -> Virt \cup {None}]
    /\ blockId' \in 0 .. MaxId /\ Written1(rec) /\ rec \in PageRec
    /\ IF NewBlock
       THEN /\ np = 0 /\ nb # cur.block /\ leb[nb] = EmptyLeb
            /\ fifo # <<>> /\ nb = Head(fifo) /\ fifo' = Tail(fifo)
            /\ blockId' = blockId + 1 /\ cur.page = NPages - 1
       ELSE /\ nb = cur.block /\ np = cur.page + 1 /\ fifo' = fifo
            /\ blockId' = blockId /\ OpenLeb(leb[nb], np, blockId)

\* A page log is no sentinel.
LEMMA RecWritten ==
    ASSUME NEW rec \in PageRec
    PROVE  Written1(rec)
BY UftlSentinels DEF Written1

\* get_new_page() and the write of the page.
LEMMA PageWrittenIs ==
    ASSUME LebInv, NEW rec, NextWritten(rec)
    PROVE  PageWritten(NewPage.block, NewPage.page, rec)
<1>0. TypeInv /\ FlashInv /\ FifoInv BY DEF LebInv
<1> DEFINE nb == NewPage.block
           np == NewPage.page
<1>1. /\ NewPage \in Pos /\ NewPage = At(nb, np)
      /\ leb[nb] \in LebType /\ leb[nb].log = Empty /\ leb[nb].page[np] = Empty
      /\ IF NewBlock
         THEN /\ np = 0 /\ fifo # <<>> /\ nb = Head(fifo)
              /\ leb[nb] = EmptyLeb /\ nb # cur.block /\ cur.page = NPages - 1
         ELSE /\ nb = cur.block /\ np = cur.page + 1 /\ cur.page + 1 < NPages
              /\ OpenLeb(leb[cur.block], cur.page + 1, blockId)
  BY <1>0, NextPageFree DEF NextWritten
<1>2. /\ nb # None
      /\ NewBlock => blockId < MaxId
      /\ cur' = NewPage
      /\ fifo' = IF NewBlock /\ fifo # <<>> THEN Tail(fifo) ELSE fifo
      /\ blockId' = IF NewBlock THEN blockId + 1 ELSE blockId
      /\ leb' = [leb EXCEPT ![nb].page[np] = rec]
      /\ undone' = [undone EXCEPT ![nb] = EmptyLeb]
      /\ logPage' = [logPage EXCEPT ![np] = rec.sector]
      /\ rec \in PageRec /\ rec.id = blockId'
  BY DEF NextWritten, TakePage
<1>3. /\ leb \in [Blocks -> LebType] /\ undone \in [Blocks -> LebType]
      /\ logPage \in [Pages -> Virt \cup {None}] /\ blockId \in 0 .. MaxId
  BY <1>0 DEF TypeInv, UftlTypeOK
<1>4. nb \in Blocks /\ np \in Pages BY <1>1 DEF Pos
<1>5. cur.block # None
  <2>1. NewBlock => fifo # <<>> BY <1>1
  <2>2. cur.block = None => fifo = <<>> BY <1>0 DEF FifoInv
  <2>3. ~NewBlock => cur.block # None BY <1>1, <1>2
  <2> QED BY <2>1, <2>2, <2>3
<1> HIDE DEF nb, np
<1>6. rec.sector \in Virt BY <1>2 DEF PageRec
<1> DEFINE x == leb[nb]
           y == [x EXCEPT !.page = [x.page EXCEPT ![np] = rec]]
<1>7. x \in [page : [Pages -> PageRec \cup {Empty, Torn}], log : LogRec \cup {Empty, Torn}]
  BY <1>3, <1>4 DEF LebType
<1>8. leb' = [leb EXCEPT ![nb] = y] BY <1>2, <1>3, <1>4
<1>9. y \in LebType /\ y.page = [x.page EXCEPT ![np] = rec] /\ y.log = x.log
  <2> HIDE DEF x
  <2> QED BY <1>2, <1>7, <1>4 DEF LebType
<1>10. y.page[np] = rec /\ \A p \in Pages : p # np => y.page[p] = x.page[p]
  <2> HIDE DEF x, y
  <2> QED BY <1>7, <1>4, <1>9
<1> HIDE DEF y
<1>11. /\ leb' \in [Blocks -> LebType] /\ leb'[nb] = y /\ \A b \in Blocks : b # nb => leb'[b] = leb[b]
  BY <1>3, <1>4, <1>8, <1>9
<1>12. /\ undone' \in [Blocks -> LebType] /\ undone'[nb] = EmptyLeb
       /\ \A b \in Blocks : b # nb => undone'[b] = undone[b]
  BY <1>2, <1>3, <1>4, EmptyPages
<1>13. logPage' \in [Pages -> Virt \cup {None}] BY <1>2, <1>3, <1>4, <1>6
<1>14. blockId' \in 0 .. MaxId
  <2>1. MaxId \in Nat BY UftlSizes
  <2> QED BY <1>2, <1>3, <2>1
<1>15. Written1(rec) BY <1>2, RecWritten
<1>16. IF NewBlock
       THEN /\ np = 0 /\ nb # cur.block /\ leb[nb] = EmptyLeb
            /\ fifo # <<>> /\ nb = Head(fifo) /\ fifo' = Tail(fifo)
            /\ blockId' = blockId + 1 /\ cur.page = NPages - 1
       ELSE /\ nb = cur.block /\ np = cur.page + 1 /\ fifo' = fifo
            /\ blockId' = blockId /\ OpenLeb(leb[nb], np, blockId)
  BY <1>1, <1>2
<1>17. cur' = At(nb, np) /\ cur' \in Pos BY <1>1, <1>2
<1>18. PageWritten(nb, np, rec)
  <2>1. leb[nb].page[np] = Empty /\ leb[nb].log = Empty BY <1>1
  <2>2. leb'[nb].page[np] = rec /\ leb'[nb].log = Empty
        /\ \A p \in Pages : p # np => leb'[nb].page[p] = leb[nb].page[p]
    BY <1>9, <1>10, <1>11, <2>1
  <2>3. /\ cur' = At(nb, np) /\ cur' \in Pos /\ nb \in Blocks /\ np \in Pages /\ cur.block # None
        /\ \A b \in Blocks : b # nb => leb'[b] = leb[b] /\ undone'[b] = undone[b]
        /\ undone'[nb] = EmptyLeb
        /\ leb' \in [Blocks -> LebType] /\ undone' \in [Blocks -> LebType]
        /\ logPage' = [logPage EXCEPT ![np] = rec.sector] /\ logPage' \in [Pages -> Virt \cup {None}]
        /\ blockId' \in 0 .. MaxId /\ Written1(rec) /\ rec \in PageRec
    BY <1>2, <1>4, <1>5, <1>11, <1>12, <1>13, <1>14, <1>15, <1>17
  <2> QED BY <1>16, <2>1, <2>2, <2>3 DEF PageWritten
<1> QED BY <1>18 DEF nb, np

\* The block written now is open and holds only pages written since it was
\* taken.
LEMMA WrittenOpen ==
    ASSUME NEW nb, NEW np, NEW rec, PageWritten(nb, np, rec), rec.id = blockId'
    PROVE  OpenLeb(leb'[nb], np + 1, blockId')
<1>1. np \in Pages /\ np \in Int /\ np >= 0 BY DEF PageWritten, Pages
<1> DEFINE x == leb[nb]
           y == leb'[nb]
<1>2. OpenLeb(x, np, blockId')
  <2>1. CASE NewBlock
    <3>1. x = EmptyLeb /\ np = 0 BY <2>1 DEF PageWritten
    <3>2. \A p \in Pages : ~(p < 0) BY DEF Pages
    <3> HIDE DEF x
    <3> QED BY <3>1, <3>2, EmptyPages DEF OpenLeb
  <2>2. CASE ~NewBlock BY <2>2 DEF PageWritten
  <2> QED BY <2>1, <2>2
<1>3. /\ y.log = Empty /\ y.page[np] = rec /\ Written1(rec)
      /\ \A p \in Pages : p # np => y.page[p] = x.page[p]
  BY DEF PageWritten
<1> HIDE DEF x, y
<1>4. ASSUME NEW p \in Pages
      PROVE  IF p < np + 1 THEN Written1(y.page[p]) /\ y.page[p].id = blockId' ELSE y.page[p] = Empty
  <2>0. p \in Int BY DEF Pages
  <2>1. CASE p = np BY <1>1, <1>3, <2>0, <2>1
  <2>2. CASE p # np
    <3>1. y.page[p] = x.page[p] /\ (p < np + 1 <=> p < np) BY <1>1, <1>3, <2>0, <2>2
    <3> QED BY <1>2, <3>1 DEF OpenLeb
  <2> QED BY <2>1, <2>2
<1>5. OpenLeb(y, np + 1, blockId') BY <1>3, <1>4 DEF OpenLeb
<1> QED BY <1>5 DEF y

\* The contents of the LEBs afterwards.
LEMMA WrittenFlash ==
    ASSUME LebInv, NEW nb, NEW np, NEW rec, PageWritten(nb, np, rec), rec.id = blockId',
           op.pc # "log", op'.pc = "log" <=> np = NPages - 1
    PROVE  FlashInv'
<1>0. FlashInv /\ TypeInv /\ NPages \in Nat BY ZeroPage DEF LebInv
<1>1. cur' = At(nb, np) /\ nb \in Blocks /\ np \in Pages /\ np \in Int /\ np >= 0 /\ np < NPages
  BY ZeroPage DEF PageWritten, Pages
<1>2. cur'.block = nb /\ cur'.page = np BY <1>1 DEF At
<1>3. OpenLeb(leb'[nb], np + 1, blockId') BY WrittenOpen
<1>4. ASSUME NEW b \in Blocks, undone'[b] # EmptyLeb
      PROVE  leb'[b] = EmptyLeb /\ (FullLeb(undone'[b]) \/ TornLeb(undone'[b]))
  <2>1. b # nb BY <1>4 DEF PageWritten
  <2>2. leb'[b] = leb[b] /\ undone'[b] = undone[b] BY <2>1 DEF PageWritten
  <2> QED BY <1>0, <1>4, <2>2 DEF FlashInv
<1>5. ASSUME NEW b \in Blocks, b # nb PROVE leb'[b] = EmptyLeb \/ FullLeb(leb'[b])
  <2>1. leb'[b] = leb[b] BY <1>5 DEF PageWritten
  <2>2. CASE b # cur.block BY <1>0, <2>1, <2>2 DEF FlashInv
  <2>3. CASE b = cur.block
    <3>1. NewBlock BY <1>5, <2>3 DEF PageWritten
    <3>2. cur.page = NPages - 1 /\ cur.block # None BY <3>1 DEF PageWritten
    <3> QED BY <1>0, <2>1, <2>3, <3>2 DEF FlashInv
  <2> QED BY <2>2, <2>3
<1>6. ASSUME NEW p \in 0 .. np PROVE logPage'[p] = leb'[nb].page[p].sector
  <2>0. p \in Pages /\ p \in Int BY <1>1, ZeroPage DEF Pages
  <2>1. logPage' = [logPage EXCEPT ![np] = rec.sector] /\ logPage \in [Pages -> Virt \cup {None}]
    BY <1>0 DEF PageWritten, TypeInv, UftlTypeOK
  <2>2. CASE p = np BY <1>1, <2>1, <2>2 DEF PageWritten
  <2>3. CASE p # np
    <3>0. leb'[nb].page[p] = leb[nb].page[p] BY <2>0, <2>3 DEF PageWritten
    <3>1. ~NewBlock BY <1>1, <2>0, <2>3 DEF PageWritten
    <3>2. nb = cur.block /\ np = cur.page + 1 /\ cur.block # None BY <3>1 DEF PageWritten
    <3>3. p \in 0 .. cur.page BY <1>0, <1>1, <2>0, <2>3, <3>2, CurType
    <3>4. logPage[p] = leb[cur.block].page[p].sector BY <1>0, <3>2, <3>3 DEF FlashInv
    <3> QED BY <2>0, <2>1, <2>3, <3>0, <3>2, <3>4
  <2> QED BY <2>2, <2>3
<1>7. ~(cur'.page = NPages - 1 /\ op'.pc # "log") BY <1>2
<1> QED BY <1>2, <1>3, <1>4, <1>5, <1>6, <1>7 DEF FlashInv

\* The fifo afterwards.
LEMMA WrittenFifo ==
    ASSUME LebInv, NEW nb, NEW np, NEW rec, PageWritten(nb, np, rec)
    PROVE  FifoInv' /\ fifo' \in Seq(Blocks) /\ Len(fifo') <= NBlocks
<1>0. FifoInv /\ TypeInv BY DEF LebInv
<1>1. fifo \in Seq(Blocks) /\ Len(fifo) <= NBlocks /\ NBlocks \in Nat BY <1>0, UftlSizes DEF TypeInv, UftlTypeOK
<1>2. cur'.block = nb /\ nb \in Blocks /\ nb # None BY UftlSentinels DEF PageWritten, At
<1>3. \A b \in Blocks : b # nb => leb'[b] = leb[b] BY DEF PageWritten
<1>4. CASE NewBlock
  <2>1. fifo # <<>> /\ nb = Head(fifo) /\ fifo' = Tail(fifo) BY <1>4 DEF PageWritten
  <2>2. Tail(fifo) \in Seq(Blocks) /\ Len(Tail(fifo)) = Len(fifo) - 1 BY <1>1, <2>1
  <2>3. \A k \in DOMAIN Tail(fifo) : /\ k + 1 \in DOMAIN fifo /\ Tail(fifo)[k] = fifo[k + 1]
                                     /\ k + 1 # 1 /\ fifo[k + 1] \in Blocks
    BY <1>1, <2>1
  <2>4. 1 \in DOMAIN fifo /\ nb = fifo[1] BY <1>1, <2>1
  <2>5. \A k \in DOMAIN fifo' : leb'[fifo'[k]] = EmptyLeb /\ fifo'[k] # cur'.block
    BY <1>0, <1>2, <1>3, <2>1, <2>3, <2>4 DEF FifoInv
  <2>6. ASSUME NEW k \in DOMAIN fifo', NEW m \in DOMAIN fifo', fifo'[k] = fifo'[m] PROVE k = m
    <3>1. k + 1 = m + 1 BY <1>0, <2>1, <2>3, <2>6 DEF FifoInv
    <3>2. k \in Int /\ m \in Int BY <2>1, <2>2
    <3> QED BY <3>1, <3>2
  <2>7. fifo' \in Seq(Blocks) /\ Len(fifo') <= NBlocks
    <3>1. Len(fifo) \in Nat BY <1>1
    <3> QED BY <1>1, <2>1, <2>2, <3>1
  <2> QED BY <1>2, <2>5, <2>6, <2>7 DEF FifoInv
<1>5. CASE ~NewBlock
  <2>1. fifo' = fifo /\ nb = cur.block BY <1>5 DEF PageWritten
  <2>2. \A k \in DOMAIN fifo : fifo[k] \in Blocks BY <1>1
  <2> QED BY <1>0, <1>1, <1>2, <1>3, <2>1, <2>2 DEF FifoInv
<1> QED BY <1>4, <1>5

\* The contents of the LEBs after the write.
LEMMA WrittenMedia ==
    ASSUME NEW nb, NEW np, NEW rec, PageWritten(nb, np, rec)
    PROVE  /\ \A b \in Blocks : b # nb => Media(b)' = Media(b)
           /\ Media(nb)' = leb'[nb] /\ ~FullLeb(Media(nb)')
           /\ MediaPage(At(nb, np))' = rec
<1>1. nb \in Blocks /\ np \in Pages /\ Written1(rec) /\ leb'[nb].page[np] = rec /\ leb'[nb].log = Empty
  BY DEF PageWritten
<1>2. leb'[nb] # EmptyLeb BY <1>1, EmptyPages
<1>3. Media(nb)' = leb'[nb] BY <1>2 DEF Media
<1>4. ~FullLeb(leb'[nb]) BY <1>1 DEF FullLeb, Written1
<1>5. \A b \in Blocks : b # nb => Media(b)' = Media(b) BY DEF Media, PageWritten
<1> QED BY <1>1, <1>3, <1>4, <1>5 DEF MediaPage, At

\* The pages written before.
LEMMA WrittenPages ==
    ASSUME NEW nb, NEW np, NEW rec, PageWritten(nb, np, rec), NEW i \in Pos, i # At(nb, np)
    PROVE  /\ Written1(MediaPage(i)') => MediaPage(i)' = MediaPage(i)
           /\ Written1(leb[i.block].page[i.page]) =>
                /\ leb'[i.block].page[i.page] = leb[i.block].page[i.page]
                /\ MediaPage(i)' = leb[i.block].page[i.page] /\ MediaPage(i) = leb[i.block].page[i.page]
<1> DEFINE b == i.block
           p == i.page
<1>1. b \in Blocks /\ p \in Pages /\ i = At(b, p) BY DEF Pos, At
<1> HIDE DEF b, p
<1>2. MediaPage(i) = Media(b).page[p] /\ MediaPage(i)' = Media(b)'.page[p] BY DEF MediaPage, b, p
<1>3. Written1(leb[b].page[p]) => leb[b] # EmptyLeb BY <1>1, EmptyPages
<1>4. CASE b # nb
  <2>1. leb'[b] = leb[b] /\ Media(b)' = Media(b) BY <1>1, <1>4, WrittenMedia DEF PageWritten
  <2>2. leb[b] # EmptyLeb => Media(b) = leb[b] BY DEF Media
  <2> QED BY <1>2, <1>3, <2>1, <2>2 DEF b, p
<1>5. CASE b = nb
  <2>1. p # np BY <1>1, <1>5
  <2>2. leb'[b].page[p] = leb[b].page[p] BY <1>1, <1>5, <2>1 DEF PageWritten
  <2>3. Media(b)' = leb'[b] BY <1>5, WrittenMedia
  <2>4. leb[b] # EmptyLeb => Media(b) = leb[b] BY DEF Media
  <2> QED BY <1>2, <1>3, <2>2, <2>3, <2>4 DEF b, p
<1> QED BY <1>4, <1>5

\* The ids of blocks afterwards.
LEMMA WrittenIds ==
    ASSUME LebInv, op.pc # "log", NEW nb, NEW np, NEW rec, PageWritten(nb, np, rec)
    PROVE  /\ IdInv'
           /\ \A b \in Blocks : FullLeb(Media(b)') => b # nb /\ Media(b)'.log.id < blockId'
<1>0. FlashInv /\ IdInv /\ blockId \in Int BY CurType DEF LebInv
<1>1. \A b \in Blocks : FullLeb(Media(b)') => b # nb /\ Media(b)' = Media(b) BY WrittenMedia
<1>2. ASSUME NEW b \in Blocks, FullLeb(Media(b)') PROVE Media(b).log.id < blockId'
  <2>0. b # nb /\ FullLeb(Media(b)) BY <1>1, <1>2
  <2>1. CASE NewBlock
    <3>1. blockId' = blockId + 1 /\ cur.page = NPages - 1 /\ cur.block # None BY <2>1 DEF PageWritten
    <3>2. CASE b # cur.block \/ leb[b] = EmptyLeb
      <4>1. Media(b).log.id < blockId BY <1>0, <2>0, <3>2 DEF IdInv
      <4>2. Media(b).log.id \in 0 .. MaxId
        <5>1. Media(b) \in LebType BY DEF LebInv, TypeInv, UftlTypeOK, Media
        <5> QED BY <2>0, <5>1 DEF FullLeb, Written1, LebType, LogRec
      <4>3. Media(b).log.id \in Int BY <4>2
      <4> QED BY <1>0, <3>1, <4>1, <4>3
    <3>3. CASE b = cur.block /\ leb[b] # EmptyLeb
      <4>1. leb[cur.block].log.id = blockId BY <1>0, <3>1 DEF FlashInv
      <4>2. Media(b) = leb[b] BY <3>3 DEF Media
      <4> QED BY <1>0, <3>1, <3>3, <4>1, <4>2
    <3> QED BY <3>2, <3>3
  <2>2. CASE ~NewBlock
    <3>1. blockId' = blockId /\ nb = cur.block BY <2>2 DEF PageWritten
    <3> QED BY <1>0, <2>0, <3>1 DEF IdInv
  <2> QED BY <2>1, <2>2
<1>3. IdInv' BY <1>0, <1>1, <1>2 DEF IdInv
<1> QED BY <1>1, <1>2, <1>3

\* No page is newer than the one written now.
LEMMA WrittenNewest ==
    ASSUME LebInv, op.pc # "log", NEW nb, NEW np, NEW rec, PageWritten(nb, np, rec), rec.id = blockId',
           FlashInv', NEW i \in Pos, Written1(MediaPage(i)')
    PROVE  Older(i, At(nb, np))'
<1> DEFINE b == i.block
           p == i.page
<1>1. b \in Blocks /\ p \in Pages /\ i = At(b, p) BY DEF Pos, At
<1>2. cur' = At(nb, np) /\ MediaPage(At(nb, np))' = rec /\ Media(nb)' = leb'[nb]
  <2>1. cur' = At(nb, np) BY DEF PageWritten
  <2> QED BY <2>1, WrittenMedia
<1>3. MediaPage(i)' = Media(b)'.page[p] BY DEF MediaPage
<1>4. cur'.block = nb /\ cur'.page = np /\ np \in Int BY <1>2 DEF At, PageWritten, Pages
<1>5. CASE b = nb
  <2>1. OpenLeb(leb'[nb], np + 1, blockId') BY WrittenOpen
  <2>2. p < np + 1
    <3> SUFFICES ASSUME ~(p < np + 1) PROVE FALSE OBVIOUS
    <3>1. leb'[nb].page[p] = Empty BY <1>1, <2>1 DEF OpenLeb
    <3> QED BY <1>2, <1>3, <1>5, <3>1 DEF Written1
  <2>3. p <= np
    <3>1. p \in Int BY <1>1 DEF Pages
    <3> QED BY <1>4, <2>2, <3>1
  <2> QED BY <1>5, <2>3 DEF Older, At
<1>6. CASE b # nb
  <2>1. FullLeb(Media(b)')
    <3>1. Media(b)' = undone'[b] \/ Media(b)' = leb'[b] BY DEF Media
    <3>2. \/ Media(b)' = EmptyLeb \/ FullLeb(Media(b)') \/ TornLeb(Media(b)')
      BY <1>1, <1>4, <1>6, <3>1 DEF FlashInv
    <3>3. Media(b)' # EmptyLeb BY <1>1, <1>3, EmptyPages
    <3>4. ~TornLeb(Media(b)')
      <4>1. CASE p = 0 BY <1>3, <4>1 DEF TornLeb, Written1
      <4>2. CASE p # 0 BY <1>1, <1>3, <4>2 DEF TornLeb, Written1
      <4> QED BY <4>1, <4>2
    <3> QED BY <3>2, <3>3, <3>4
  <2>2. Media(b)'.log.id < blockId' BY <1>1, <2>1, WrittenIds
  <2>3. MediaPage(i)'.id = Media(b)'.log.id BY <1>1, <1>3, <2>1 DEF FullLeb
  <2> QED BY <1>2, <2>2, <2>3 DEF Older
<1> QED BY <1>5, <1>6

(***************************************************************************)
(* sync_one_buf() writes a page.                                           *)
(***************************************************************************)
\* The sectors on flash are merged into a buffer.
LEMMA PoolMerged ==
    ASSUME TypeInv, BufInv, DataInv, NEW i \in Bufs, pool[i].sector # None,
           pool' = [pool EXCEPT ![i].data = Merged(pool[i])], want' = want
    PROVE  /\ pool' \in PoolTypes /\ BufInv'
           /\ \A j \in Bufs : pool'[j].sector = pool[j].sector /\ pool'[j].dirty = pool[j].dirty
           /\ \A w : Holding(w)' = Holding(w)
<1>0. pool \in PoolTypes BY DEF TypeInv, UftlTypeOK, PoolTypes
<1> DEFINE d == Merged(pool[i])
<1>1. d \in Data /\ Agrees(d, pool[i].sector) BY MergedIs
<1> HIDE DEF d
<1>2. pool' = [pool EXCEPT ![i].data = d] BY DEF d
<1>3. pool' \in PoolTypes BY <1>0, <1>1, <1>2 DEF PoolTypes
<1>4. /\ \A j \in Bufs : j # i => pool'[j] = pool[j]
      /\ pool'[i].sector = pool[i].sector /\ pool'[i].dirty = pool[i].dirty
      /\ pool'[i].read = pool[i].read /\ pool'[i].data = d
  BY <1>0, <1>2 DEF PoolTypes
<1>5. \A j \in Bufs : pool'[j].sector = pool[j].sector /\ pool'[j].dirty = pool[j].dirty
  BY <1>4
<1>6. \A w : Holding(w)' = Holding(w) BY <1>5 DEF Holding
<1>7. BufInv'
  <2>1. \A j \in Bufs : pool'[j].sector = None => pool'[j] = NoBuf BY <1>4, <1>5 DEF BufInv
  <2>2. \A j, k \in Bufs : pool'[j].sector = pool'[k].sector /\ pool'[j].sector # None => j = k
    BY <1>5 DEF BufInv
  <2>3. ASSUME NEW j \in Bufs, pool'[j].sector # None, NEW s \in Secs, s \in pool'[j].dirty \/ pool'[j].read,
               want[pool'[j].sector][s] # Junk
        PROVE  pool'[j].data[s] = want[pool'[j].sector][s]
    <3>1. CASE j = i BY <1>1, <1>4, <2>3, <3>1 DEF Agrees
    <3>2. CASE j # i BY <1>4, <2>3, <3>2 DEF BufInv
    <3> QED BY <3>1, <3>2
  <2> QED BY <2>1, <2>2, <2>3 DEF BufInv
<1> QED BY <1>3, <1>5, <1>6, <1>7

\* A dirty buffer holds a virtual sector.
LEMMA DirtyHolds ==
    ASSUME TypeInv, BufInv, NEW i \in Bufs, pool[i].dirty # {}
    PROVE  pool[i].sector \in Virt /\ pool[i].sector # None
<1>1. NoBuf.dirty = {} BY DEF NoBuf
<1>2. pool[i].sector # None BY <1>1 DEF BufInv
<1> QED BY <1>2, PoolType

\* block_id stays in its bound.
LEMMA TakenId ==
    ASSUME TypeInv, TakePage
    PROVE  blockId' \in 0 .. MaxId
<1>1. MaxId \in Nat /\ blockId \in 0 .. MaxId BY UftlSizes DEF TypeInv, UftlTypeOK
<1> QED BY <1>1 DEF TakePage

\* The pages in use are not touched.
LEMMA WrittenData ==
    ASSUME LebInv, NEW nb, NEW np, NEW rec, PageWritten(nb, np, rec), NEW v \in Virt,
           NEW i, i = index[v], i # None
    PROVE  /\ i \in Pos /\ i # At(nb, np)
           /\ leb'[i.block].page[i.page] = leb[i.block].page[i.page]
           /\ MediaPage(i) = leb[i.block].page[i.page] /\ MediaPage(i)' = MediaPage(i)
           /\ Written1(leb[i.block].page[i.page]) /\ leb[i.block].page[i.page].sector = v
<1>1. i \in Pos BY DEF LebInv, TypeInv, UftlTypeOK
<1>2. Written1(leb[i.block].page[i.page]) /\ leb[i.block].page[i.page].sector = v
  BY DEF LebInv, OrderInv, Holds, Written1
<1>3. i # At(nb, np)
  <2>1. ~Written1(leb[nb].page[np]) BY DEF PageWritten, Written1
  <2>2. i = At(nb, np) => i.block = nb /\ i.page = np BY DEF At
  <2> QED BY <1>2, <2>1, <2>2
<1>4. /\ leb'[i.block].page[i.page] = leb[i.block].page[i.page]
      /\ MediaPage(i) = leb[i.block].page[i.page] /\ MediaPage(i)' = leb[i.block].page[i.page]
  BY <1>1, <1>2, <1>3, WrittenPages
<1> QED BY <1>1, <1>2, <1>3, <1>4

\* A page is as old, seen from an index that did not change.
LEMMA OlderStill ==
    ASSUME NEW i, NEW j, NEW v, index'[v] = j, MediaPage(i)' = MediaPage(i), MediaPage(j)' = MediaPage(j),
           MediaPage(i).sector = v, Older(i, j)
    PROVE  Older(i, index[MediaPage(i).sector])'
<1>1. MediaPage(i)'.sector = v OBVIOUS
<1>2. index'[MediaPage(i)'.sector] = j BY <1>1
<1>3. Older(i, index[MediaPage(i).sector])' <=>
        \/ MediaPage(i)'.id < MediaPage(index[MediaPage(i).sector])'.id
        \/ i.block = j.block /\ i.page <= j.page
  BY <1>2 DEF Older
<1>4. MediaPage(index[MediaPage(i).sector])' = MediaPage(j)' BY <1>2 DEF MediaPage, Media
<1> QED BY <1>3, <1>4 DEF Older

\* The page of a buffer is written.
LEMMA SyncPageKeeps ==
    ASSUME UftlAll, SyncPage, misread \in BOOLEAN
    PROVE  UftlAll'
<1> DEFINE b == pool[op.buf]
           d == Merged(b)
<1>a. PICK rec : rec = [sector |-> b.sector, id |-> blockId', data |-> d] OBVIOUS
<1>b. PICK nb, np : nb = NewPage.block /\ np = NewPage.page OBVIOUS
<1>0. /\ LebInv /\ TypeInv /\ FlashInv /\ FifoInv /\ IdInv /\ OrderInv /\ StateInv /\ ControlInv
      /\ CallInv /\ BufInv /\ DataInv /\ DurableInv /\ op \in OpType /\ op.buf \in Bufs
  BY DEF UftlAll, LebInv, TypeInv, OpType
<1>1. /\ op.pc = "sync" /\ b.dirty # {} /\ NewPage.block # None /\ TakePage
      /\ pool' = [pool EXCEPT ![op.buf].data = Merged(pool[op.buf])]
      /\ leb' = [leb EXCEPT ![NewPage.block].page[NewPage.page] = rec]
      /\ logPage' = [logPage EXCEPT ![NewPage.page] = b.sector]
      /\ op' = [op EXCEPT !.pc = IF np = NPages - 1 THEN "log" ELSE "index", !.after = "index"]
      /\ undone' = [undone EXCEPT ![NewPage.block] = EmptyLeb]
      /\ UNCHANGED <<index, state, using, checkCount, want, durable, misread>>
  BY <1>a, <1>b DEF SyncPage, hist
<1>2. b.sector \in Virt /\ b.sector # None BY <1>0, <1>1, DirtyHolds
<1>3. d \in Data /\ Agrees(d, b.sector) BY <1>0, <1>2, MergedIs
<1>4. blockId' \in 0 .. MaxId BY <1>0, <1>1, TakenId
<1>5. /\ pool' \in PoolTypes /\ BufInv'
      /\ \A j \in Bufs : pool'[j].sector = pool[j].sector /\ pool'[j].dirty = pool[j].dirty
      /\ \A w : Holding(w)' = Holding(w)
  BY <1>0, <1>1, <1>2, PoolMerged
<1> HIDE DEF d
<1>6. rec \in PageRec /\ rec.id = blockId' /\ rec.sector = b.sector /\ rec.data = d
  BY <1>a, <1>2, <1>3, <1>4 DEF PageRec
<1>7. NextWritten(rec)
  <2>1. op.pc # "log" BY <1>1
  <2>2. logPage' = [logPage EXCEPT ![NewPage.page] = rec.sector] BY <1>1, <1>6
  <2> QED BY <1>1, <1>6, <2>1, <2>2 DEF NextWritten
<1>8. PageWritten(nb, np, rec)
  <2>1. PageWritten(NewPage.block, NewPage.page, rec) BY <1>0, <1>7, PageWrittenIs
  <2> QED BY <1>b, <2>1
<1>9. /\ op' \in OpType /\ op'.call = op.call /\ op'.buf = op.buf /\ op'.after = "index"
      /\ op'.pc = IF np = NPages - 1 THEN "log" ELSE "index"
  <2> DEFINE pc == IF np = NPages - 1 THEN "log" ELSE "index"
  <2>1. pc \in Pcs BY DEF Pcs
  <2>2. op' = [op EXCEPT !.pc = pc, !.after = "index"] BY <1>1
  <2> HIDE DEF pc
  <2>3. op' \in OpType /\ op'.call = op.call /\ op'.buf = op.buf /\ op'.after = "index" /\ op'.pc = pc
    BY <1>0, <2>1, <2>2 DEF OpType
  <2> QED BY <2>3 DEF pc
<1>10. op.pc # "log" /\ op'.pc \in {"log", "index"} /\ (op'.pc = "log" <=> np = NPages - 1)
  BY <1>1, <1>9
<1>11. FlashInv' BY <1>0, <1>6, <1>8, <1>10, WrittenFlash
<1>12. FifoInv' /\ fifo' \in Seq(Blocks) /\ Len(fifo') <= NBlocks BY <1>0, <1>8, WrittenFifo
<1>13. IdInv' BY <1>0, <1>8, <1>10, WrittenIds
<1>14. /\ cur' = At(nb, np) /\ nb \in Blocks /\ np \in Pages /\ cur' \in Pos
       /\ cur'.block = nb /\ cur'.page = np /\ cur'.block # None /\ cur'.page >= 0
  BY <1>8, UftlSentinels DEF PageWritten, At, Pages
<1>15. Pending' /\ ~Scrubbing' /\ ~AfterIndex' BY <1>9, <1>10 DEF Pending, Scrubbing, AfterIndex
<1>16. ~Pending /\ ~Scrubbing BY <1>1 DEF Pending, Scrubbing
<1>17. index' = index /\ state' = state /\ using' = using /\ want' = want /\ durable' = durable
       /\ checkCount' = checkCount /\ misread' = misread
  BY <1>1
<1>18. ASSUME NEW v \in Virt, NEW i, i = index[v], i # None
       PROVE  /\ i \in Pos /\ i # At(nb, np)
              /\ leb'[i.block].page[i.page] = leb[i.block].page[i.page]
              /\ MediaPage(i) = leb[i.block].page[i.page] /\ MediaPage(i)' = MediaPage(i)
              /\ Written1(leb[i.block].page[i.page]) /\ leb[i.block].page[i.page].sector = v
  BY <1>0, <1>8, <1>18, WrittenData
<1>19. OrderInv'
  <2>1. ASSUME NEW i \in Pos, Written1(MediaPage(i)'), i # cur'
        PROVE  index'[MediaPage(i)'.sector] # None /\ Older(i, index[MediaPage(i).sector])'
    <3>1. MediaPage(i)' = MediaPage(i) /\ i # At(nb, np) BY <1>8, <1>14, <2>1, WrittenPages
    <3>2. PICK w, j : w = MediaPage(i).sector /\ j = index[w] OBVIOUS
    <3>3. j # None /\ Older(i, j) BY <1>0, <1>16, <2>1, <3>1, <3>2 DEF OrderInv
    <3>4. w \in Virt
      <4>1. Media(i.block) \in LebType BY <1>0, <2>1 DEF TypeInv, UftlTypeOK, Media, Pos
      <4>2. Written1(Media(i.block).page[i.page]) /\ i.page \in Pages BY <2>1, <3>1 DEF MediaPage, Pos
      <4> QED BY <3>2, <4>1, <4>2, PageType DEF MediaPage
    <3>5. MediaPage(j)' = MediaPage(j) BY <1>18, <3>2, <3>3, <3>4
    <3>6. index'[w] = j BY <1>17, <3>2
    <3>7. Older(i, index[MediaPage(i).sector])' BY <3>1, <3>2, <3>3, <3>5, <3>6, OlderStill
    <3> QED BY <3>1, <3>2, <3>3, <3>6, <3>7
  <2>2. ASSUME NEW v \in Virt, index'[v] # None PROVE Holds(index[v], v)' /\ index'[v] # cur'
    <3>1. PICK i : i = index[v] OBVIOUS
    <3>2. i # None /\ index'[v] = i BY <1>17, <2>2, <3>1
    <3>3. /\ i # At(nb, np) /\ leb'[i.block].page[i.page] = leb[i.block].page[i.page]
          /\ Written1(leb[i.block].page[i.page]) /\ leb[i.block].page[i.page].sector = v
      BY <1>18, <3>1, <3>2
    <3>4. Holds(index[v], v)' BY <3>2, <3>3 DEF Holds, Written1
    <3> QED BY <1>14, <3>2, <3>3, <3>4
  <2> QED
    <3>1. Pending' BY <1>15
    <3> QED BY <2>1, <2>2, <3>1 DEF OrderInv
<1>20. StateInv'
  <2>1. ASSUME NEW c \in Blocks, NEW p \in Pages
        PROVE  state[c][p] = "empty" <=> leb'[c].page[p] = Empty \/ cur' = At(c, p)
    <3>1. state[c][p] = "empty" <=> leb[c].page[p] = Empty BY <1>0, <1>16 DEF StateInv
    <3>2. cur' = At(c, p) <=> c = nb /\ p = np BY <1>14 DEF At
    <3>3. CASE c = nb /\ p = np BY <1>8, <3>1, <3>2, <3>3 DEF PageWritten
    <3>4. CASE ~(c = nb /\ p = np)
      <4>1. leb'[c].page[p] = leb[c].page[p] BY <1>8, <3>4 DEF PageWritten
      <4> QED BY <3>1, <3>2, <3>4, <4>1
    <3> QED BY <3>3, <3>4
  <2>2. cur.block # None BY <1>8 DEF PageWritten
  <2>3. \A c \in Blocks, p \in Pages : state[c][p] = "using" => \E v \in Virt : index[v] = At(c, p)
    BY <1>0, <1>16, <2>2 DEF StateInv
  <2>4. \A v \in Virt : index[v] # None => state[index[v].block][index[v].page] = "using"
    BY <1>0 DEF StateInv
  <2>5. \A c \in Blocks : using[c] = UsingOf(state, c) BY <1>0 DEF StateInv
  <2>6. state' = state /\ index' = index /\ using' = using BY <1>17
  <2>7. \A c \in Blocks : UsingOf(state', c) = UsingOf(state, c) BY <2>6
  <2> QED BY <1>15, <2>1, <2>3, <2>4, <2>5, <2>6, <2>7 DEF StateInv
<1>21. ControlInv'
  <2>1. pool'[op.buf].sector # None /\ pool'[op.buf].dirty # {} BY <1>0, <1>1, <1>2, <1>5
  <2> QED BY <1>9, <1>10, <1>14, <1>15, <2>1 DEF ControlInv
<1>22. CallInv' BY <1>0, <1>1, <1>5, <1>9, <1>10, <1>17 DEF CallInv
<1>23. ASSUME NEW v \in Virt, index[v] # None PROVE PageData(index[v])' = PageData(index[v])
  <2>1. PICK i : i = index[v] OBVIOUS
  <2>2. leb'[i.block].page[i.page] = leb[i.block].page[i.page] BY <1>18, <1>23, <2>1
  <2>3. index'[v] = i BY <1>17, <2>1
  <2> QED BY <2>1, <2>2, <2>3 DEF PageData
<1>24. DataInv'
  <2>1. ASSUME NEW v \in Virt, NEW s \in Secs, \A i \in Holding(v)' : s \notin pool'[i].dirty
        PROVE  OnFlash(v, s)'
    <3>1. \A i \in Holding(v) : s \notin pool[i].dirty BY <1>5, <2>1 DEF Holding
    <3>2. OnFlash(v, s) BY <1>0, <3>1 DEF DataInv
    <3> QED BY <1>17, <1>23, <3>2 DEF OnFlash
  <2>2. leb'[cur'.block].page[cur'.page] = rec BY <1>8, <1>14 DEF PageWritten
  <2>3. pool'[op'.buf].sector = b.sector BY <1>0, <1>5, <1>9
  <2>5. leb'[cur'.block].page[cur'.page].sector = pool'[op'.buf].sector BY <1>6, <2>2, <2>3
  <2>6. Agrees(leb[cur.block].page[cur.page].data, pool[op.buf].sector)'
    BY <1>3, <1>6, <1>17, <2>2, <2>3 DEF Agrees
  <2> QED BY <1>15, <2>1, <2>5, <2>6 DEF DataInv
<1>25. DurableInv'
  <2>1. \A v \in Virt : index[v] # None => PageData(index[v])' = PageData(index[v]) BY <1>23
  <2> QED BY <1>0, <1>17, <2>1 DEF DurableInv
<1>26. TypeInv'
  <2>1. leb' \in [Blocks -> LebType] /\ undone' \in [Blocks -> LebType] /\ logPage' \in [Pages -> Virt \cup {None}]
    BY <1>8 DEF PageWritten
  <2>2. cur' \in [block : Blocks \cup {None}, page : -1 .. NPages - 1]
    BY <1>14 DEF At, Pages
  <2>3. op'.pc \in Pcs /\ op'.buf \in Bufs BY <1>9 DEF OpType
  <2>4. pool' \in [Bufs -> [sector : Virt \cup {None}, read : BOOLEAN, dirty : SUBSET Secs, data : Data]]
    BY <1>5 DEF PoolTypes
  <2>5. UftlTypeOK' BY <1>0, <1>4, <1>12, <1>17, <2>1, <2>2, <2>3, <2>4 DEF TypeInv, UftlTypeOK
  <2> QED BY <1>9, <2>5 DEF TypeInv, OpType
<1> QED BY <1>11, <1>12, <1>13, <1>19, <1>20, <1>21, <1>22, <1>24, <1>25, <1>26, <1>5 DEF UftlAll, LebInv

(***************************************************************************)
(* scrub_block() copies a page.                                            *)
(***************************************************************************)
\* The page that is copied is the one of its virtual sector.
LEMMA VictimPage ==
    ASSUME UftlAll, op.pc = "scrub", NEW p, p = Min({q \in Pages : q >= op.page /\ state[op.block][q] = "using"}),
           \E q \in Pages : q >= op.page /\ state[op.block][q] = "using",
           NEW v, v = leb[op.block].page[p].sector
    PROVE  /\ p \in Pages /\ p >= op.page /\ state[op.block][p] = "using" /\ p \in Int /\ op.page \in Int
           /\ p + 1 \in 0 .. NPages /\ p + 1 > 0
           /\ \A q \in Pages : q >= op.page /\ state[op.block][q] = "using" => p <= q
           /\ op.block \in Blocks /\ v \in Virt /\ index[v] = At(op.block, p)
<1>0. LebInv /\ TypeInv /\ StateInv /\ ControlInv /\ OrderInv BY DEF UftlAll, LebInv
<1> DEFINE S == {q \in Pages : q >= op.page /\ state[op.block][q] = "using"}
<1>1. NPages - 1 \in Nat /\ S \subseteq 0 .. NPages - 1 /\ S # {} BY ZeroPage DEF Pages
<1>2. p = Min(S) OBVIOUS
<1> HIDE DEF S
<1>3. \E m \in S : \A k \in S : m <= k BY <1>1, LeastNat
<1>4. p \in S /\ \A k \in S : p <= k BY <1>2, <1>3 DEF Min
<1>5. /\ p \in Pages /\ p >= op.page /\ state[op.block][p] = "using"
      /\ \A q \in Pages : q >= op.page /\ state[op.block][q] = "using" => p <= q
  BY <1>4 DEF S
<1>6. p \in Int /\ p + 1 \in 0 .. NPages /\ p + 1 > 0 BY <1>5, ZeroPage DEF Pages
<1>7. op.page \in Int BY <1>0, ZeroPage DEF TypeInv
<1>8. Scrubbing /\ op.block \in Blocks BY <1>0 DEF Scrubbing, ControlInv
<1>9. cur.block # None BY <1>0 DEF ControlInv
<1>10. ~(p < op.page) BY <1>5, <1>6, <1>7
<1>11. PICK w \in Virt : index[w] = At(op.block, p)
  BY <1>0, <1>5, <1>8, <1>9, <1>10 DEF StateInv
<1>12. index[w] # None
  <2>1. At(op.block, p) \in Pos BY <1>5, <1>8 DEF At, Pos
  <2> QED BY <1>11, <2>1, UftlSentinels
<1>13. leb[op.block].page[p].sector = w
  <2>1. Holds(index[w], w) BY <1>0, <1>11, <1>12 DEF OrderInv
  <2>2. index[w].block = op.block /\ index[w].page = p BY <1>11 DEF At
  <2> QED BY <2>1, <2>2 DEF Holds
<1> QED BY <1>5, <1>6, <1>7, <1>8, <1>11, <1>13

\* A page of the victim is copied.
LEMMA ScrubPageKeeps ==
    ASSUME UftlAll, ScrubPage, misread \in BOOLEAN, ~misread'
    PROVE  UftlAll'
<1>a. PICK p : p = Min({q \in Pages : q >= op.page /\ state[op.block][q] = "using"}) OBVIOUS
<1>b. PICK nb, np : nb = NewPage.block /\ np = NewPage.page OBVIOUS
<1>c. PICK ob, old : ob = op.block /\ old = leb[op.block].page[p] OBVIOUS
<1>d. PICK rec : rec = [old EXCEPT !.id = blockId'] OBVIOUS
<1>e. PICK sec : sec = old.sector OBVIOUS
<1>0. /\ LebInv /\ TypeInv /\ FlashInv /\ FifoInv /\ IdInv /\ OrderInv /\ StateInv /\ ControlInv
      /\ CallInv /\ BufInv /\ DataInv /\ DurableInv /\ op \in OpType /\ op.buf \in Bufs
  BY DEF UftlAll, LebInv, TypeInv, OpType
<1>1. /\ op.pc = "scrub" /\ NewPage.block # None /\ TakePage
      /\ \E q \in Pages : q >= op.page /\ state[op.block][q] = "using"
      /\ index' = [index EXCEPT ![sec] = NewPage]
      /\ state' = [state EXCEPT ![nb][np] = "using"]
      /\ using' = [using EXCEPT ![nb] = @ + 1]
      /\ leb' = [leb EXCEPT ![NewPage.block].page[NewPage.page] = rec]
      /\ undone' = [undone EXCEPT ![NewPage.block] = EmptyLeb]
      /\ logPage' = [logPage EXCEPT ![NewPage.page] = sec]
      /\ op' = [op EXCEPT !.pc = IF np = NPages - 1 THEN "log" ELSE "scrub",
                          !.page = p + 1, !.after = "scrub"]
      /\ UNCHANGED <<checkCount, pool, want, durable, misread>>
  BY <1>a, <1>b, <1>c, <1>d, <1>e DEF ScrubPage
<1>2. /\ p \in Pages /\ p >= op.page /\ state[ob][p] = "using" /\ p \in Int /\ op.page \in Int
      /\ p + 1 \in 0 .. NPages /\ p + 1 > 0
      /\ \A q \in Pages : q >= op.page /\ state[ob][q] = "using" => p <= q
      /\ ob \in Blocks /\ sec \in Virt /\ index[sec] = At(ob, p)
  <2>1. sec = leb[op.block].page[p].sector BY <1>c, <1>e
  <2> QED BY <1>1, <1>a, <1>c, <2>1, VictimPage
<1>3. Scrubbing /\ FullLeb(leb[ob]) BY <1>0, <1>1, <1>c DEF Scrubbing, ControlInv
<1>4. old \in PageRec
  <2>1. leb[ob] \in LebType /\ Written1(leb[ob].page[p]) BY <1>0, <1>2, <1>3 DEF TypeInv, UftlTypeOK, FullLeb
  <2> QED BY <1>2, <1>c, <2>1, PageType
<1>5. blockId' \in 0 .. MaxId BY <1>0, <1>1, TakenId
<1>6. rec \in PageRec /\ rec.id = blockId' /\ rec.sector = sec /\ rec.data = old.data
  BY <1>4, <1>5, <1>d, <1>e DEF PageRec
<1>7. NextWritten(rec)
  <2>1. op.pc # "log" BY <1>1
  <2>2. logPage' = [logPage EXCEPT ![NewPage.page] = rec.sector] BY <1>1, <1>6
  <2> QED BY <1>1, <1>6, <2>1, <2>2 DEF NextWritten
<1>8. PageWritten(nb, np, rec)
  <2>1. PageWritten(NewPage.block, NewPage.page, rec) BY <1>0, <1>7, PageWrittenIs
  <2> QED BY <1>b, <2>1
<1>9. /\ op' \in OpType /\ op'.call = op.call /\ op'.buf = op.buf /\ op'.after = "scrub"
      /\ op'.block = ob /\ op'.page = p + 1
      /\ op'.pc = IF np = NPages - 1 THEN "log" ELSE "scrub"
  <2> DEFINE pc == IF np = NPages - 1 THEN "log" ELSE "scrub"
  <2>1. pc \in Pcs BY DEF Pcs
  <2>2. op' = [op EXCEPT !.pc = pc, !.page = p + 1, !.after = "scrub"] BY <1>1
  <2> HIDE DEF pc
  <2>3. /\ op' \in OpType /\ op'.call = op.call /\ op'.buf = op.buf /\ op'.after = "scrub"
        /\ op'.block = op.block /\ op'.page = p + 1 /\ op'.pc = pc
    BY <1>0, <1>2, <2>1, <2>2 DEF OpType
  <2> QED BY <1>c, <2>3 DEF pc
<1>10. op.pc # "log" /\ op'.pc \in {"log", "scrub"} /\ (op'.pc = "log" <=> np = NPages - 1)
  BY <1>1, <1>9
<1>11. FlashInv' BY <1>0, <1>6, <1>8, <1>10, WrittenFlash
<1>12. FifoInv' /\ fifo' \in Seq(Blocks) /\ Len(fifo') <= NBlocks BY <1>0, <1>8, WrittenFifo
<1>13. IdInv' BY <1>0, <1>8, <1>10, WrittenIds
<1>14. /\ cur' = At(nb, np) /\ nb \in Blocks /\ np \in Pages /\ At(nb, np) \in Pos
       /\ cur'.block = nb /\ cur'.page = np /\ cur'.block # None /\ cur'.page >= 0
  BY <1>8, UftlSentinels DEF PageWritten, At, Pages
<1>15. ~Pending' /\ Scrubbing' /\ AfterIndex' BY <1>9, <1>10 DEF Pending, Scrubbing, AfterIndex
<1>16. ~Pending /\ AfterIndex BY <1>1 DEF Pending, AfterIndex
<1>17. /\ index \in [Virt -> Pos \cup {None}] /\ using \in [Blocks -> 0 .. NPages]
       /\ state \in [Blocks -> [Pages -> {"empty", "using", "discard"}]]
  BY <1>0 DEF TypeInv, UftlTypeOK
<1>18. /\ index'[sec] = At(nb, np) /\ \A v \in Virt : v # sec => index'[v] = index[v]
       /\ index' \in [Virt -> Pos \cup {None}]
  <2>1. NewPage = At(nb, np)
    <3>1. NewPage = cur' BY <1>1 DEF TakePage
    <3> QED BY <1>14, <3>1
  <2> QED BY <1>1, <1>2, <1>14, <1>17, <2>1
<1>19. ASSUME NEW v \in Virt, NEW i, i = index[v], i # None
       PROVE  /\ i \in Pos /\ i # At(nb, np)
              /\ leb'[i.block].page[i.page] = leb[i.block].page[i.page]
              /\ MediaPage(i) = leb[i.block].page[i.page] /\ MediaPage(i)' = MediaPage(i)
              /\ Written1(leb[i.block].page[i.page]) /\ leb[i.block].page[i.page].sector = v
  BY <1>0, <1>8, <1>19, WrittenData
<1>20. nb # ob
  <2>1. leb[nb].log = Empty BY <1>8 DEF PageWritten
  <2> QED BY <1>3, <2>1 DEF FullLeb, Written1
<1>21. At(nb, np) # None BY <1>14, UftlSentinels
<1>22. OrderInv'
  <2>1. ASSUME NEW i \in Pos, Written1(MediaPage(i)')
        PROVE  index'[MediaPage(i)'.sector] # None /\ Older(i, index[MediaPage(i).sector])'
    <3>1. PICK w : w = MediaPage(i)'.sector OBVIOUS
    <3>2. CASE w = sec
      <4>1. index'[MediaPage(i)'.sector] = At(nb, np) BY <1>18, <3>1, <3>2
      <4>2. Older(i, At(nb, np))' BY <1>0, <1>6, <1>8, <1>10, <1>11, <2>1, WrittenNewest
      <4>3. Older(i, index[MediaPage(i).sector])' BY <4>1, <4>2 DEF Older, MediaPage, Media
      <4> QED BY <1>21, <4>1, <4>3
    <3>3. CASE w # sec
      <4>0. i # At(nb, np)
        <5>1. MediaPage(At(nb, np))' = rec BY <1>8, WrittenMedia
        <5> QED BY <1>6, <3>1, <3>3, <5>1
      <4>1. MediaPage(i)' = MediaPage(i) /\ w = MediaPage(i).sector BY <1>8, <2>1, <3>1, <4>0, WrittenPages
      <4>2. PICK j : j = index[w] OBVIOUS
      <4>3. j # None /\ Older(i, j) BY <1>0, <1>16, <2>1, <4>1, <4>2 DEF OrderInv
      <4>4. w \in Virt
        <5>1. Media(i.block) \in LebType BY <1>0 DEF TypeInv, UftlTypeOK, Media, Pos
        <5>2. Written1(Media(i.block).page[i.page]) /\ i.page \in Pages BY <2>1, <4>1 DEF MediaPage, Pos
        <5> QED BY <4>1, <5>1, <5>2, PageType DEF MediaPage
      <4>5. MediaPage(j)' = MediaPage(j) BY <1>19, <4>2, <4>3, <4>4
      <4>6. index'[w] = j BY <1>18, <3>3, <4>2, <4>4
      <4>7. Older(i, index[MediaPage(i).sector])' BY <4>1, <4>3, <4>5, <4>6, OlderStill
      <4> QED BY <3>1, <4>3, <4>6, <4>7
    <3> QED BY <3>2, <3>3
  <2>2. ASSUME NEW v \in Virt, index'[v] # None PROVE Holds(index[v], v)'
    <3>1. CASE v = sec
      <4>1. leb'[nb].page[np] = rec BY <1>8 DEF PageWritten
      <4>2. index'[v].block = nb /\ index'[v].page = np BY <1>18, <3>1 DEF At
      <4>3. Written1(rec) BY <1>6, RecWritten
      <4> QED BY <1>6, <3>1, <4>1, <4>2, <4>3 DEF Holds, Written1
    <3>2. CASE v # sec
      <4>1. PICK i : i = index[v] OBVIOUS
      <4>2. i # None /\ index'[v] = i BY <1>18, <2>2, <3>2, <4>1
      <4>3. /\ leb'[i.block].page[i.page] = leb[i.block].page[i.page]
            /\ Written1(leb[i.block].page[i.page]) /\ leb[i.block].page[i.page].sector = v
        BY <1>19, <4>1, <4>2
      <4> QED BY <4>2, <4>3 DEF Holds, Written1
    <3> QED BY <3>1, <3>2
  <2> QED BY <1>15, <2>1, <2>2 DEF OrderInv
<1>23. StateInv' /\ using' \in [Blocks -> 0 .. NPages]
       /\ state' \in [Blocks -> [Pages -> {"empty", "using", "discard"}]]
  <2>1. /\ state' \in [Blocks -> [Pages -> {"empty", "using", "discard"}]]
        /\ state'[nb][np] = "using"
        /\ \A c \in Blocks, q \in Pages : ~(c = nb /\ q = np) => state'[c][q] = state[c][q]
    BY <1>1, <1>14, <1>17
  <2>2. state[nb][np] = "empty"
    <3>1. leb[nb].page[np] = Empty BY <1>8 DEF PageWritten
    <3> QED BY <1>0, <1>14, <3>1 DEF StateInv
  <2>3. ASSUME NEW c \in Blocks, NEW q \in Pages
        PROVE  state'[c][q] = "empty" <=> leb'[c].page[q] = Empty
    <3>1. state[c][q] = "empty" <=> leb[c].page[q] = Empty BY <1>0, <1>16 DEF StateInv
    <3>2. CASE c = nb /\ q = np
      <4>1. leb'[c].page[q] = rec BY <1>8, <3>2 DEF PageWritten
      <4>2. Written1(rec) BY <1>6, RecWritten
      <4> QED BY <2>1, <3>2, <4>1, <4>2 DEF Written1
    <3>3. CASE ~(c = nb /\ q = np)
      <4>1. leb'[c].page[q] = leb[c].page[q] BY <1>8, <3>3 DEF PageWritten
      <4> QED BY <2>1, <3>1, <3>3, <4>1
    <3> QED BY <3>2, <3>3
  <2>4. ASSUME NEW v \in Virt, index'[v] # None PROVE state'[index'[v].block][index'[v].page] = "using"
    <3>1. CASE v = sec BY <1>18, <2>1, <3>1 DEF At
    <3>2. CASE v # sec
      <4>1. PICK i : i = index[v] OBVIOUS
      <4>2. i # None /\ index'[v] = i BY <1>18, <2>4, <3>2, <4>1
      <4>3. i \in Pos /\ i # At(nb, np) BY <1>19, <4>1, <4>2
      <4>4. state[i.block][i.page] = "using" BY <1>0, <4>1, <4>2 DEF StateInv
      <4> QED BY <2>1, <4>2, <4>3, <4>4 DEF Pos, At
    <3> QED BY <3>1, <3>2
  <2>5. ASSUME NEW c \in Blocks, NEW q \in Pages, state'[c][q] = "using"
        PROVE  (\E v \in Virt : index'[v] = At(c, q)) \/ (c = ob /\ q < p + 1)
    <3>1. CASE c = nb /\ q = np BY <1>2, <1>18, <3>1
    <3>2. CASE ~(c = nb /\ q = np)
      <4>1. state[c][q] = "using" BY <2>1, <2>5, <3>2
      <4>2. cur.block # None BY <1>0, <1>1 DEF ControlInv
      <4>3. \/ \E v \in Virt : index[v] = At(c, q)
            \/ c = ob /\ q < op.page
        BY <1>0, <1>c, <4>1, <4>2 DEF StateInv
      <4>4. q \in Int BY DEF Pages
      <4>5. CASE c = ob /\ q < op.page
        <5>1. q < p + 1 BY <1>2, <4>4, <4>5
        <5> QED BY <4>5, <5>1
      <4>6. CASE \E v \in Virt : index[v] = At(c, q)
        <5>1. PICK v \in Virt : index[v] = At(c, q) BY <4>6
        <5>2. CASE v = sec
          <6>1. c = ob /\ q = p BY <1>2, <5>1, <5>2 DEF At
          <6>2. q < p + 1 BY <1>2, <6>1
          <6> QED BY <6>1, <6>2
        <5>3. CASE v # sec BY <1>18, <5>1, <5>3
        <5> QED BY <5>2, <5>3
      <4> QED BY <4>3, <4>5, <4>6
    <3> QED BY <3>1, <3>2
  <2>6. ASSUME NEW c \in Blocks PROVE using'[c] = UsingOf(state', c)
    <3>1. using[c] = UsingOf(state, c) BY <1>0 DEF StateInv
    <3>2. CASE c = nb
      <4>0. \A q \in Pages : q # np => (state[c][q] = "using" <=> state'[c][q] = "using")
        BY <2>1, <3>2
      <4>1. UsingOf(state', c) = UsingOf(state, c) + 1
        <5>1. state[c][np] # "using" /\ state'[c][np] = "using" BY <2>1, <2>2, <3>2
        <5> QED BY <1>14, <4>0, <5>1, UsingOne
      <4>2. using'[c] = using[c] + 1 BY <1>1, <1>17, <3>2
      <4> QED BY <3>1, <4>1, <4>2
    <3>3. CASE c # nb
      <4>1. UsingOf(state, c) = UsingOf(state', c) BY <2>1, <3>3, UsingSame
      <4>2. using'[c] = using[c] BY <1>1, <1>17, <3>3
      <4> QED BY <3>1, <4>1, <4>2
    <3> QED BY <3>2, <3>3
  <2>7. using' \in [Blocks -> 0 .. NPages]
    <3>1. \A c \in Blocks : using'[c] \in 0 .. NPages BY <2>6, UsingIs
    <3>2. using' = [c \in Blocks |-> using'[c]] BY <1>1, <1>17
    <3> QED BY <3>1, <3>2
  <2>8. StateInv'
    <3>1. \A c \in Blocks, q \in Pages : state'[c][q] = "using" =>
            \/ \E v \in Virt : index'[v] = At(c, q)
            \/ Scrubbing' /\ c = op'.block /\ q < op'.page
      BY <1>9, <1>15, <2>5
    <3> QED BY <1>15, <2>3, <2>4, <2>6, <3>1 DEF StateInv
  <2> QED BY <2>1, <2>7, <2>8
<1>24. ControlInv'
  <2>1. pool'[op'.buf].sector # None /\ pool'[op'.buf].dirty # {} BY <1>0, <1>1, <1>9 DEF ControlInv
  <2>2. leb'[ob] = leb[ob] BY <1>2, <1>8, <1>20 DEF PageWritten
  <2>3. ASSUME NEW v \in Virt, index'[v] # None, index'[v].block = ob PROVE index'[v].page >= p + 1
    <3>1. v # sec BY <1>18, <1>20, <2>3 DEF At
    <3>2. PICK i : i = index[v] OBVIOUS
    <3>3. i # None /\ index'[v] = i BY <1>18, <2>3, <3>1, <3>2
    <3>4. i \in Pos /\ leb[i.block].page[i.page].sector = v BY <1>19, <3>2, <3>3
    <3>5. i.block = ob /\ i.page \in Pages /\ i.page \in Int BY <2>3, <3>3, <3>4 DEF Pos, Pages
    <3>6. i.page >= op.page BY <1>0, <1>3, <1>c, <3>2, <3>3, <3>5 DEF ControlInv
    <3>7. state[ob][i.page] = "using" BY <1>0, <3>2, <3>3, <3>5 DEF StateInv
    <3>8. p <= i.page BY <1>2, <3>5, <3>6, <3>7
    <3>9. i.page # p BY <1>c, <1>e, <3>1, <3>4, <3>5
    <3> QED BY <1>2, <3>3, <3>5, <3>8, <3>9
  <2>4. op'.page > 0 /\ op'.page # 0 BY <1>2, <1>9
  <2> QED BY <1>2, <1>3, <1>9, <1>10, <1>14, <1>15, <1>20, <2>1, <2>2, <2>3, <2>4 DEF ControlInv
<1>25. \A v \in Virt : index[v] # None => index'[v] # None BY <1>18, <1>21
<1>26. \A w : Holding(w)' = Holding(w) BY <1>1 DEF Holding
<1>27. CallInv'
  <2>1. op'.pc # "resume" /\ op.pc # "idle" BY <1>1, <1>10
  <2>2. op.call.v \in Virt BY <1>0 DEF OpType, CallType
  <2> QED BY <1>0, <1>9, <1>25, <1>26, <2>1, <2>2 DEF CallInv
<1>28. ASSUME NEW v \in Virt, index[v] # None PROVE PageData(index[v])' = PageData(index[v])
  <2>1. PICK i : i = index[v] OBVIOUS
  <2>2. leb'[i.block].page[i.page] = leb[i.block].page[i.page] BY <1>19, <1>28, <2>1
  <2>3. CASE v = sec
    <3>1. PageData(index[v]) = old.data
      <4>1. i.block = ob /\ i.page = p BY <1>2, <2>1, <2>3 DEF At
      <4>2. leb[i.block].page[i.page] = old BY <1>c, <4>1
      <4>3. Written1(old) BY <1>4, RecWritten
      <4> QED BY <2>1, <4>2, <4>3 DEF PageData, Written1
    <3>2. PageData(index[v])' = rec.data
      <4>1. leb'[nb].page[np] = rec BY <1>8 DEF PageWritten
      <4>2. index'[v].block = nb /\ index'[v].page = np BY <1>18, <2>3 DEF At
      <4>3. Written1(rec) BY <1>6, RecWritten
      <4> QED BY <4>1, <4>2, <4>3 DEF PageData, Written1
    <3> QED BY <1>6, <3>1, <3>2
  <2>4. CASE v # sec
    <3>1. index'[v] = i BY <1>18, <2>1, <2>4
    <3> QED BY <2>1, <2>2, <3>1 DEF PageData
  <2> QED BY <2>3, <2>4
<1>29. \A v \in Virt, s \in Secs : OnFlash(v, s) => OnFlash(v, s)'
  <2>1. want' = want BY <1>1
  <2> QED BY <1>25, <1>28, <2>1 DEF OnFlash
<1>30. DataInv'
  <2>1. \A v \in Virt, s \in Secs : (\A i \in Holding(v)' : s \notin pool'[i].dirty) => OnFlash(v, s)'
    BY <1>0, <1>1, <1>26, <1>29 DEF DataInv
  <2>2. \A s \in Secs : OnFlash(pool[op.buf].sector, s)'
    <3>1. pool[op.buf].sector \in Virt
      <4>1. pool[op.buf].dirty # {} BY <1>0, <1>1 DEF ControlInv
      <4> QED BY <1>0, <4>1, DirtyHolds
    <3>2. \A s \in Secs : OnFlash(pool[op.buf].sector, s) BY <1>0, <1>16 DEF DataInv
    <3>3. PICK v : v = pool[op.buf].sector OBVIOUS
    <3>4. v \in Virt /\ v = pool'[op'.buf].sector BY <1>1, <1>9, <3>1, <3>3
    <3>5. \A s \in Secs : OnFlash(v, s) BY <3>2, <3>3
    <3>6. \A s \in Secs : OnFlash(v, s)' BY <1>29, <3>4, <3>5
    <3> QED BY <1>1, <1>9, <3>4, <3>6 DEF OnFlash
  <2> QED BY <1>15, <2>1, <2>2 DEF DataInv
<1>31. DurableInv'
  <2>1. want' = want /\ durable' = durable BY <1>1
  <2> QED BY <1>0, <1>25, <1>28, <2>1 DEF DurableInv
<1>32. BufInv' BY <1>0, <1>1 DEF BufInv
<1>33. TypeInv'
  <2>1. leb' \in [Blocks -> LebType] /\ undone' \in [Blocks -> LebType] /\ logPage' \in [Pages -> Virt \cup {None}]
    BY <1>8 DEF PageWritten
  <2>2. cur' \in [block : Blocks \cup {None}, page : -1 .. NPages - 1]
    BY <1>14 DEF At, Pages
  <2>3. op'.pc \in Pcs /\ op'.buf \in Bufs BY <1>9 DEF OpType
  <2>4. UftlTypeOK' BY <1>0, <1>1, <1>5, <1>12, <1>18, <1>23, <2>1, <2>2, <2>3 DEF TypeInv, UftlTypeOK
  <2> QED BY <1>9, <2>4 DEF TypeInv, OpType
<1> QED BY <1>11, <1>12, <1>13, <1>22, <1>23, <1>24, <1>27, <1>30, <1>31, <1>32, <1>33 DEF UftlAll, LebInv

(***************************************************************************)
(* The log page.                                                           *)
(***************************************************************************)
\* Pages that are read from stay, and no page appears.
PagesStay ==
    /\ \A i \in Pos : Written1(MediaPage(i)') => MediaPage(i)' = MediaPage(i)
    /\ \A i \in Pos : (\E v \in Virt : index[v] = i) =>
        MediaPage(i)' = MediaPage(i) /\ leb'[i.block].page[i.page] = leb[i.block].page[i.page]

\* Then the index stays that of the newest pages.
LEMMA OrderStays ==
    ASSUME TypeInv, OrderInv, UNCHANGED <<index, cur>>, PagesStay, Pending' <=> Pending
    PROVE  OrderInv'
<1>0. index \in [Virt -> Pos \cup {None}] /\ leb \in [Blocks -> LebType] /\ undone \in [Blocks -> LebType]
  BY DEF TypeInv, UftlTypeOK
<1>1. ASSUME NEW i \in Pos, Written1(MediaPage(i)'), ~(Pending /\ i = cur)
      PROVE  index'[MediaPage(i)'.sector] # None /\ Older(i, index[MediaPage(i).sector])'
  <2>1. MediaPage(i)' = MediaPage(i) BY <1>1 DEF PagesStay
  <2>2. PICK w, j : w = MediaPage(i).sector /\ j = index[w] OBVIOUS
  <2>3. j # None /\ Older(i, j) BY <1>1, <2>1, <2>2 DEF OrderInv
  <2>4. w \in Virt
    <3>1. Media(i.block) \in LebType BY <1>0 DEF Media, Pos
    <3>2. Written1(Media(i.block).page[i.page]) /\ i.page \in Pages BY <1>1, <2>1 DEF MediaPage, Pos
    <3> QED BY <2>2, <3>1, <3>2, PageType DEF MediaPage
  <2>5. j \in Pos BY <1>0, <2>2, <2>3, <2>4
  <2>6. MediaPage(j)' = MediaPage(j) BY <2>2, <2>4, <2>5 DEF PagesStay
  <2>7. index'[w] = j BY <2>2
  <2>8. Older(i, index[MediaPage(i).sector])' BY <2>1, <2>2, <2>3, <2>6, <2>7, OlderStill
  <2> QED BY <2>1, <2>2, <2>3, <2>7, <2>8
<1>2. ASSUME NEW v \in Virt, index'[v] # None PROVE Holds(index[v], v)' /\ ~(Pending /\ index[v] = cur)
  <2>1. PICK i : i = index[v] OBVIOUS
  <2>2. i \in Pos /\ index'[v] = i BY <1>0, <1>2, <2>1
  <2>3. leb'[i.block].page[i.page] = leb[i.block].page[i.page] BY <2>1, <2>2 DEF PagesStay
  <2>4. Holds(i, v) /\ ~(Pending /\ i = cur) BY <1>2, <2>1, <2>2 DEF OrderInv
  <2> QED BY <2>1, <2>2, <2>3, <2>4 DEF Holds
<1> QED BY <1>1, <1>2 DEF OrderInv

\* And so does what is read.
LEMMA DataStays ==
    ASSUME TypeInv, UNCHANGED <<index, want>>, PagesStay
    PROVE  /\ \A v \in Virt : index[v] # None => PageData(index[v])' = PageData(index[v])
           /\ \A v \in Virt, s \in Secs : OnFlash(v, s)' <=> OnFlash(v, s)
<1>1. ASSUME NEW v \in Virt, index[v] # None PROVE PageData(index[v])' = PageData(index[v])
  <2>1. PICK i : i = index[v] OBVIOUS
  <2>2. i \in Pos /\ index'[v] = i BY <1>1, <2>1 DEF TypeInv, UftlTypeOK
  <2>3. leb'[i.block].page[i.page] = leb[i.block].page[i.page] BY <2>1, <2>2 DEF PagesStay
  <2> QED BY <2>1, <2>2, <2>3 DEF PageData
<1> QED BY <1>1 DEF OnFlash

\* The log page is written.
LEMMA WriteLogKeeps ==
    ASSUME UftlAll, WriteLog, misread \in BOOLEAN
    PROVE  UftlAll'
<1>0. /\ LebInv /\ TypeInv /\ FlashInv /\ FifoInv /\ IdInv /\ OrderInv /\ StateInv /\ ControlInv
      /\ CallInv /\ BufInv /\ DataInv /\ DurableInv /\ op \in OpType
  BY DEF UftlAll, LebInv, TypeInv, OpType
<1>1. /\ op.pc = "log" /\ leb' = [leb EXCEPT ![cur.block].log = [id |-> blockId, sectors |-> logPage]]
      /\ op' = [op EXCEPT !.pc = op.after]
      /\ UNCHANGED <<undone, index, state, using, cur, blockId, logPage, fifo, checkCount, pool,
                     want, durable, misread>>
  BY DEF WriteLog, Goto, ram, hist
<1>2. /\ op.after = "index" \/ (op.after = "scrub" /\ op.page > 0)
      /\ cur.block # None /\ cur.page >= 0 /\ cur.page = NPages - 1
      /\ pool[op.buf].sector # None /\ pool[op.buf].dirty # {}
  BY <1>0, <1>1 DEF ControlInv, FlashInv
<1>3. /\ cur.block \in Blocks /\ cur = At(cur.block, cur.page) /\ blockId \in 0 .. MaxId /\ blockId \in Int
      /\ NPages \in Nat /\ NPages > 0
  BY <1>0, <1>2, CurType
<1>4. PICK c : c = cur.block OBVIOUS
<1> DEFINE x == leb[c]
           y == leb'[c]
           log == [id |-> blockId, sectors |-> logPage]
<1>5. leb \in [Blocks -> LebType] /\ logPage \in [Pages -> Virt \cup {None}] /\ c \in Blocks
      /\ index \in [Virt -> Pos \cup {None}]
  BY <1>0, <1>3, <1>4 DEF TypeInv, UftlTypeOK
<1>6. log \in LogRec /\ log.id = blockId /\ log.sectors = logPage BY <1>3, <1>5 DEF LogRec
<1> HIDE DEF log
<1>7. /\ leb' \in [Blocks -> LebType] /\ y.page = x.page /\ y.log = log
      /\ \A b \in Blocks : b # c => leb'[b] = leb[b]
  <2>1. leb' = [leb EXCEPT ![c].log = log] BY <1>1, <1>4 DEF log
  <2>2. x \in [page : [Pages -> PageRec \cup {Empty, Torn}], log : LogRec \cup {Empty, Torn}]
    BY <1>5 DEF LebType
  <2>3. y = [x EXCEPT !.log = log] /\ \A b \in Blocks : b # c => leb'[b] = leb[b] BY <1>5, <2>1
  <2>4. leb' = [leb EXCEPT ![c] = y] BY <1>5, <2>1, <2>3
  <2> HIDE DEF x, y
  <2>5. y \in LebType /\ y.page = x.page /\ y.log = log BY <1>6, <2>2, <2>3 DEF LebType
  <2> QED BY <1>5, <2>3, <2>4, <2>5
<1>8. OpenLeb(x, NPages, blockId)
  <2>1. cur.page + 1 = NPages BY <1>2, <1>3
  <2> QED BY <1>0, <1>1, <1>2, <1>4, <2>1 DEF FlashInv
<1>9. \A p \in Pages : /\ Written1(x.page[p]) /\ x.page[p].id = blockId
                       /\ logPage[p] = x.page[p].sector
  <2> SUFFICES ASSUME NEW p \in Pages
               PROVE  /\ Written1(x.page[p]) /\ x.page[p].id = blockId /\ logPage[p] = x.page[p].sector
    OBVIOUS
  <2>1. p < NPages /\ p \in 0 .. cur.page BY <1>2, <1>3 DEF Pages
  <2>2. logPage[p] = leb[cur.block].page[p].sector BY <1>0, <1>2, <2>1 DEF FlashInv
  <2> QED BY <1>4, <1>8, <2>1, <2>2 DEF OpenLeb
<1>10. Written1(log)
  <2>1. log \notin {Empty, Torn} BY <1>6, UftlSentinels
  <2> QED BY <2>1 DEF Written1
<1> HIDE DEF x, y
<1>11. FullLeb(y) /\ y.log.id = blockId BY <1>6, <1>7, <1>9, <1>10 DEF FullLeb
<1>12. x # EmptyLeb /\ y # EmptyLeb BY <1>7, <1>9, EmptyPages, ZeroPage
<1>13. ~FullLeb(x)
  <2>1. x.log = Empty BY <1>8 DEF OpenLeb
  <2> QED BY <2>1 DEF FullLeb, Written1
<1>14. /\ Media(c) = x /\ Media(c)' = y
       /\ \A b \in Blocks : b # c => Media(b)' = Media(b)
  BY <1>1, <1>7, <1>12 DEF Media, x, y
<1>15. PagesStay
  <2>1. ASSUME NEW i \in Pos
        PROVE  MediaPage(i)' = MediaPage(i) /\ leb'[i.block].page[i.page] = leb[i.block].page[i.page]
    <3>1. i.block \in Blocks BY DEF Pos
    <3>2. CASE i.block = c BY <1>7, <1>14, <3>2 DEF MediaPage, x, y
    <3>3. CASE i.block # c BY <1>7, <1>14, <3>1, <3>3 DEF MediaPage
    <3> QED BY <3>2, <3>3
  <2> QED BY <2>1 DEF PagesStay
<1>16. /\ op' \in OpType /\ op'.pc = op.after /\ op'.call = op.call /\ op'.buf = op.buf
       /\ op'.block = op.block /\ op'.page = op.page /\ op'.after = op.after
  <2>1. op.after \in Pcs BY <1>2 DEF Pcs
  <2> QED BY <1>0, <1>1, <2>1 DEF OpType
<1>17. /\ Pending' <=> Pending
       /\ Scrubbing' <=> Scrubbing
       /\ AfterIndex' <=> AfterIndex
  BY <1>1, <1>2, <1>16 DEF Pending, Scrubbing, AfterIndex
<1>18. op'.pc \in {"index", "scrub"} BY <1>2, <1>16
<1>19. FlashInv'
  <2>1. \A b \in Blocks : undone'[b] # EmptyLeb =>
          leb'[b] = EmptyLeb /\ (FullLeb(undone'[b]) \/ TornLeb(undone'[b]))
    BY <1>0, <1>1, <1>7, <1>12 DEF FlashInv, x
  <2>2. \A b \in Blocks : b # cur'.block => leb'[b] = EmptyLeb \/ FullLeb(leb'[b])
    BY <1>0, <1>1, <1>4, <1>7 DEF FlashInv
  <2>3. FullLeb(leb'[cur'.block]) /\ leb'[cur'.block].log.id = blockId' BY <1>1, <1>4, <1>11 DEF y
  <2>4. \A p \in 0 .. cur'.page : logPage'[p] = leb'[cur'.block].page[p].sector
    <3>1. \A p \in 0 .. cur.page : logPage[p] = leb[cur.block].page[p].sector
      BY <1>0, <1>2 DEF FlashInv
    <3>2. leb'[cur.block].page = leb[cur.block].page BY <1>4, <1>7 DEF x, y
    <3> QED BY <1>1, <3>1, <3>2
  <2>5. cur'.page = NPages - 1 /\ op'.pc # "log" /\ cur' = cur BY <1>1, <1>2, <1>18
  <2> QED BY <2>1, <2>2, <2>3, <2>4, <2>5 DEF FlashInv
<1>20. FifoInv'
  <2>1. \A k \in DOMAIN fifo : fifo[k] \in Blocks BY <1>0 DEF TypeInv, UftlTypeOK
  <2> QED BY <1>0, <1>1, <1>4, <1>7, <2>1 DEF FifoInv
<1>21. IdInv'
  <2>1. \A b \in Blocks : b # c /\ FullLeb(Media(b)) => Media(b).log.id < blockId
    BY <1>0, <1>4 DEF IdInv
  <2>2. \A b \in Blocks : b # c /\ FullLeb(Media(b)) => Media(b).log.id # blockId
    <3>1. ~(blockId < blockId) BY <1>3
    <3> QED BY <2>1, <3>1
  <2>3. \A b, d \in Blocks : b # d /\ FullLeb(Media(b)') /\ FullLeb(Media(d)') =>
            Media(b)'.log.id # Media(d)'.log.id
    BY <1>0, <1>11, <1>14, <2>2 DEF IdInv
  <2>4. \A b \in Blocks : FullLeb(Media(b)') /\ (b # cur'.block \/ leb'[b] = EmptyLeb) =>
            Media(b)'.log.id < blockId'
    BY <1>1, <1>4, <1>12, <1>14, <2>1 DEF y
  <2> QED BY <2>3, <2>4 DEF IdInv
<1>22. OrderInv' BY <1>0, <1>1, <1>15, <1>17, OrderStays
<1>23. StateInv'
  <2>1. \A b \in Blocks, p \in Pages : leb'[b].page[p] = leb[b].page[p]
    BY <1>7 DEF x, y
  <2>2. \A b \in Blocks : UsingOf(state', b) = UsingOf(state, b) BY <1>1
  <2>3. UNCHANGED <<state, using, index, cur>> /\ op'.block = op.block /\ op'.page = op.page BY <1>1, <1>16
  <2> QED BY <1>0, <1>17, <2>1, <2>2, <2>3 DEF StateInv
<1>24. ControlInv'
  <2>1. UNCHANGED <<index, cur, pool, state>> /\ op'.buf = op.buf /\ op'.block = op.block /\ op'.page = op.page
    BY <1>1, <1>16
  <2>2. ASSUME Scrubbing PROVE leb'[op.block] = leb[op.block] /\ op.block \in Blocks
    <3>1. op.page > 0
      <4>1. op.after # "index" BY <1>1, <2>2 DEF Scrubbing
      <4> QED BY <1>2, <4>1
    <3>2. op.block # cur.block /\ op.block \in Blocks BY <1>0, <2>2, <3>1 DEF ControlInv
    <3> QED BY <1>4, <1>7, <3>2
  <2>3. op'.pc = "scrub" => op'.page # 0
    <3>1. op.page \in Int BY <1>0, ZeroPage DEF OpType
    <3> QED BY <1>2, <1>16, <3>1
  <2> QED BY <1>0, <1>2, <1>17, <1>18, <2>1, <2>2, <2>3 DEF ControlInv
<1>25. \A w : Holding(w)' = Holding(w) BY <1>1 DEF Holding
<1>26. CallInv' BY <1>0, <1>1, <1>16, <1>18, <1>25 DEF CallInv
<1>27. BufInv' BY <1>0, <1>1 DEF BufInv
<1>28. /\ \A v \in Virt : index[v] # None => PageData(index[v])' = PageData(index[v])
       /\ \A v \in Virt, s \in Secs : OnFlash(v, s)' <=> OnFlash(v, s)
  BY <1>0, <1>1, <1>15, DataStays
<1>29. DataInv'
  <2>1. \A v \in Virt, s \in Secs : (\A i \in Holding(v)' : s \notin pool'[i].dirty) => OnFlash(v, s)'
    BY <1>0, <1>1, <1>25, <1>28 DEF DataInv
  <2>2. AfterIndex => \A s \in Secs : OnFlash(pool[op.buf].sector, s)'
    <3>1. PICK v : v = pool[op.buf].sector OBVIOUS
    <3>2. v \in Virt
      <4>1. op.buf \in Bufs BY <1>0 DEF OpType
      <4> QED BY <1>0, <1>2, <3>1, <4>1, DirtyHolds
    <3>3. AfterIndex => \A s \in Secs : OnFlash(v, s) BY <1>0, <3>1 DEF DataInv
    <3>4. AfterIndex => \A s \in Secs : OnFlash(v, s)' BY <1>28, <3>2, <3>3
    <3>5. pool'[op.buf].sector = v BY <1>1, <3>1
    <3> QED BY <1>1, <1>16, <3>4, <3>5 DEF OnFlash
  <2>3. leb'[cur.block].page = leb[cur.block].page BY <1>4, <1>7 DEF x, y
  <2>4. UNCHANGED <<cur, pool, want>> /\ op'.buf = op.buf BY <1>1, <1>16
  <2> QED BY <1>0, <1>17, <2>1, <2>2, <2>3, <2>4 DEF DataInv, Agrees, OnFlash
<1>30. DurableInv'
  <2>1. UNCHANGED <<index, want, durable>> BY <1>1
  <2> QED BY <1>0, <1>28, <2>1 DEF DurableInv
<1>31. TypeInv'
  <2>1. op'.pc \in Pcs /\ op'.buf \in Bufs BY <1>16 DEF OpType
  <2>2. UftlTypeOK' BY <1>0, <1>1, <1>7, <2>1 DEF TypeInv, UftlTypeOK
  <2> QED BY <1>16, <2>2 DEF TypeInv, OpType
<1> QED BY <1>19, <1>20, <1>21, <1>22, <1>23, <1>24, <1>26, <1>27, <1>29, <1>30, <1>31 DEF UftlAll, LebInv

(***************************************************************************)
(* Erasing a block.                                                        *)
(***************************************************************************)
\* A queue of blocks, with one that was not in it at its end.
LEMMA AppendOnce ==
    ASSUME NEW q \in Seq(Blocks), NEW b \in Blocks,
           \A k, m \in DOMAIN q : q[k] = q[m] => k = m, \A k \in DOMAIN q : q[k] # b
    PROVE  /\ Append(q, b) \in Seq(Blocks) /\ Len(Append(q, b)) <= NBlocks
           /\ \A k, m \in DOMAIN Append(q, b) : Append(q, b)[k] = Append(q, b)[m] => k = m
           /\ \A k \in DOMAIN Append(q, b) : Append(q, b)[k] = b \/ \E m \in DOMAIN q : Append(q, b)[k] = q[m]
<1> DEFINE r == Append(q, b)
<1>1. r \in Seq(Blocks) /\ Len(r) = Len(q) + 1 /\ Len(q) \in Nat OBVIOUS
<1>2. DOMAIN r = 1 .. Len(q) + 1 /\ DOMAIN q = 1 .. Len(q) BY <1>1
<1>3. r[Len(q) + 1] = b /\ \A k \in 1 .. Len(q) : r[k] = q[k] OBVIOUS
<1> HIDE DEF r
<1>4. \A k \in DOMAIN r : k = Len(q) + 1 \/ (k \in DOMAIN q /\ r[k] = q[k]) BY <1>1, <1>2, <1>3
<1>5. \A k, m \in DOMAIN r : r[k] = r[m] => k = m BY <1>3, <1>4
<1>6. Len(r) <= NBlocks BY <1>1, <1>5, DistinctLen
<1> QED BY <1>1, <1>3, <1>4, <1>5, <1>6 DEF r

\* The block is un-mapped and appended to the fifo.
LEMMA EraseKeeps ==
    ASSUME UftlAll, EraseBlock, misread \in BOOLEAN
    PROVE  UftlAll'
<1>0. /\ LebInv /\ TypeInv /\ FlashInv /\ FifoInv /\ IdInv /\ OrderInv /\ StateInv /\ ControlInv
      /\ CallInv /\ BufInv /\ DataInv /\ DurableInv /\ op \in OpType
  BY DEF UftlAll, LebInv, TypeInv, OpType
<1>1. PICK b : b = op.block OBVIOUS
<1>2. /\ op.pc = "erase" /\ leb' = [leb EXCEPT ![b] = EmptyLeb]
      /\ undone' = IF "unmap_undone" \in Faults THEN [undone EXCEPT ![b] = leb[b]] ELSE undone
      /\ fifo' = Append(fifo, b)
      /\ state' = [state EXCEPT ![b] = [p \in Pages |-> "empty"]]
      /\ using' = [using EXCEPT ![b] = 0]
      /\ op' = [op EXCEPT !.pc = op.after]
      /\ UNCHANGED <<index, cur, blockId, logPage, checkCount, pool, want, durable, misread>>
  BY <1>1 DEF EraseBlock, Goto, hist
<1>3. /\ b \in Blocks /\ FullLeb(leb[b]) /\ b # cur.block /\ op.after \in {"count", "gc"}
      /\ \A v \in Virt : index[v] # None => index[v].block # b
      /\ cur.block # None /\ cur.page >= 0 /\ pool[op.buf].sector # None /\ pool[op.buf].dirty # {}
  BY <1>0, <1>1, <1>2 DEF ControlInv
<1>4. /\ leb \in [Blocks -> LebType] /\ undone \in [Blocks -> LebType]
      /\ index \in [Virt -> Pos \cup {None}] /\ fifo \in Seq(Blocks)
      /\ using \in [Blocks -> 0 .. NPages]
      /\ state \in [Blocks -> [Pages -> {"empty", "using", "discard"}]]
  BY <1>0 DEF TypeInv, UftlTypeOK
<1>5. leb[b] # EmptyLeb BY <1>3, EmptyPages DEF FullLeb, Written1
<1>6. undone[b] = EmptyLeb BY <1>0, <1>3, <1>5 DEF FlashInv
<1>7. /\ leb' \in [Blocks -> LebType] /\ leb'[b] = EmptyLeb
      /\ \A c \in Blocks : c # b => leb'[c] = leb[c]
  BY <1>2, <1>3, <1>4, EmptyPages
<1>8. /\ undone' \in [Blocks -> LebType] /\ (undone'[b] = leb[b] \/ undone'[b] = EmptyLeb)
      /\ \A c \in Blocks : c # b => undone'[c] = undone[c]
  <2>1. leb[b] \in LebType BY <1>3, <1>4
  <2>2. CASE undone' = undone BY <1>4, <1>6, <2>2
  <2>3. CASE undone' = [undone EXCEPT ![b] = leb[b]] BY <1>3, <1>4, <2>1, <2>3
  <2> QED BY <1>2, <2>2, <2>3
<1>9. ~FullLeb(EmptyLeb) /\ \A p \in Pages : ~Written1(EmptyLeb.page[p])
  BY EmptyPages DEF FullLeb, Written1
<1>10. /\ Media(b) = leb[b] /\ (Media(b)' = leb[b] \/ Media(b)' = EmptyLeb)
       /\ \A c \in Blocks : c # b => Media(c)' = Media(c)
  BY <1>5, <1>7, <1>8 DEF Media
<1>11. PagesStay
  <2>1. ASSUME NEW i \in Pos, i.block # b
        PROVE  MediaPage(i)' = MediaPage(i) /\ leb'[i.block].page[i.page] = leb[i.block].page[i.page]
    BY <1>7, <1>10, <2>1 DEF MediaPage, Pos
  <2>2. ASSUME NEW i \in Pos, i.block = b, Written1(MediaPage(i)') PROVE MediaPage(i)' = MediaPage(i)
    <3>1. i.page \in Pages BY DEF Pos
    <3>2. Media(b)' = Media(b) BY <1>9, <1>10, <2>2, <3>1 DEF MediaPage
    <3> QED BY <2>2, <3>2 DEF MediaPage
  <2>3. ASSUME NEW i \in Pos, NEW v \in Virt, index[v] = i PROVE i.block # b
    <3>1. i # None BY UftlSentinels
    <3> QED BY <1>3, <2>3, <3>1
  <2> QED BY <2>1, <2>2, <2>3 DEF PagesStay
<1>12. /\ op' \in OpType /\ op'.pc = op.after /\ op'.call = op.call /\ op'.buf = op.buf
       /\ op'.pc \in {"count", "gc"}
  <2>1. op.after \in Pcs BY <1>3 DEF Pcs
  <2>2. op' \in OpType /\ op'.pc = op.after /\ op'.call = op.call /\ op'.buf = op.buf
    BY <1>0, <1>2, <2>1 DEF OpType
  <2> QED BY <1>3, <2>2
<1>13. ~Pending /\ ~Pending' /\ ~Scrubbing' /\ AfterIndex
  BY <1>2, <1>12 DEF Pending, Scrubbing, AfterIndex
<1>14. FlashInv'
  <2>1. ASSUME NEW c \in Blocks, undone'[c] # EmptyLeb
        PROVE  leb'[c] = EmptyLeb /\ (FullLeb(undone'[c]) \/ TornLeb(undone'[c]))
    <3>1. CASE c = b BY <1>3, <1>7, <1>8, <2>1, <3>1
    <3>2. CASE c # b BY <1>0, <1>7, <1>8, <2>1, <3>2 DEF FlashInv
    <3> QED BY <3>1, <3>2
  <2>2. \A c \in Blocks : c # cur.block => leb'[c] = EmptyLeb \/ FullLeb(leb'[c])
    BY <1>0, <1>7 DEF FlashInv
  <2>3. leb'[cur.block] = leb[cur.block]
    <3>1. cur.block \in Blocks BY <1>0, <1>3, CurType
    <3> QED BY <1>3, <1>7, <3>1
  <2>4. UNCHANGED <<cur, blockId, logPage>> /\ op.pc # "log" /\ op'.pc # "log" BY <1>2, <1>12
  <2>5. /\ IF cur.page = NPages - 1 THEN FullLeb(leb[cur.block]) /\ leb[cur.block].log.id = blockId
           ELSE OpenLeb(leb[cur.block], cur.page + 1, blockId)
        /\ \A p \in 0 .. cur.page : logPage[p] = leb[cur.block].page[p].sector
    BY <1>0, <1>3, <2>4 DEF FlashInv
  <2> QED BY <2>1, <2>2, <2>3, <2>4, <2>5 DEF FlashInv
<1>15. FifoInv' /\ fifo' \in Seq(Blocks) /\ Len(fifo') <= NBlocks
  <2>1. \A k \in DOMAIN fifo : fifo[k] # b BY <1>0, <1>5 DEF FifoInv
  <2>2. \A k, m \in DOMAIN fifo : fifo[k] = fifo[m] => k = m BY <1>0 DEF FifoInv
  <2>3. PICK q : q = fifo OBVIOUS
  <2>4. /\ Append(q, b) \in Seq(Blocks) /\ Len(Append(q, b)) <= NBlocks
        /\ \A k, m \in DOMAIN Append(q, b) : Append(q, b)[k] = Append(q, b)[m] => k = m
        /\ \A k \in DOMAIN Append(q, b) : Append(q, b)[k] = b \/ \E m \in DOMAIN q : Append(q, b)[k] = q[m]
    BY <1>3, <1>4, <2>1, <2>2, <2>3, AppendOnce
  <2>5. PICK r : r = Append(q, b) OBVIOUS
  <2>6. \A k \in DOMAIN q : q[k] \in Blocks /\ q[k] # b BY <1>4, <2>1, <2>3
  <2>7. \A k \in DOMAIN q : leb'[q[k]] = EmptyLeb /\ q[k] # cur.block BY <1>0, <1>7, <2>3, <2>6 DEF FifoInv
  <2>8. \A k \in DOMAIN r : leb'[r[k]] = EmptyLeb /\ r[k] # cur.block
    BY <1>3, <1>7, <2>4, <2>5, <2>7
  <2>9. fifo' = r /\ cur' = cur /\ cur.block # None BY <1>2, <1>3, <2>3, <2>5
  <2> QED BY <2>4, <2>5, <2>8, <2>9 DEF FifoInv
<1>16. IdInv'
  <2>1. \A c \in Blocks : FullLeb(Media(c)') => Media(c)' = Media(c) BY <1>9, <1>10
  <2>2. \A c \in Blocks : FullLeb(Media(c)) /\ c # cur.block => Media(c).log.id < blockId
    BY <1>0 DEF IdInv
  <2>3. \A c \in Blocks : c = cur.block /\ leb'[c] = EmptyLeb => leb[c] = EmptyLeb BY <1>3, <1>7
  <2>4. \A c \in Blocks : FullLeb(Media(c)) /\ leb[c] = EmptyLeb => Media(c).log.id < blockId
    BY <1>0 DEF IdInv
  <2>5. UNCHANGED <<cur, blockId>> BY <1>2
  <2>6. \A c \in Blocks : FullLeb(Media(c)') /\ (c # cur'.block \/ leb'[c] = EmptyLeb) =>
            Media(c)'.log.id < blockId'
    BY <2>1, <2>2, <2>3, <2>4, <2>5
  <2>7. \A c, d \in Blocks : c # d /\ FullLeb(Media(c)') /\ FullLeb(Media(d)') =>
            Media(c)'.log.id # Media(d)'.log.id
    BY <1>0, <2>1 DEF IdInv
  <2> QED BY <2>6, <2>7 DEF IdInv
<1>17. OrderInv' BY <1>0, <1>2, <1>11, <1>13, OrderStays
<1>18. StateInv' /\ using' \in [Blocks -> 0 .. NPages]
       /\ state' \in [Blocks -> [Pages -> {"empty", "using", "discard"}]]
  <2>1. /\ state' \in [Blocks -> [Pages -> {"empty", "using", "discard"}]]
        /\ \A p \in Pages : state'[b][p] = "empty"
        /\ \A c \in Blocks : c # b => state'[c] = state[c]
    BY <1>2, <1>3, <1>4
  <2>2. ASSUME NEW c \in Blocks, NEW p \in Pages
        PROVE  state'[c][p] = "empty" <=> leb'[c].page[p] = Empty
    <3>1. CASE c = b BY <1>7, <2>1, <3>1, EmptyPages
    <3>2. CASE c # b BY <1>0, <1>7, <1>13, <2>1, <3>2 DEF StateInv
    <3> QED BY <3>1, <3>2
  <2>3. ASSUME NEW v \in Virt, index[v] # None PROVE state'[index[v].block][index[v].page] = "using"
    <3>1. index[v] \in Pos /\ index[v].block # b /\ index[v].block \in Blocks BY <1>3, <1>4, <2>3 DEF Pos
    <3>2. state[index[v].block][index[v].page] = "using" BY <1>0, <2>3 DEF StateInv
    <3> QED BY <2>1, <3>1, <3>2
  <2>4. ASSUME NEW c \in Blocks, NEW p \in Pages, state'[c][p] = "using"
        PROVE  \E v \in Virt : index[v] = At(c, p)
    <3>1. c # b /\ state[c][p] = "using" BY <2>1, <2>4
    <3>2. ~(Scrubbing /\ c = op.block /\ p < op.page) BY <1>1, <3>1
    <3> QED BY <1>0, <1>3, <3>1, <3>2 DEF StateInv
  <2>5. ASSUME NEW c \in Blocks PROVE using'[c] = UsingOf(state', c)
    <3>1. CASE c = b
      <4>1. \A p \in Pages : state'[c][p] # "using" BY <2>1, <3>1
      <4>2. UsingOf(state', c) = 0 BY <4>1, UsingIs
      <4> QED BY <1>2, <1>3, <1>4, <3>1, <4>2
    <3>2. CASE c # b
      <4>1. UsingOf(state, c) = UsingOf(state', c) BY <2>1, <3>2, UsingSame
      <4>2. using'[c] = using[c] BY <1>2, <1>4, <3>2
      <4> QED BY <1>0, <4>1, <4>2 DEF StateInv
    <3> QED BY <3>1, <3>2
  <2>6. using' \in [Blocks -> 0 .. NPages] BY <1>2, <1>3, <1>4, ZeroPage
  <2>7. UNCHANGED <<index, cur>> BY <1>2
  <2>8. StateInv' BY <1>13, <2>2, <2>3, <2>4, <2>5, <2>7 DEF StateInv
  <2> QED BY <2>1, <2>6, <2>8
<1>19. ControlInv'
  <2>1. UNCHANGED <<cur, pool>> BY <1>2
  <2> QED BY <1>3, <1>12, <1>13, <2>1 DEF ControlInv
<1>20. \A w : Holding(w)' = Holding(w) BY <1>2 DEF Holding
<1>21. CallInv' BY <1>0, <1>2, <1>12, <1>20 DEF CallInv
<1>22. BufInv' BY <1>0, <1>2 DEF BufInv
<1>23. /\ \A v \in Virt : index[v] # None => PageData(index[v])' = PageData(index[v])
       /\ \A v \in Virt, s \in Secs : OnFlash(v, s)' <=> OnFlash(v, s)
  BY <1>0, <1>2, <1>11, DataStays
<1>24. DataInv'
  <2>1. \A v \in Virt, s \in Secs : (\A i \in Holding(v)' : s \notin pool'[i].dirty) => OnFlash(v, s)'
    BY <1>0, <1>2, <1>20, <1>23 DEF DataInv
  <2>2. PICK v : v = pool[op.buf].sector OBVIOUS
  <2>3. v \in Virt
    <3>1. op.buf \in Bufs BY <1>0 DEF OpType
    <3> QED BY <1>0, <1>3, <2>2, <3>1, DirtyHolds
  <2>4. \A s \in Secs : OnFlash(v, s) BY <1>0, <1>13, <2>2 DEF DataInv
  <2>5. \A s \in Secs : OnFlash(v, s)' BY <1>23, <2>3, <2>4
  <2>6. v = pool'[op'.buf].sector BY <1>2, <1>12, <2>2
  <2>7. AfterIndex' => \A s \in Secs : OnFlash(pool[op.buf].sector, s)'
    BY <2>5, <2>6 DEF OnFlash
  <2> QED BY <1>13, <2>1, <2>7 DEF DataInv
<1>25. DurableInv'
  <2>1. UNCHANGED <<index, want, durable>> BY <1>2
  <2> QED BY <1>0, <1>23, <2>1 DEF DurableInv
<1>26. TypeInv'
  <2>1. op'.pc \in Pcs /\ op'.buf \in Bufs BY <1>12 DEF OpType
  <2>2. UftlTypeOK' BY <1>0, <1>2, <1>7, <1>8, <1>15, <1>18, <2>1 DEF TypeInv, UftlTypeOK
  <2> QED BY <1>12, <2>2 DEF TypeInv, OpType
<1> QED BY <1>14, <1>15, <1>16, <1>17, <1>18, <1>19, <1>21, <1>22, <1>24, <1>25, <1>26 DEF UftlAll, LebInv

(***************************************************************************)
(* update_sector_index() enters the page that was written.                 *)
(***************************************************************************)
\* The page written last is the newest one.
LEMMA CurNewest ==
    ASSUME LebInv, op.pc # "log", NEW c, c = cur, c.block # None, c.page >= 0,
           NEW i \in Pos, Written1(MediaPage(i))
    PROVE  Older(i, c)
<1>1. /\ TypeInv /\ FlashInv /\ IdInv
      /\ c = At(c.block, c.page) /\ c.block \in Blocks /\ c.page \in Int
      /\ c.page < NPages /\ blockId \in Int /\ NPages \in Nat
  BY CurType DEF LebInv
<1>2. c.page \in Pages /\ c \in Pos BY <1>1 DEF Pages, Pos, At
<1> DEFINE x == leb[c.block]
           b == i.block
           p == i.page
<1>3. b \in Blocks /\ p \in Pages /\ p \in Int BY DEF Pos, Pages
<1>4. \/ c.page = NPages - 1 /\ FullLeb(x) /\ x.log.id = blockId
      \/ OpenLeb(x, c.page + 1, blockId)
  BY <1>1 DEF FlashInv
<1>5. Written1(x.page[c.page]) /\ x.page[c.page].id = blockId
  <2>1. c.page < c.page + 1 BY <1>1
  <2> QED BY <1>2, <1>4, <2>1 DEF FullLeb, OpenLeb
<1>6. x # EmptyLeb BY <1>2, <1>5, EmptyPages
<1>7. Media(c.block) = x BY <1>6 DEF Media
<1>8. MediaPage(c).id = blockId BY <1>5, <1>7 DEF MediaPage
<1>9. CASE b = c.block
  <2>1. p <= c.page
    <3>1. CASE c.page = NPages - 1 BY <1>1, <1>3, <3>1 DEF Pages
    <3>2. CASE OpenLeb(x, c.page + 1, blockId)
      <4>1. Written1(x.page[p]) BY <1>7, <1>9 DEF MediaPage
      <4>2. x.page[p] # Empty BY <4>1 DEF Written1
      <4>3. p < c.page + 1 BY <1>3, <3>2, <4>2 DEF OpenLeb
      <4> QED BY <1>1, <1>3, <4>3
    <3> QED BY <1>4, <3>1, <3>2
  <2> QED BY <1>9, <2>1 DEF Older
<1>10. CASE b # c.block
  <2>1. FullLeb(Media(b))
    <3>1. Media(b) = undone[b] \/ Media(b) = leb[b] BY DEF Media
    <3>2. Media(b) = EmptyLeb \/ FullLeb(Media(b)) \/ TornLeb(Media(b))
      BY <1>1, <1>3, <1>10, <3>1 DEF FlashInv
    <3>3. Media(b) # EmptyLeb BY <1>3, EmptyPages DEF MediaPage
    <3>4. ~TornLeb(Media(b))
      <4>1. CASE p = 0 BY <4>1 DEF MediaPage, TornLeb, Written1
      <4>2. CASE p # 0 BY <1>3, <4>2 DEF MediaPage, TornLeb, Written1
      <4> QED BY <4>1, <4>2
    <3> QED BY <3>2, <3>3, <3>4
  <2>2. Media(b).log.id < blockId BY <1>1, <1>3, <1>10, <2>1 DEF IdInv
  <2>3. MediaPage(i).id = Media(b).log.id BY <1>3, <2>1 DEF MediaPage, FullLeb
  <2> QED BY <1>8, <2>2, <2>3 DEF Older
<1> QED BY <1>9, <1>10

\* The tables when the page of a buffer is entered in the index.
Entered(v, old) ==
    LET st == [state EXCEPT ![cur.block][cur.page] = "using"]
        us == [using EXCEPT ![cur.block] = @ + 1]
    IN
    /\ v = pool[op.buf].sector /\ old = index[v]
    /\ index' = [index EXCEPT ![v] = [block |-> cur.block, page |-> cur.page]]
    /\ state' = IF old = None THEN st ELSE [st EXCEPT ![old.block][old.page] = "discard"]
    /\ using' = IF old = None THEN us ELSE [us EXCEPT ![old.block] = @ - 1]
    /\ UNCHANGED <<leb, undone, cur, blockId, logPage, fifo>>

\* What holds of them.
EnteredTables(v, c, old) ==
    /\ v \in Virt /\ c = cur /\ c \in Pos /\ c # None /\ c = At(c.block, c.page) /\ c.block # None
    /\ index'[v] = c /\ \A w \in Virt : w # v => index'[w] = index[w] /\ index[w] # c
    /\ index' \in [Virt -> Pos \cup {None}]
    /\ state' \in [Blocks -> [Pages -> {"empty", "using", "discard"}]]
    /\ state'[c.block][c.page] = "using"
    /\ old # None =>
        /\ old \in Pos /\ old # c /\ state'[old.block][old.page] = "discard"
        /\ Holds(old, v)
    /\ \A b \in Blocks, p \in Pages : At(b, p) # c /\ At(b, p) # old => state'[b][p] = state[b][p]
    /\ using' \in [Blocks -> 0 .. NPages]
    /\ \A b \in Blocks : using'[b] = UsingOf(state', b)

\* What update_sector_index() changes.
LEMMA EnteredIs ==
    ASSUME UftlAll, op.pc = "index", NEW v, NEW old, Entered(v, old), NEW c, c = cur
    PROVE  EnteredTables(v, c, old)
<1>0. TypeInv /\ OrderInv /\ StateInv /\ ControlInv /\ BufInv BY DEF UftlAll, LebInv
<1>1. /\ index \in [Virt -> Pos \cup {None}] /\ using \in [Blocks -> 0 .. NPages]
      /\ state \in [Blocks -> [Pages -> {"empty", "using", "discard"}]]
      /\ op.buf \in Bufs
  BY <1>0 DEF TypeInv, UftlTypeOK
<1>2. v \in Virt
  <2>1. pool[op.buf].dirty # {} BY <1>0 DEF ControlInv
  <2> QED BY <1>0, <1>1, <2>1, DirtyHolds DEF Entered
<1>3. /\ c = At(c.block, c.page) /\ c.block \in Blocks /\ c.block # None /\ c.page \in Pages /\ c \in Pos
      /\ c # None
  <2>1. cur.block # None /\ cur.page >= 0 BY <1>0 DEF ControlInv
  <2>2. /\ c = At(c.block, c.page) /\ c.block \in Blocks /\ c.block # None /\ c.page \in Int
        /\ c.page >= 0 /\ c.page < NPages /\ NPages \in Nat
    BY <1>0, <2>1, CurType
  <2>3. c.page \in Pages BY <2>2 DEF Pages
  <2>4. c \in Pos BY <2>2, <2>3 DEF At, Pos
  <2> QED BY <2>2, <2>3, <2>4, UftlSentinels
<1>4. Pending BY DEF Pending
<1>5. /\ index'[v] = c /\ \A w \in Virt : w # v => index'[w] = index[w]
      /\ index' \in [Virt -> Pos \cup {None}]
  <2>1. index' = [index EXCEPT ![v] = c] BY <1>3 DEF Entered, At
  <2> QED BY <1>1, <1>2, <1>3, <2>1
<1>6. \A w \in Virt : index[w] # c BY <1>0, <1>3, <1>4 DEF OrderInv
<1>7. old # None =>
        /\ old \in Pos /\ old # c /\ old = At(old.block, old.page) /\ old.block \in Blocks /\ old.page \in Pages
        /\ state[old.block][old.page] = "using" /\ Holds(old, v)
  <2>1. old = index[v] BY DEF Entered
  <2> QED BY <1>0, <1>1, <1>2, <1>6, <2>1 DEF Pos, At, OrderInv, StateInv
<1>8. state[c.block][c.page] = "empty"
  <2>1. cur = At(c.block, c.page) BY <1>3
  <2> QED BY <1>0, <1>3, <1>4, <2>1 DEF StateInv
<1>9. PICK st : st = [state EXCEPT ![c.block][c.page] = "using"] OBVIOUS
<1>10. PICK us : us = [using EXCEPT ![c.block] = @ + 1] OBVIOUS
<1>11. /\ state' = IF old = None THEN st ELSE [st EXCEPT ![old.block][old.page] = "discard"]
       /\ using' = IF old = None THEN us ELSE [us EXCEPT ![old.block] = @ - 1]
  BY <1>9, <1>10 DEF Entered
<1>12. /\ st \in [Blocks -> [Pages -> {"empty", "using", "discard"}]]
       /\ st[c.block][c.page] = "using"
       /\ \A b \in Blocks, p \in Pages : ~(b = c.block /\ p = c.page) => st[b][p] = state[b][p]
  BY <1>1, <1>3, <1>9
<1>13. /\ state' \in [Blocks -> [Pages -> {"empty", "using", "discard"}]]
       /\ state'[c.block][c.page] = "using"
       /\ old # None => state'[old.block][old.page] = "discard"
       /\ \A b \in Blocks, p \in Pages : At(b, p) # c /\ At(b, p) # old => state'[b][p] = state[b][p]
       /\ \A b \in Blocks, p \in Pages :
            ~(old # None /\ b = old.block /\ p = old.page) => state'[b][p] = st[b][p]
  <2>1. CASE old = None
    <3>1. state' = st BY <1>11, <2>1
    <3>2. \A b \in Blocks, p \in Pages : At(b, p) # c => ~(b = c.block /\ p = c.page) BY <1>3
    <3> QED BY <1>12, <2>1, <3>1, <3>2
  <2>2. CASE old # None
    <3>1. state' = [st EXCEPT ![old.block][old.page] = "discard"] BY <1>11, <2>2
    <3>2. /\ state' \in [Blocks -> [Pages -> {"empty", "using", "discard"}]]
          /\ state'[old.block][old.page] = "discard"
          /\ \A b \in Blocks, p \in Pages : ~(b = old.block /\ p = old.page) => state'[b][p] = st[b][p]
      BY <1>7, <1>12, <2>2, <3>1
    <3>3. ~(c.block = old.block /\ c.page = old.page) BY <1>3, <1>7, <2>2
    <3>4. \A b \in Blocks, p \in Pages : At(b, p) # c => ~(b = c.block /\ p = c.page) BY <1>3
    <3>5. \A b \in Blocks, p \in Pages : At(b, p) # old => ~(b = old.block /\ p = old.page) BY <1>7, <2>2
    <3>6. state'[c.block][c.page] = "using" BY <1>3, <1>12, <3>2, <3>3
    <3>7. \A b \in Blocks, p \in Pages : At(b, p) # c /\ At(b, p) # old => state'[b][p] = state[b][p]
      BY <1>12, <3>2, <3>4, <3>5
    <3>8. \A b \in Blocks, p \in Pages :
            ~(old # None /\ b = old.block /\ p = old.page) => state'[b][p] = st[b][p]
      BY <2>2, <3>2
    <3> QED BY <3>2, <3>6, <3>7, <3>8
  <2> QED BY <2>1, <2>2
<1>14. ASSUME NEW b \in Blocks PROVE us[b] = UsingOf(st, b) /\ us[b] \in Nat
  <2>0. using[b] = UsingOf(state, b) /\ using[b] \in Nat
    <3>1. using[b] \in 0 .. NPages BY <1>1
    <3> QED BY <1>0, <3>1 DEF StateInv
  <2>1. CASE b = c.block
    <3>1. \A p \in Pages : p # c.page => (state[b][p] = "using" <=> st[b][p] = "using") BY <1>12
    <3>2. state[b][c.page] # "using" /\ st[b][c.page] = "using" BY <1>8, <1>12, <2>1
    <3>3. UsingOf(st, b) = UsingOf(state, b) + 1 BY <1>3, <3>1, <3>2, UsingOne
    <3>4. us[b] = using[b] + 1 BY <1>1, <1>10, <2>1
    <3> QED BY <2>0, <3>3, <3>4
  <2>2. CASE b # c.block
    <3>1. UsingOf(state, b) = UsingOf(st, b) BY <1>12, <2>2, UsingSame
    <3>2. us[b] = using[b] BY <1>1, <1>10, <2>2
    <3> QED BY <2>0, <3>1, <3>2
  <2> QED BY <2>1, <2>2
<1>15. DOMAIN us = Blocks BY <1>1, <1>10
<1>16. ASSUME NEW b \in Blocks PROVE using'[b] = UsingOf(state', b)
  <2>1. CASE old # None /\ b = old.block
    <3>1. \A p \in Pages : p # old.page => (state'[b][p] = "using" <=> st[b][p] = "using")
      BY <1>13, <2>1
    <3>2. state'[b][old.page] # "using" BY <1>13, <2>1
    <3>3. st[b][old.page] = "using"
      <4>1. ~(b = c.block /\ old.page = c.page)
        <5>1. old # c /\ old = At(old.block, old.page) /\ c = At(c.block, c.page) BY <1>3, <1>7, <2>1
        <5>2. b = old.block BY <2>1
        <5> QED BY <5>1, <5>2
      <4> QED BY <1>7, <1>12, <2>1, <4>1
    <3>4. UsingOf(st, b) = UsingOf(state', b) + 1
      <4>1. PICK q : q = old.page OBVIOUS
      <4>2. PICK ss : ss = state' OBVIOUS
      <4>3. /\ q \in Pages /\ ss[b][q] # "using" /\ st[b][q] = "using"
            /\ \A p \in Pages : p # q => (ss[b][p] = "using" <=> st[b][p] = "using")
        BY <1>7, <2>1, <3>1, <3>2, <3>3, <4>1, <4>2
      <4>4. UsingOf(st, b) = UsingOf(ss, b) + 1 BY <4>3, UsingOne
      <4> QED BY <4>2, <4>4
    <3>5. using' = [us EXCEPT ![old.block] = @ - 1] BY <1>11, <2>1
    <3>6. using'[b] = us[b] - 1 BY <1>15, <2>1, <3>5
    <3>7. UsingOf(state', b) \in 0 .. NPages BY UsingIs
    <3> QED BY <1>14, <3>4, <3>6, <3>7
  <2>2. CASE ~(old # None /\ b = old.block)
    <3>1. \A p \in Pages : st[b][p] = "using" <=> state'[b][p] = "using" BY <1>13, <2>2
    <3>2. UsingOf(st, b) = UsingOf(state', b) BY <3>1, UsingSame
    <3>3. using'[b] = us[b]
      <4>1. CASE old = None BY <1>11, <4>1
      <4>2. CASE old # None
        <5>1. using' = [us EXCEPT ![old.block] = @ - 1] BY <1>11, <4>2
        <5> QED BY <1>15, <2>2, <4>2, <5>1
      <4> QED BY <4>1, <4>2
    <3> QED BY <1>14, <3>2, <3>3
  <2> QED BY <2>1, <2>2
<1>17. using' \in [Blocks -> 0 .. NPages]
  <2>1. \A b \in Blocks : using'[b] \in 0 .. NPages BY <1>16, UsingIs
  <2>2. using' = [b \in Blocks |-> using'[b]]
    <3>1. us = [b \in Blocks |-> us[b]] BY <1>1, <1>10
    <3> QED BY <1>11, <3>1
  <2> QED BY <2>1, <2>2
<1> QED BY <1>2, <1>3, <1>5, <1>6, <1>7, <1>13, <1>16, <1>17 DEF EnteredTables

\* The invariants of the LEBs after that.
LEMMA EnteredLebs ==
    ASSUME UftlAll, op.pc = "index", NEW v, NEW old, Entered(v, old), NEW c, EnteredTables(v, c, old),
           op'.pc \notin {"log", "index"}, ~Scrubbing'
    PROVE  FlashInv' /\ FifoInv' /\ IdInv' /\ OrderInv' /\ StateInv'
<1>0. /\ LebInv /\ TypeInv /\ FlashInv /\ FifoInv /\ IdInv /\ OrderInv /\ StateInv /\ ControlInv /\ DataInv
      /\ Pending /\ ~Pending' /\ ~Scrubbing
  BY DEF UftlAll, LebInv, Pending, Scrubbing
<1>1. UNCHANGED <<leb, undone, cur, blockId, logPage, fifo>> /\ v = pool[op.buf].sector /\ old = index[v]
  BY DEF Entered
<1>2. /\ v \in Virt /\ c = cur /\ c \in Pos /\ c # None /\ c = At(c.block, c.page) /\ c.block # None
      /\ index'[v] = c /\ \A w \in Virt : w # v => index'[w] = index[w] /\ index[w] # c
      /\ state'[c.block][c.page] = "using"
      /\ old # None =>
          /\ old \in Pos /\ old # c /\ state'[old.block][old.page] = "discard"
          /\ Holds(old, v)
      /\ \A b \in Blocks, p \in Pages : At(b, p) # c /\ At(b, p) # old => state'[b][p] = state[b][p]
      /\ \A b \in Blocks : using'[b] = UsingOf(state', b)
  BY DEF EnteredTables
<1>3. FlashInv' BY <1>0, <1>1 DEF FlashInv
<1>4. FifoInv' BY <1>0, <1>1 DEF FifoInv
<1>5. \A b : Media(b)' = Media(b) BY <1>1 DEF Media
<1>6. IdInv' BY <1>0, <1>1, <1>5 DEF IdInv
<1>7. \A i : MediaPage(i)' = MediaPage(i) BY <1>5 DEF MediaPage
<1>8. cur.page >= 0 /\ c.page >= 0 BY <1>0, <1>2 DEF ControlInv
<1>9. leb[c.block].page[c.page].sector = v /\ Written1(leb[c.block].page[c.page])
  <2>1. leb[c.block].page[c.page].sector = v BY <1>0, <1>1, <1>2 DEF DataInv
  <2>2. c.block \in Blocks /\ c.page \in Pages BY <1>2 DEF Pos
  <2>3. \/ FullLeb(leb[c.block])
        \/ OpenLeb(leb[c.block], c.page + 1, blockId)
    BY <1>0, <1>2 DEF FlashInv
  <2>4. c.page < c.page + 1 BY <2>2 DEF Pages
  <2> QED BY <2>1, <2>2, <2>3, <2>4 DEF FullLeb, OpenLeb
<1>10. leb[c.block] # EmptyLeb /\ MediaPage(c) = leb[c.block].page[c.page]
  <2>1. c.page \in Pages BY <1>2 DEF Pos
  <2>2. leb[c.block] # EmptyLeb BY <1>9, <2>1, EmptyPages
  <2> QED BY <2>2 DEF MediaPage, Media
<1>11. OrderInv'
  <2>1. ASSUME NEW i \in Pos, Written1(MediaPage(i)')
        PROVE  index'[MediaPage(i)'.sector] # None /\ Older(i, index[MediaPage(i).sector])'
    <3>1. PICK w : w = MediaPage(i).sector OBVIOUS
    <3>2. MediaPage(i)' = MediaPage(i) /\ Written1(MediaPage(i)) BY <1>7, <2>1
    <3>3. CASE w = v
      <4>1. Older(i, c) BY <1>0, <1>2, <1>8, <3>2, CurNewest
      <4>2. MediaPage(c)' = MediaPage(c) BY <1>7
      <4>3. index'[w] = c BY <1>2, <3>3
      <4>4. Older(i, index[MediaPage(i).sector])' BY <3>1, <3>2, <4>1, <4>2, <4>3, OlderStill
      <4> QED BY <1>2, <3>1, <3>2, <4>3, <4>4
    <3>4. CASE w # v
      <4>0. i # cur BY <1>2, <1>9, <1>10, <3>1, <3>4
      <4>1. PICK j : j = index[w] OBVIOUS
      <4>2. j # None /\ Older(i, j) BY <1>0, <3>1, <3>2, <4>0, <4>1 DEF OrderInv
      <4>3. w \in Virt
        <5>1. Media(i.block) \in LebType BY <1>0 DEF TypeInv, UftlTypeOK, Media, Pos
        <5>2. Written1(Media(i.block).page[i.page]) /\ i.page \in Pages BY <3>2 DEF MediaPage, Pos
        <5> QED BY <3>1, <5>1, <5>2, PageType DEF MediaPage
      <4>4. index'[w] = j BY <1>2, <3>4, <4>1, <4>3
      <4>5. MediaPage(j)' = MediaPage(j) BY <1>7
      <4>6. Older(i, index[MediaPage(i).sector])' BY <3>1, <3>2, <4>2, <4>4, <4>5, OlderStill
      <4> QED BY <3>1, <3>2, <4>2, <4>4, <4>6
    <3> QED BY <3>3, <3>4
  <2>2. ASSUME NEW w \in Virt, index'[w] # None PROVE Holds(index[w], w)'
    <3>1. CASE w = v BY <1>1, <1>2, <1>9, <3>1 DEF Holds, Written1
    <3>2. CASE w # v
      <4>1. index'[w] = index[w] BY <1>2, <3>2
      <4>2. Holds(index[w], w) BY <1>0, <2>2, <4>1 DEF OrderInv
      <4> QED BY <1>1, <4>1, <4>2 DEF Holds
    <3> QED BY <3>1, <3>2
  <2> QED BY <1>0, <2>1, <2>2 DEF OrderInv
<1>12. StateInv'
  <2>1. ASSUME NEW b \in Blocks, NEW p \in Pages
        PROVE  state'[b][p] = "empty" <=> leb[b].page[p] = Empty
    <3>1. CASE At(b, p) = c
      <4>1. b = c.block /\ p = c.page BY <3>1 DEF At
      <4> QED BY <1>2, <1>9, <4>1 DEF Written1
    <3>2. CASE At(b, p) = old /\ At(b, p) # c
      <4>1. b = old.block /\ p = old.page BY <3>2 DEF At
      <4>2. old # None
        <5>1. At(b, p) \in Pos BY DEF At, Pos
        <5> QED BY <3>2, <5>1, UftlSentinels
      <4> QED BY <1>2, <4>1, <4>2 DEF Holds
    <3>3. CASE At(b, p) # old /\ At(b, p) # c BY <1>0, <1>2, <3>3 DEF StateInv
    <3> QED BY <3>1, <3>2, <3>3
  <2>2. ASSUME NEW w \in Virt, index'[w] # None PROVE state'[index'[w].block][index'[w].page] = "using"
    <3>1. CASE w = v BY <1>2, <3>1
    <3>2. CASE w # v
      <4>1. PICK i : i = index[w] OBVIOUS
      <4>2. i # None /\ index'[w] = i /\ i # c BY <1>2, <2>2, <3>2, <4>1
      <4>3. i \in Pos /\ Holds(i, w) /\ state[i.block][i.page] = "using"
        BY <1>0, <4>1, <4>2 DEF OrderInv, StateInv, TypeInv, UftlTypeOK
      <4>4. i # old BY <1>2, <3>2, <4>2, <4>3 DEF Holds
      <4>5. i = At(i.block, i.page) /\ i.block \in Blocks /\ i.page \in Pages BY <4>3 DEF Pos, At
      <4> QED BY <1>2, <4>2, <4>3, <4>4, <4>5
    <3> QED BY <3>1, <3>2
  <2>3. ASSUME NEW b \in Blocks, NEW p \in Pages, state'[b][p] = "using"
        PROVE  \E w \in Virt : index'[w] = At(b, p)
    <3>1. CASE At(b, p) = c BY <1>2, <3>1
    <3>2. CASE At(b, p) = old /\ At(b, p) # c
      <4>1. b = old.block /\ p = old.page BY <3>2 DEF At
      <4>2. old # None
        <5>1. At(b, p) \in Pos BY DEF At, Pos
        <5> QED BY <3>2, <5>1, UftlSentinels
      <4> QED BY <1>2, <2>3, <4>1, <4>2
    <3>3. CASE At(b, p) # old /\ At(b, p) # c
      <4>1. state[b][p] = "using" BY <1>2, <2>3, <3>3
      <4>2. cur.block # None BY <1>2
      <4>3. PICK w \in Virt : index[w] = At(b, p) BY <1>0, <4>1, <4>2 DEF StateInv
      <4>4. w # v BY <1>1, <3>3, <4>3
      <4> QED BY <1>2, <4>3, <4>4
    <3> QED BY <3>1, <3>2, <3>3
  <2> QED BY <1>0, <1>1, <1>2, <2>1, <2>2, <2>3 DEF StateInv
<1> QED BY <1>3, <1>4, <1>6, <1>11, <1>12

\* The data of the virtual sectors after that.
LEMMA EnteredData ==
    ASSUME UftlAll, op.pc = "index", NEW v, NEW old, Entered(v, old), NEW c, EnteredTables(v, c, old), want' = want
    PROVE  /\ \A s \in Secs : OnFlash(v, s)'
           /\ OthersOnFlash /\ DurableKept
           /\ \A w \in Virt : index[w] # None => index'[w] # None
           /\ \A w \in Virt, s \in Secs : (\A i \in Holding(w) : s \notin pool[i].dirty) => OnFlash(w, s)'
<1>0. /\ TypeInv /\ OrderInv /\ DataInv /\ DurableInv /\ Pending BY DEF UftlAll, LebInv, Pending
<1>1. /\ leb' = leb /\ cur' = cur /\ v = pool[op.buf].sector /\ old = index[v] BY DEF Entered
<1>2. /\ v \in Virt /\ c = cur /\ c # None
      /\ index'[v] = c /\ \A w \in Virt : w # v => index'[w] = index[w]
  BY DEF EnteredTables
<1>3. Agrees(leb[c.block].page[c.page].data, v) BY <1>0, <1>1, <1>2 DEF DataInv
<1>4. Written1(leb[c.block].page[c.page])
  <2>1. c \in Pos /\ c.block # None BY DEF EnteredTables
  <2>2. c.block \in Blocks /\ c.page \in Pages BY <2>1 DEF Pos
  <2>3. \/ FullLeb(leb[c.block])
        \/ OpenLeb(leb[c.block], c.page + 1, blockId)
    BY <1>2, <2>1 DEF UftlAll, LebInv, FlashInv
  <2>4. c.page < c.page + 1 BY <2>2 DEF Pages
  <2> QED BY <2>2, <2>3, <2>4 DEF FullLeb, OpenLeb
<1>5. PageData(index[v])' = leb[c.block].page[c.page].data
  BY <1>1, <1>2, <1>4 DEF PageData, Written1
<1>6. ASSUME NEW s \in Secs, want[v][s] # Junk PROVE PageData(index[v])'[s] = want[v][s]
  BY <1>3, <1>5, <1>6 DEF Agrees
<1>7. \A s \in Secs : OnFlash(v, s)' BY <1>2, <1>6 DEF OnFlash
<1>8. ASSUME NEW w \in Virt, w # v PROVE PageData(index[w])' = PageData(index[w]) /\ index'[w] = index[w]
  BY <1>1, <1>2, <1>8 DEF PageData
<1>9. \A w \in Virt, s \in Secs : w # v => (OnFlash(w, s)' <=> OnFlash(w, s))
  BY <1>8 DEF OnFlash
<1>10. \A w \in Virt, s \in Secs : (\A i \in Holding(w) : s \notin pool[i].dirty) => OnFlash(w, s)'
  BY <1>0, <1>7, <1>9 DEF DataInv
<1>11. OthersOnFlash
  <2> SUFFICES ASSUME NEW w \in Virt, NEW s \in Secs, w # v,
                      \A i \in Bufs : i # op.buf /\ pool[i].sector = w => s \notin pool[i].dirty
               PROVE  OnFlash(w, s)'
    BY <1>7 DEF OthersOnFlash
  <2>1. \A i \in Holding(w) : s \notin pool[i].dirty BY <1>1 DEF Holding
  <2> QED BY <1>10, <2>1
<1>12. DurableKept
  <2> SUFFICES ASSUME NEW w \in Virt, NEW s \in Secs, Junk \notin durable[w][s]
               PROVE  /\ want[w][s] \in durable[w][s]
                      /\ index'[w] # None /\ PageData(index[w])'[s] \in durable[w][s]
    BY <1>0 DEF DurableKept, DurableInv
  <2>1. want[w][s] \in durable[w][s] /\ index[w] # None /\ PageData(index[w])[s] \in durable[w][s]
    BY <1>0 DEF DurableInv
  <2>2. CASE w = v BY <1>2, <1>6, <2>1, <2>2
  <2>3. CASE w # v BY <1>8, <2>1, <2>3
  <2> QED BY <2>2, <2>3
<1> QED BY <1>2, <1>7, <1>10, <1>11, <1>12

\* The page written last is the one the virtual sector is read from.
LEMMA UpdateIndexKeeps ==
    ASSUME UftlAll, UpdateIndex, misread \in BOOLEAN
    PROVE  UftlAll'
<1>0. /\ LebInv /\ TypeInv /\ FlashInv /\ OrderInv /\ StateInv /\ ControlInv
      /\ CallInv /\ BufInv /\ DataInv /\ DurableInv /\ op \in OpType /\ op.buf \in Bufs
  BY DEF UftlAll, LebInv, TypeInv, OpType
<1>1. PICK v, old, c : v = pool[op.buf].sector /\ old = index[v] /\ c = cur OBVIOUS
<1>2. /\ op.pc = "index"
      /\ \/ /\ old # None /\ UsingNum(state', using', old.block) = 0
            /\ op' = [op EXCEPT !.pc = "erase", !.block = old.block, !.after = "count"]
            /\ UNCHANGED <<checkCount, pool, want, durable, misread>>
         \/ CountPage
  BY <1>1 DEF UpdateIndex, hist
<1>3. Entered(v, old) BY <1>1 DEF UpdateIndex, Entered
<1>4. EnteredTables(v, c, old) BY <1>1, <1>2, <1>3, EnteredIs
<1>5. /\ UNCHANGED <<leb, undone, cur, blockId, logPage, fifo>>
      /\ index' \in [Virt -> Pos \cup {None}] /\ using' \in [Blocks -> 0 .. NPages]
      /\ state' \in [Blocks -> [Pages -> {"empty", "using", "discard"}]]
  BY <1>3, <1>4 DEF Entered, EnteredTables
<1>6. /\ cur.block # None /\ cur.page >= 0 /\ v # None /\ pool[op.buf].dirty # {}
  BY <1>0, <1>1, <1>2 DEF ControlInv
<1>7. ~Scrubbing /\ Pending BY <1>2 DEF Scrubbing, Pending
<1>8. ASSUME op'.pc \notin {"log", "index"}, ~Scrubbing'
      PROVE  FlashInv' /\ FifoInv' /\ IdInv' /\ OrderInv' /\ StateInv'
  BY <1>2, <1>3, <1>4, <1>8, EnteredLebs
\* The step stays in sync_one_buf() with the same buffer.
<1>9. ASSUME op' \in OpType, op'.pc \in {"erase", "gc"}, op'.call = op.call, op'.buf = op.buf,
             UNCHANGED <<pool, want, durable, misread>>, checkCount' \in 0 .. NPages + 1,
             ControlInv', ~Scrubbing'
      PROVE  UftlAll'
  <2>0. ~Pending' /\ op'.pc \notin {"log", "index"} BY <1>9 DEF Pending
  <2>1. FlashInv' /\ FifoInv' /\ IdInv' /\ OrderInv' /\ StateInv' BY <1>8, <1>9, <2>0
  <2>2. /\ \A s \in Secs : OnFlash(v, s)'
        /\ DurableKept
        /\ \A w \in Virt : index[w] # None => index'[w] # None
        /\ \A w \in Virt, s \in Secs : (\A i \in Holding(w) : s \notin pool[i].dirty) => OnFlash(w, s)'
    BY <1>2, <1>3, <1>4, <1>9, EnteredData
  <2>3. \A w : Holding(w)' = Holding(w) BY <1>9 DEF Holding
  <2>4. CallInv'
    <3>1. op.call.v \in Virt BY <1>0 DEF OpType, CallType
    <3> QED BY <1>0, <1>2, <1>9, <2>2, <2>3, <3>1 DEF CallInv
  <2>5. BufInv' BY <1>0, <1>9 DEF BufInv
  <2>6. DataInv'
    <3>1. pool'[op'.buf].sector = v BY <1>1, <1>9
    <3>2. \A s \in Secs : OnFlash(pool[op.buf].sector, s)' BY <2>2, <3>1 DEF OnFlash
    <3> QED BY <1>9, <2>0, <2>2, <2>3, <3>2 DEF DataInv
  <2>7. DurableInv' BY <1>9, <2>2 DEF DurableInv, DurableKept
  <2>8. TypeInv'
    <3>1. op'.pc \in Pcs /\ op'.buf \in Bufs BY <1>9 DEF OpType
    <3>2. UftlTypeOK' BY <1>0, <1>5, <1>9, <3>1 DEF TypeInv, UftlTypeOK
    <3> QED BY <1>9, <3>2 DEF TypeInv, OpType
  <2> QED BY <1>9, <2>1, <2>4, <2>5, <2>6, <2>7, <2>8 DEF UftlAll, LebInv
<1>10. CASE /\ old # None /\ UsingNum(state', using', old.block) = 0
            /\ op' = [op EXCEPT !.pc = "erase", !.block = old.block, !.after = "count"]
            /\ UNCHANGED <<checkCount, pool, want, durable, misread>>
  <2>1. PICK b : b = old.block OBVIOUS
  <2>2. old \in Pos /\ Holds(old, v) /\ c \in Pos /\ state'[c.block][c.page] = "using" /\ c = cur
    BY <1>4, <1>10 DEF EnteredTables
  <2>3. b \in Blocks /\ old.page \in Pages /\ c.page \in Pages BY <2>1, <2>2 DEF Pos
  <2>4. op' = [op EXCEPT !.pc = "erase", !.block = b, !.after = "count"] BY <1>10, <2>1
  <2>5. /\ op' \in OpType /\ op'.pc = "erase" /\ op'.call = op.call /\ op'.buf = op.buf
        /\ op'.block = b /\ op'.after = "count"
    BY <1>0, <2>3, <2>4 DEF OpType, Pcs
  <2>6. ~Scrubbing' BY <2>5 DEF Scrubbing
  <2>7. using'[b] = 0
    <3>1. NPages # 0 BY ZeroPage
    <3> QED BY <1>10, <2>1, <3>1 DEF UsingNum
  <2>8. \A p \in Pages : state'[b][p] # "using"
    <3>1. using'[b] = UsingOf(state', b) BY <1>4, <2>3 DEF EnteredTables
    <3> QED BY <2>7, <3>1, UsingIs
  <2>9. b # cur.block BY <2>2, <2>3, <2>8
  <2>10. FullLeb(leb[b])
    <3>1. leb[b] # EmptyLeb BY <2>1, <2>2, <2>3, EmptyPages DEF Holds, Written1
    <3> QED BY <1>0, <2>3, <2>9, <3>1 DEF FlashInv
  <2>11. \A w \in Virt : index'[w] # None => index'[w].block # b
    <3>0. op'.pc \notin {"log", "index"} BY <2>5
    <3>1. StateInv' BY <1>8, <2>6, <3>0
    <3> SUFFICES ASSUME NEW w \in Virt, index'[w] # None PROVE index'[w].block # b OBVIOUS
    <3>2. state'[index'[w].block][index'[w].page] = "using" BY <3>1 DEF StateInv
    <3>3. index'[w].page \in Pages BY <1>5 DEF Pos
    <3> QED BY <2>8, <3>2, <3>3
  <2>12. ControlInv'
    <3>1. UNCHANGED <<leb, cur, pool>> BY <1>5, <1>10
    <3> QED BY <1>1, <1>6, <2>3, <2>5, <2>6, <2>9, <2>10, <2>11, <3>1 DEF ControlInv
  <2>13. checkCount' \in 0 .. NPages + 1 BY <1>0, <1>10 DEF TypeInv, UftlTypeOK
  <2> QED BY <1>9, <1>10, <2>5, <2>6, <2>12, <2>13
<1>11. CASE CountPage
  <2>1. checkCount' \in 0 .. NPages + 1 BY <1>0, <1>11, CountType DEF CountPage, TypeInv, UftlTypeOK
  <2>2. CASE op' = [op EXCEPT !.pc = "gc", !.room = -1] /\ UNCHANGED <<pool, hist>>
    <3>1. op' = [op EXCEPT !.pc = "gc", !.room = -1] /\ UNCHANGED <<pool, want, durable, misread>> BY <2>2 DEF hist
    <3>6. -1 \in Int /\ "gc" \in Pcs BY DEF Pcs
    <3>2. op' \in OpType /\ op'.pc = "gc" /\ op'.call = op.call /\ op'.buf = op.buf
      BY <1>0, <3>1, <3>6 DEF OpType
    <3>3. ~Scrubbing' BY <3>2 DEF Scrubbing
    <3>4. UNCHANGED <<cur, pool>> BY <1>5, <3>1
    <3>5. ControlInv' BY <1>1, <1>6, <3>2, <3>3, <3>4 DEF ControlInv
    <3> QED BY <1>9, <2>1, <3>1, <3>2, <3>3, <3>5
  <2>3. CASE EndSync
    <3>1. want' = want BY <2>3 DEF EndSync
    <3>2. OthersOnFlash /\ DurableKept /\ \A w \in Virt : index[w] # None => index'[w] # None
      BY <1>2, <1>3, <1>4, <3>1, EnteredData
    <3>3. op.pc \notin {"idle", "resume"} BY <1>2
    <3>4. /\ op' \in OpType /\ op'.pc \in {"idle", "sync", "resume"}
          /\ pool' \in PoolTypes /\ durable' \in DurableTypes
          /\ misread' = misread
          /\ ControlInv' /\ CallInv' /\ BufInv' /\ DataInv' /\ DurableInv'
      BY <1>0, <2>3, <3>2, <3>3, EndSyncIs
    <3>5. ~Scrubbing' BY <3>4 DEF Scrubbing
    <3>6. FlashInv' /\ FifoInv' /\ IdInv' /\ OrderInv' /\ StateInv'
      <4>1. op'.pc \notin {"log", "index"} BY <3>4
      <4> QED BY <1>8, <3>5, <4>1
    <3>7. TypeInv'
      <4>1. op'.pc \in Pcs /\ op'.buf \in Bufs BY <3>4 DEF OpType
      <4>2. UftlTypeOK' BY <1>0, <1>5, <2>1, <3>1, <3>4, <4>1 DEF TypeInv, UftlTypeOK, PoolTypes, DurableTypes
      <4> QED BY <3>4, <4>2 DEF TypeInv, OpType
    <3> QED BY <3>4, <3>6, <3>7 DEF UftlAll, LebInv
  <2> QED BY <1>11, <2>2, <2>3 DEF CountPage
<1> QED BY <1>2, <1>10, <1>11

(***************************************************************************)
(* No block is empty.                                                      *)
(***************************************************************************)
\* The position behind the last page there is.
LEMMA NoNext ==
    ASSUME LebInv, NewPage.block = None, TakePage, op.pc # "log"
    PROVE  /\ cur'.block = None /\ fifo' = <<>>
           /\ cur' \in [block : Blocks \cup {None}, page : -1 .. NPages - 1]
           /\ blockId' \in 0 .. MaxId /\ blockId <= blockId'
           /\ cur.block # None => /\ FullLeb(leb[cur.block]) /\ leb[cur.block].log.id = blockId
                                  /\ blockId < blockId'
<1>1. /\ TypeInv /\ FlashInv /\ FifoInv /\ fifo \in Seq(Blocks)
      /\ cur = At(cur.block, cur.page) /\ cur.page \in Int /\ cur.page >= -1 /\ cur.page < NPages
      /\ NPages \in Nat /\ NPages > 0 /\ blockId \in Int
  BY CurType DEF LebInv, TypeInv, UftlTypeOK
<1>2. blockId' \in 0 .. MaxId BY <1>1, TakenId
<1>3. /\ cur' = NewPage /\ fifo' = (IF NewBlock /\ fifo # <<>> THEN Tail(fifo) ELSE fifo)
      /\ blockId' = IF NewBlock THEN blockId + 1 ELSE blockId
  BY DEF TakePage
<1>4. CASE NewBlock
  <2>1. NewPage = [block |-> IF fifo = <<>> THEN None ELSE Head(fifo), page |-> 0] BY <1>4 DEF NewPage
  <2>2. fifo = <<>>
    <3> SUFFICES ASSUME fifo # <<>> PROVE FALSE OBVIOUS
    <3>1. Head(fifo) \in Blocks BY <1>1
    <3>2. NewPage.block = Head(fifo) BY <2>1
    <3> QED BY <3>1, <3>2, UftlSentinels
  <2>3. NewPage = [block |-> None, page |-> 0] BY <2>1, <2>2
  <2>4. 0 \in -1 .. NPages - 1 BY <1>1
  <2>5. cur'.block = None /\ fifo' = <<>> BY <1>3, <2>2, <2>3
  <2>6. cur' \in [block : Blocks \cup {None}, page : -1 .. NPages - 1] BY <1>3, <2>3, <2>4
  <2>7. blockId < blockId' /\ blockId <= blockId' BY <1>1, <1>3, <1>4
  <2>8. cur.page = NPages - 1 BY <1>1, <1>4 DEF NewBlock
  <2>9. cur.block # None => FullLeb(leb[cur.block]) /\ leb[cur.block].log.id = blockId
    BY <1>1, <2>8 DEF FlashInv
  <2> QED BY <1>2, <2>5, <2>6, <2>7, <2>9
<1>5. CASE ~NewBlock
  <2>1. NewPage = At(cur.block, cur.page + 1)
    <3>1. NewPage = [cur EXCEPT !.page = @ + 1] BY <1>5 DEF NewPage
    <3>2. PICK b, p : b = cur.block /\ p = cur.page OBVIOUS
    <3>3. cur = [block |-> b, page |-> p] BY <1>1, <3>2 DEF At
    <3> QED BY <3>1, <3>2, <3>3 DEF At
  <2>2. cur.block = None BY <2>1 DEF At
  <2>3. fifo = <<>> BY <1>1, <2>2 DEF FifoInv
  <2>4. cur.page + 1 \in -1 .. NPages - 1 BY <1>1, <1>5 DEF NewBlock
  <2>5. cur'.block = None /\ fifo' = <<>> BY <1>3, <1>5, <2>1, <2>2, <2>3 DEF At
  <2>6. cur' \in [block : Blocks \cup {None}, page : -1 .. NPages - 1] BY <1>3, <2>1, <2>2, <2>4 DEF At
  <2>7. blockId <= blockId' BY <1>1, <1>3, <1>5
  <2> QED BY <1>2, <2>2, <2>5, <2>6, <2>7
<1> QED BY <1>4, <1>5

\* The write is refused; the block being recycled stays half copied.
LEMMA NoSpaceKeeps ==
    ASSUME UftlAll, NoSpace, misread \in BOOLEAN
    PROVE  UftlAll'
<1>0. /\ LebInv /\ TypeInv /\ FlashInv /\ FifoInv /\ IdInv /\ OrderInv /\ StateInv /\ ControlInv
      /\ CallInv /\ BufInv /\ DataInv /\ DurableInv /\ op.buf \in Bufs /\ blockId \in Int
      /\ index \in [Virt -> Pos \cup {None}] /\ leb \in [Blocks -> LebType]
      /\ undone \in [Blocks -> LebType]
  BY CurType DEF UftlAll, LebInv, TypeInv, UftlTypeOK
<1>1. /\ NewPage.block = None /\ TakePage /\ Fail
      /\ op.pc \in {"sync", "scrub"} /\ (op.pc = "sync" => pool[op.buf].dirty # {})
      /\ pool' = IF op.pc = "sync" THEN [pool EXCEPT ![op.buf].data = Merged(pool[op.buf])] ELSE pool
      /\ UNCHANGED <<leb, undone, index, state, using, logPage, checkCount>>
  BY DEF NoSpace
<1>2. /\ cur'.block = None /\ fifo' = <<>>
      /\ cur' \in [block : Blocks \cup {None}, page : -1 .. NPages - 1]
      /\ blockId' \in 0 .. MaxId /\ blockId <= blockId'
      /\ cur.block # None => /\ FullLeb(leb[cur.block]) /\ leb[cur.block].log.id = blockId
                             /\ blockId < blockId'
  BY <1>0, <1>1, NoNext
<1>3. /\ op' \in OpType /\ op'.pc \in {"idle", "sync"}
      /\ durable' \in DurableTypes /\ want' = want /\ misread' = misread
      /\ ControlInv' /\ ~Pending' /\ ~AfterIndex' /\ CallInv'
  BY <1>0, <1>1, FailIs
<1>4. ~Pending /\ ~Scrubbing' BY <1>1, <1>3 DEF Pending, Scrubbing
<1>5. FlashInv'
  <2>1. \A b \in Blocks : leb'[b] = EmptyLeb \/ FullLeb(leb'[b])
    <3> SUFFICES ASSUME NEW b \in Blocks PROVE leb[b] = EmptyLeb \/ FullLeb(leb[b]) BY <1>1
    <3>1. CASE b # cur.block BY <1>0, <3>1 DEF FlashInv
    <3>2. CASE b = cur.block BY <1>2, <3>2, UftlSentinels
    <3> QED BY <3>1, <3>2
  <2>2. \A b \in Blocks : undone'[b] # EmptyLeb =>
            leb'[b] = EmptyLeb /\ (FullLeb(undone'[b]) \/ TornLeb(undone'[b]))
    BY <1>0, <1>1 DEF FlashInv
  <2>3. op'.pc # "log" BY <1>3
  <2> QED BY <1>2, <2>1, <2>2, <2>3 DEF FlashInv
<1>6. FifoInv' BY <1>2 DEF FifoInv
<1>7. \A b : Media(b)' = Media(b) BY <1>1 DEF Media
<1>8. IdInv'
  <2>1. ASSUME NEW b \in Blocks, FullLeb(Media(b)) PROVE Media(b).log.id < blockId'
    <3>1. Media(b).log.id \in Int
      <4>1. Media(b) \in LebType BY <1>0 DEF Media
      <4>2. Media(b).log \in LogRec BY <2>1, <4>1 DEF FullLeb, Written1, LebType
      <4>3. Media(b).log.id \in 0 .. MaxId BY <4>2 DEF LogRec
      <4> QED BY <4>3
    <3>2. blockId' \in Int BY <1>2
    <3>3. CASE b # cur.block \/ leb[b] = EmptyLeb
      <4>1. Media(b).log.id < blockId BY <1>0, <2>1, <3>3 DEF IdInv
      <4> QED BY <1>0, <1>2, <3>1, <3>2, <4>1
    <3>4. CASE b = cur.block /\ leb[b] # EmptyLeb
      <4>1. cur.block # None BY <3>4, UftlSentinels
      <4>2. Media(b).log.id = blockId BY <1>2, <3>4, <4>1 DEF Media
      <4> QED BY <1>2, <4>1, <4>2
    <3> QED BY <3>3, <3>4
  <2>2. \A b, d \in Blocks : b # d /\ FullLeb(Media(b)') /\ FullLeb(Media(d)') =>
            Media(b)'.log.id # Media(d)'.log.id
    BY <1>0, <1>7 DEF IdInv
  <2>3. \A b \in Blocks : FullLeb(Media(b)') => Media(b)'.log.id < blockId' BY <1>7, <2>1
  <2> QED BY <2>2, <2>3 DEF IdInv
<1>9. \A i : MediaPage(i)' = MediaPage(i) BY <1>7 DEF MediaPage
<1>10. OrderInv'
  <2>1. ASSUME NEW i \in Pos, Written1(MediaPage(i)')
        PROVE  index'[MediaPage(i)'.sector] # None /\ Older(i, index[MediaPage(i).sector])'
    <3>1. MediaPage(i)' = MediaPage(i) BY <1>9
    <3>2. PICK w, j : w = MediaPage(i).sector /\ j = index[w] OBVIOUS
    <3>3. j # None /\ Older(i, j) BY <1>0, <1>4, <2>1, <3>1, <3>2 DEF OrderInv
    <3>4. MediaPage(j)' = MediaPage(j) /\ index'[w] = j BY <1>1, <1>9, <3>2
    <3>5. Older(i, index[MediaPage(i).sector])' BY <3>1, <3>2, <3>3, <3>4, OlderStill
    <3> QED BY <3>1, <3>2, <3>3, <3>4, <3>5
  <2>2. \A v \in Virt : index'[v] # None => Holds(index[v], v)' BY <1>0, <1>1 DEF OrderInv, Holds
  <2> QED BY <1>3, <2>1, <2>2 DEF OrderInv
<1>11. StateInv' BY <1>0, <1>1, <1>2, <1>3, <1>4 DEF StateInv
<1>12. /\ pool' \in PoolTypes /\ BufInv' /\ \A w : Holding(w)' = Holding(w)
       /\ \A j \in Bufs : pool'[j].sector = pool[j].sector /\ pool'[j].dirty = pool[j].dirty
  <2>1. CASE op.pc = "sync"
    <3>1. pool[op.buf].sector # None BY <1>0, <1>1, <2>1, DirtyHolds
    <3>2. pool' = [pool EXCEPT ![op.buf].data = Merged(pool[op.buf])] BY <1>1, <2>1
    <3>3. PICK i \in Bufs : i = op.buf BY <1>0
    <3>4. pool[i].sector # None /\ pool' = [pool EXCEPT ![i].data = Merged(pool[i])] BY <3>1, <3>2, <3>3
    <3> QED BY <1>0, <1>3, <3>4, PoolMerged
  <2>2. CASE op.pc = "scrub"
    <3>1. pool' = pool BY <1>1, <2>2
    <3>2. pool' \in PoolTypes BY <1>0, <3>1 DEF TypeInv, UftlTypeOK, PoolTypes
    <3>3. BufInv' BY <1>0, <1>3, <3>1 DEF BufInv
    <3> QED BY <3>1, <3>2, <3>3 DEF Holding
  <2> QED BY <1>1, <2>1, <2>2
<1>13. /\ \A w : PageData(index[w])' = PageData(index[w]) /\ index'[w] = index[w]
       /\ \A w, t : OnFlash(w, t)' <=> OnFlash(w, t)
  BY <1>1, <1>3 DEF PageData, OnFlash
<1>14. DataInv'
  <2>1. ASSUME NEW v \in Virt, NEW s \in Secs, \A i \in Holding(v)' : s \notin pool'[i].dirty
        PROVE  OnFlash(v, s)'
    <3>1. \A i \in Holding(v) : s \notin pool[i].dirty
      <4>1. Holding(v) \subseteq Bufs BY DEF Holding
      <4> QED BY <1>12, <2>1, <4>1
    <3> QED BY <1>0, <1>13, <3>1 DEF DataInv
  <2> QED BY <1>3, <2>1 DEF DataInv
<1>15. DurableInv'
  <2>1. \A w \in Virt, t \in Secs :
            (\A i \in Bufs : pool'[i].sector = w => t \notin pool'[i].dirty) => OnFlash(w, t)'
    BY <1>0, <1>12, <1>13 DEF DataInv, Holding
  <2>2. /\ "cut" \notin Faults => \A w \in Virt, t \in Secs : Junk \in durable[w][t]
        /\ \A w \in Virt, t \in Secs : Junk \notin durable[w][t] =>
               /\ want[w][t] \in durable[w][t]
               /\ index'[w] # None /\ PageData(index[w])'[t] \in durable[w][t]
    BY <1>0, <1>13 DEF DurableInv
  <2>3. Flushed BY <1>1 DEF Fail
  <2> QED BY <1>3, <2>1, <2>2, <2>3, FlushedKeeps
<1>16. TypeInv'
  <2>1. op'.pc \in Pcs /\ op'.buf \in Bufs BY <1>3 DEF OpType
  <2>2. fifo' \in Seq(Blocks) /\ Len(fifo') <= NBlocks BY <1>2, UftlSizes
  <2>3. UftlTypeOK' BY <1>0, <1>1, <1>2, <1>3, <1>12, <2>1, <2>2 DEF TypeInv, UftlTypeOK, PoolTypes, DurableTypes
  <2> QED BY <1>3, <2>3 DEF TypeInv, OpType
<1> QED BY <1>3, <1>5, <1>6, <1>8, <1>10, <1>11, <1>12, <1>14, <1>15, <1>16 DEF UftlAll, LebInv

(***************************************************************************)
(* The theorems.                                                           *)
(***************************************************************************)
\* What holds as long as no page was taken for read that was not.
IInv == misread \in BOOLEAN /\ (~misread => UftlAll)

\* The invariant holds after the first attach.
LEMMA InitAll == Init => IInv
<1> SUFFICES ASSUME Init PROVE UftlAll /\ misread \in BOOLEAN BY DEF IInv
<1>1. /\ leb = [b \in Blocks |-> EmptyLeb] /\ undone = [b \in Blocks |-> EmptyLeb]
      /\ index = [v \in Virt |-> None]
      /\ state = [b \in Blocks |-> [p \in Pages |-> "empty"]] /\ using = [b \in Blocks |-> 0]
      /\ cur = At(0, -1) /\ blockId = 1 /\ logPage = [p \in Pages |-> None]
      /\ fifo = [i \in 1 .. NBlocks - 1 |-> i] /\ checkCount = 0
      /\ pool = [i \in Bufs |-> NoBuf] /\ op = Idle
      /\ want = [v \in Virt |-> [s \in Secs |-> Junk]]
      /\ durable = [v \in Virt |-> [s \in Secs |-> {Junk}]] /\ misread = FALSE
  BY DEF Init, At
<1>2. /\ NBlocks \in Nat /\ NBlocks > 0 /\ NPages \in Nat /\ NPages > 0 /\ MaxId \in Nat /\ MaxId > 0
  BY UftlSizes
<1>3. op \in OpType /\ op.pc = "idle" BY <1>1, IdleType
<1>4. op.pc = "idle" /\ ~Pending /\ ~AfterIndex /\ ~Scrubbing BY <1>3 DEF Pending, AfterIndex, Scrubbing
<1>5. /\ \A p \in Pages : ~Written1(EmptyLeb.page[p]) /\ EmptyLeb.page[p] = Empty
      /\ EmptyLeb.log = Empty /\ EmptyLeb \in LebType /\ ~Written1(EmptyLeb.log)
  BY EmptyPages DEF Written1
<1>6. ~FullLeb(EmptyLeb) BY <1>5 DEF FullLeb
<1>7. \A b \in Blocks : leb[b] = EmptyLeb /\ undone[b] = EmptyLeb /\ Media(b) = EmptyLeb
  BY <1>1 DEF Media
<1>8. cur.block = 0 /\ cur.page = -1 /\ 0 \in Blocks /\ cur.block # None
  BY <1>1, <1>2, UftlSentinels DEF At, Blocks
<1>9. fifo \in Seq(Blocks) /\ Len(fifo) <= NBlocks /\ DOMAIN fifo = 1 .. NBlocks - 1
      /\ \A k \in DOMAIN fifo : fifo[k] = k /\ fifo[k] \in Blocks /\ fifo[k] # 0
  <2>1. NBlocks - 1 \in Nat BY <1>2
  <2>2. \A k \in 1 .. NBlocks - 1 : k \in Blocks /\ k # 0 BY <1>2 DEF Blocks
  <2>3. fifo \in [1 .. NBlocks - 1 -> Blocks] BY <1>1, <2>2
  <2>4. fifo \in Seq(Blocks) /\ Len(fifo) = NBlocks - 1 BY <2>1, <2>3
  <2> QED BY <1>1, <1>2, <2>2, <2>4
<1>10. NoBuf \in [sector : Virt \cup {None}, read : BOOLEAN, dirty : SUBSET Secs, data : Data]
       /\ NoBuf.sector = None
  BY DEF NoBuf, Data
<1>11. pool \in PoolTypes /\ \A i \in Bufs : pool[i] = NoBuf BY <1>1, <1>10 DEF PoolTypes
<1>12. want \in [Virt -> Data] /\ \A v \in Virt, s \in Secs : want[v][s] = Junk BY <1>1 DEF Data
<1>13. durable \in DurableTypes /\ \A v \in Virt, s \in Secs : Junk \in durable[v][s]
  BY <1>1 DEF DurableTypes
<1>14. TypeInv
  <2>1. cur \in [block : Blocks \cup {None}, page : -1 .. NPages - 1] BY <1>1, <1>2, <1>8 DEF At
  <2>2. using \in [Blocks -> 0 .. NPages] BY <1>1, <1>2
  <2>3. blockId \in 0 .. MaxId /\ checkCount \in 0 .. NPages + 1 BY <1>1, <1>2
  <2>4. op.pc \in Pcs /\ op.buf \in Bufs BY <1>3 DEF OpType
  <2>5. leb \in [Blocks -> LebType] /\ undone \in [Blocks -> LebType] BY <1>1, <1>5
  <2>6. /\ index \in [Virt -> Pos \cup {None}] /\ logPage \in [Pages -> Virt \cup {None}]
        /\ state \in [Blocks -> [Pages -> {"empty", "using", "discard"}]] /\ misread \in BOOLEAN
    BY <1>1
  <2>7. UftlTypeOK
    BY <1>9, <1>11, <1>12, <1>13, <2>1, <2>2, <2>3, <2>4, <2>5, <2>6 DEF UftlTypeOK, PoolTypes, DurableTypes
  <2> QED BY <1>3, <2>7 DEF TypeInv, OpType
<1>15. FlashInv
  <2>1. OpenLeb(leb[cur.block], cur.page + 1, blockId)
    <3>1. leb[cur.block] = EmptyLeb /\ cur.page + 1 = 0 BY <1>7, <1>8
    <3>2. \A p \in Pages : ~(p < 0) BY DEF Pages
    <3> QED BY <1>5, <3>1, <3>2 DEF OpenLeb
  <2>2. ~(cur.page = NPages - 1) BY <1>2, <1>8
  <2>3. \A p \in 0 .. cur.page : FALSE BY <1>8
  <2> QED BY <1>4, <1>7, <2>1, <2>2, <2>3 DEF FlashInv
<1>16. FifoInv BY <1>7, <1>8, <1>9 DEF FifoInv
<1>17. IdInv BY <1>6, <1>7 DEF IdInv
<1>18. OrderInv
  <2>1. \A i \in Pos : ~Written1(MediaPage(i)) BY <1>5, <1>7 DEF MediaPage, Pos
  <2>2. \A v \in Virt : index[v] = None BY <1>1
  <2> QED BY <2>1, <2>2 DEF OrderInv
<1>19. StateInv
  <2>1. \A b \in Blocks, p \in Pages : state[b][p] = "empty" /\ leb[b].page[p] = Empty
    BY <1>1, <1>5, <1>7
  <2>2. \A v \in Virt : index[v] = None BY <1>1
  <2>3. \A b \in Blocks : using[b] = UsingOf(state, b)
    <3>1. \A b \in Blocks : \A p \in Pages : state[b][p] # "using" BY <2>1
    <3>2. \A b \in Blocks : UsingOf(state, b) = 0 BY <3>1, UsingIs
    <3> QED BY <1>1, <3>2
  <2> QED BY <1>4, <2>1, <2>2, <2>3 DEF StateInv
<1>20. ControlInv /\ CallInv BY <1>4 DEF ControlInv, CallInv
<1>21. BufInv BY <1>10, <1>11 DEF BufInv
<1>22. DataInv BY <1>4, <1>12 DEF DataInv, OnFlash
<1>23. DurableInv BY <1>13 DEF DurableInv
<1> QED BY <1>1, <1>14, <1>15, <1>16, <1>17, <1>18, <1>19, <1>20, <1>21, <1>22, <1>23 DEF UftlAll, LebInv

\* No step makes a history with a misread page one without.
LEMMA MisreadStays ==
    ASSUME [Next]_vars, misread \in BOOLEAN
    PROVE  misread' \in BOOLEAN /\ (misread => misread')
<1>1. CASE UNCHANGED vars BY <1>1 DEF vars, hist
<1>2. \A v, s : FetchSector(v, s) => misread' \in BOOLEAN /\ (misread => misread')
  <2> SUFFICES ASSUME NEW v, NEW s, FetchSector(v, s) PROVE misread' \in BOOLEAN /\ (misread => misread')
    OBVIOUS
  <2>1. misread' = misread \/ misread' = (misread \/ Holding(v) = {})
    BY ZenonT(60) DEF FetchSector
  <2>2. (Holding(v) = {}) \in BOOLEAN OBVIOUS
  <2> QED BY <2>1, <2>2
<1>3. \A v, s, x : StoreSector(v, s, x) => misread' = misread BY DEF StoreSector
<1>4. EndSync => misread' = misread BY DEF EndSync
<1>5. CountPage => misread' = misread BY <1>4 DEF CountPage, hist
<1>6. CASE Call
  <2>1. CASE \E v \in Virt, s \in Secs, x \in Vals : WriteSector(v, s, x)
    BY <1>3, <2>1 DEF WriteSector, hist
  <2>2. CASE \E v \in Virt, s \in Secs : ReadSector(v, s) BY <1>2, <2>2 DEF ReadSector, hist
  <2>3. CASE AllFlush \/ \E i \in Bufs : QueueFlush(i) BY <2>3 DEF AllFlush, QueueFlush, hist
  <2> QED BY <1>6, <2>1, <2>2, <2>3 DEF Call
<1>7. CASE Step
  <2>1. CASE Resume BY <1>2, <1>3, <2>1 DEF Resume
  <2>2. CASE SyncClean BY <1>4, <2>2 DEF SyncClean
  <2>3. CASE SyncReadFails BY <2>3 DEF SyncReadFails, Fail
  <2>4. CASE SyncPage BY <2>4 DEF SyncPage, hist
  <2>5. CASE NoSpace BY <2>5 DEF NoSpace, Fail
  <2>6. CASE WriteLog BY <2>6 DEF WriteLog, hist
  <2>7. CASE UpdateIndex BY <1>5, <2>7 DEF UpdateIndex, hist
  <2>8. CASE Count BY <1>5, <2>8 DEF Count
  <2>9. CASE GcDone BY <1>4, <2>9 DEF GcDone
  <2>10. CASE GcPick BY <2>10 DEF GcPick, hist
  <2>11. CASE ScrubPage
    <3>1. misread' = misread \/ misread' = TRUE BY <2>11, ZenonT(60) DEF ScrubPage
    <3> QED BY <3>1
  <2>12. CASE ScrubDone BY <2>12 DEF ScrubDone, hist
  <2>13. CASE EraseBlock BY <2>13 DEF EraseBlock, hist
  <2> QED BY <1>7, <2>1, <2>2, <2>3, <2>4, <2>5, <2>6, <2>7, <2>8, <2>9, <2>10, <2>11, <2>12, <2>13 DEF Step
<1>8. CASE PowerCut BY <1>8 DEF PowerCut
<1>9. CASE Restart BY <1>9 DEF Restart, hist
<1> QED BY <1>1, <1>6, <1>7, <1>8, <1>9 DEF Next

\* The invariant depends on the variables only.
LEMMA StutterKeeps ==
    ASSUME UftlAll, UNCHANGED vars
    PROVE  UftlAll'
<1>1. LebSame /\ UNCHANGED <<state, using, checkCount, pool, op, want, durable, misread>>
  BY DEF vars, ram, hist, LebSame
<1>2. TypeInv' BY <1>1 DEF UftlAll, LebInv, TypeInv, UftlTypeOK, LebSame
<1>3. FlashInv' BY <1>1 DEF UftlAll, LebInv, FlashInv, LebSame
<1>4. FifoInv' BY <1>1 DEF UftlAll, LebInv, FifoInv, LebSame
<1>5. \A b : Media(b)' = Media(b) BY <1>1 DEF Media, LebSame
<1>6. IdInv' BY <1>1, <1>5 DEF UftlAll, LebInv, IdInv, LebSame
<1>7. PagesStay BY <1>1, <1>5 DEF PagesStay, MediaPage, LebSame
<1>8. (Pending' <=> Pending) /\ (Scrubbing' <=> Scrubbing) /\ (AfterIndex' <=> AfterIndex)
  BY <1>1 DEF Pending, Scrubbing, AfterIndex
<1>9. OrderInv'
  <2>1. UNCHANGED <<index, cur>> BY <1>1 DEF LebSame
  <2> QED BY <1>7, <1>8, <2>1, OrderStays DEF UftlAll, LebInv
<1>10. StateInv' BY <1>1, <1>8 DEF UftlAll, StateInv, LebSame
<1>11. \A v : Holding(v)' = Holding(v) BY <1>1 DEF Holding
<1>12. ControlInv' BY <1>1, <1>8 DEF UftlAll, ControlInv, LebSame
<1>13. CallInv' BY <1>1, <1>11 DEF UftlAll, CallInv, LebSame
<1>14. BufInv' BY <1>1 DEF UftlAll, BufInv
<1>15. /\ \A w : PageData(index[w])' = PageData(index[w]) /\ index'[w] = index[w]
       /\ \A w, t : OnFlash(w, t)' <=> OnFlash(w, t)
  BY <1>1, QuietPages
<1>16. DataInv' BY <1>1, <1>8, <1>11, <1>15 DEF UftlAll, DataInv, LebSame, Agrees
<1>17. DurableInv' BY <1>1, <1>15 DEF UftlAll, DurableInv
<1> QED BY <1>2, <1>3, <1>4, <1>6, <1>9, <1>10, <1>12, <1>13, <1>14, <1>16, <1>17 DEF UftlAll, LebInv

\* Every step keeps the invariant.
LEMMA StepKeeps ==
    ASSUME NoLogCuts, IInv, [Next]_vars
    PROVE  IInv'
<1>1. misread \in BOOLEAN /\ misread' \in BOOLEAN /\ (misread => misread') BY MisreadStays DEF IInv
<1> SUFFICES ASSUME ~misread' PROVE UftlAll' BY <1>1 DEF IInv
<1>2. UftlAll BY <1>1 DEF IInv
<1>3. CASE UNCHANGED vars BY <1>2, <1>3, StutterKeeps
<1>4. CASE Call
  <2>1. ASSUME NEW v \in Virt, NEW s \in Secs, NEW x \in Vals, WriteSector(v, s, x) PROVE UftlAll'
    BY <1>1, <1>2, <2>1, WriteSectorKeeps
  <2>2. ASSUME NEW v \in Virt, NEW s \in Secs, ReadSector(v, s) PROVE UftlAll'
    BY <1>1, <1>2, <2>2, ReadSectorKeeps
  <2>3. ASSUME NEW i \in Bufs, QueueFlush(i) PROVE UftlAll' BY <1>1, <1>2, <2>3, QueueFlushKeeps
  <2>4. CASE AllFlush BY <1>1, <1>2, <2>4, AllFlushKeeps
  <2> QED BY <1>4, <2>1, <2>2, <2>3, <2>4 DEF Call
<1>5. CASE Step
  <2>1. CASE Resume BY <1>1, <1>2, <2>1, ResumeKeeps
  <2>2. CASE SyncClean BY <1>1, <1>2, <2>2, SyncCleanKeeps
  <2>3. CASE SyncReadFails BY <1>1, <1>2, <2>3, SyncReadFailsKeeps
  <2>4. CASE SyncPage BY <1>1, <1>2, <2>4, SyncPageKeeps
  <2>5. CASE NoSpace BY <1>1, <1>2, <2>5, NoSpaceKeeps
  <2>6. CASE WriteLog BY <1>1, <1>2, <2>6, WriteLogKeeps
  <2>7. CASE UpdateIndex BY <1>1, <1>2, <2>7, UpdateIndexKeeps
  <2>8. CASE Count BY <1>1, <1>2, <2>8, CountKeeps
  <2>9. CASE GcDone BY <1>1, <1>2, <2>9, GcDoneKeeps
  <2>10. CASE GcPick BY <1>1, <1>2, <2>10, GcPickKeeps
  <2>11. CASE ScrubPage BY <1>1, <1>2, <2>11, ScrubPageKeeps
  <2>12. CASE ScrubDone BY <1>1, <1>2, <2>12, ScrubDoneKeeps
  <2>13. CASE EraseBlock BY <1>1, <1>2, <2>13, EraseKeeps
  <2> QED BY <1>5, <2>1, <2>2, <2>3, <2>4, <2>5, <2>6, <2>7, <2>8, <2>9, <2>10, <2>11, <2>12, <2>13 DEF Step
<1>6. CASE PowerCut BY <1>1, <1>2, <1>6, PowerCutKeeps
<1>7. CASE Restart BY <1>1, <1>2, <1>7, RestartKeeps
<1> QED BY <1>3, <1>4, <1>5, <1>6, <1>7 DEF Next

\* What every cut leaves, in the state of the invariant.
LEMMA AllSurvives ==
    ASSUME NoLogCuts, UftlAll
    PROVE  FlushedSurvives
<1> SUFFICES ASSUME NEW f \in CutLebs, NEW v \in Virt, NEW s \in Secs, Junk \notin durable[v][s]
             PROVE  AttachedValue(f, IndexOf(f), v, s) \in durable[v][s]
  BY DEF FlushedSurvives
<1>1. TypeInv /\ FlashInv /\ FifoInv BY DEF UftlAll, LebInv
<1>2. "cut" \in Faults BY DEF UftlAll, DurableInv
<1>3. CutOf(f) BY <1>1, <1>2, CutLebsAre
<1> QED BY <1>3, SurvivesIs

\* Unless a power cut hits a log page, and until a page was taken for read
\* that was not: every reachable state satisfies the seven parts above --
\* for any number of blocks, pages, sectors and buffers, any thresholds of
\* garbage collection and all other faults.
THEOREM UftlInvariant == ASSUME NoLogCuts PROVE Spec => []IInv
<1>1. Init => IInv BY InitAll
<1>2. IInv /\ [Next]_vars => IInv' BY StepKeeps
<1> QED BY <1>1, <1>2, PTL DEF Spec

\* The tables that create_index(), init_status() and update_sector_index()
\* keep in memory describe the LEBs between operations, log pages list what
\* is on their blocks, and no block is erased that a virtual sector is read
\* from.
THEOREM TablesStayTrue == ASSUME NoLogCuts PROVE Spec => []UftlInv
<1>1. IInv => UftlInv BY AllTables DEF IInv, UftlInv
<1> QED BY UftlInvariant, <1>1, PTL

\* ftl_core_io_read() returns what ftl_core_io_write() stored last, at every
\* step of writing back, merging, recycling and attaching.
THEOREM ReadsStayLatest == ASSUME NoLogCuts PROVE Spec => []ReadsLatest
<1>1. IInv => ReadsLatest BY AllReads DEF IInv, ReadsLatest
<1> QED BY UftlInvariant, <1>1, PTL

\* Wherever the power is cut, and whichever un-mapped blocks come back with
\* their old pages, attaching finds for a sector that ubiblock_flush() wrote
\* the flushed value or one written since.
THEOREM FlushedStaysDurable == ASSUME NoLogCuts PROVE Spec => []FlushedSurvives
<1>1. IInv => FlushedSurvives
  <2>1. CASE misread BY <2>1 DEF FlushedSurvives
  <2>2. CASE ~misread BY <2>2, AllSurvives DEF IInv
  <2> QED BY <2>1, <2>2
<1> QED BY UftlInvariant, <1>1, PTL
=============================================================================
