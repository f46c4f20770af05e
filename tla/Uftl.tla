-------------------------------- MODULE Uftl --------------------------------
(***************************************************************************)
(* The flash translation layer of InfoTM (src/modules/uftl/uftl_core.c).   *)
(*                                                                         *)
(* UFTL keeps a block device on a UBI volume.  A page of a LEB (a "block") *)
(* holds one virtual sector, that is NSecs sectors of the block device,    *)
(* and records in its last part which one it is and with which block_id it *)
(* was written.  The last page of a full block, the log page, repeats the  *)
(* virtual sectors of its pages.  Writes go to a pool of page buffers and  *)
(* from there to the current block, one page after the other; the pages    *)
(* they replace are discarded, and blocks with discarded pages are         *)
(* recycled.  Everything else is rebuilt from the pages when the volume is *)
(* attached.                                                               *)
(*                                                                         *)
(* Every operation holds uftl_mutex from its first to its last step, so    *)
(* `op` is the program counter of the one that is executed.  Its steps are *)
(* the writes and erasures of LEBs, between and during which the power may *)
(* be cut.                                                                 *)
(***************************************************************************)
EXTENDS Integers, FiniteSets, FiniteSetsExt, Sequences

CONSTANTS
    NBlocks,    \* leb_num
    NPages,     \* ftl_page_num: data pages of a block
    NVirt,      \* virtual_sector_num
    NSecs,      \* page_sector_num
    NBufs,      \* BUF_NUM
    LowBlocks,  \* LOW_BLOCK_NUM
    GcBlocks,   \* GC_BLOCK_NUM
    Vals,       \* contents of a sector
    Junk,       \* contents of memory or of a sector that was never written
    None,       \* FTL_NOMAP
    Empty, Torn,\* a page that was not written, or that cannot be read
    MaxId,      \* bound on block_id
    Faults      \* failures the environment may inject

Blocks == 0 .. NBlocks - 1
Pages == 0 .. NPages - 1
Virt == 0 .. NVirt - 1
Secs == 0 .. NSecs - 1
Bufs == 0 .. NBufs - 1

FaultKinds == {"restart", "cut", "cut_before_log", "cut_in_log", "unmap_undone", "read_error"}

ASSUME UftlSizes ==
    /\ NBlocks \in Nat \ {0} /\ NPages \in Nat \ {0} /\ NVirt \in Nat \ {0}
    /\ NSecs \in Nat \ {0} /\ NBufs \in Nat \ {0}
    /\ LowBlocks \in Nat /\ GcBlocks \in Nat /\ MaxId \in Nat \ {0}

\* ubiblk_add() reports a size that leaves more than the blocks that are
\* kept free.
ASSUME UftlCapacity == LowBlocks <= GcBlocks /\ NVirt <= (NBlocks - GcBlocks) * NPages
ASSUME UftlFaults == Faults \subseteq FaultKinds

VARIABLES
    leb,         \* contents of the LEBs
    undone,      \* per LEB, contents that un-mapping it may not have erased yet
    index,       \* sector_index
    state,       \* block_state_index[].page_state
    using,       \* block_state_index[].using_page
    cur,         \* cur_offset
    blockId,     \* block_id
    logPage,     \* block_log_page
    fifo,        \* empty_block_fifo
    checkCount,  \* check_count, up to the only value that matters
    pool,        \* page_buf_pool
    op,          \* the operation holding uftl_mutex
    want,        \* last value written to each sector (history)
    durable,     \* values each sector may have after a power cut, Junk for any (history)
    misread      \* a read that failed was taken for one that did not (history)

ram == <<index, state, using, cur, blockId, logPage, fifo, checkCount>>
hist == <<want, durable, misread>>
vars == <<leb, undone, ram, pool, op, hist>>

Data == [Secs -> Vals \cup {Junk}]
PageRec == [sector : Virt, id : 0 .. MaxId, data : Data]
LogRec == [id : 0 .. MaxId, sectors : [Pages -> Virt \cup {None}]]
Pos == [block : Blocks, page : Pages]

\* FTL_NOMAP is no index, and a page that holds no page log is told from one
\* that does by the magic number.
ASSUME UftlSentinels ==
    /\ None \notin Virt /\ None \notin Blocks /\ None \notin Pos
    /\ Empty # Torn
    /\ \A x \in {Empty, Torn} : x \notin PageRec /\ x \notin LogRec

EmptyLeb == [page |-> [p \in Pages |-> Empty], log |-> Empty]
LebType == [page : [Pages -> PageRec \cup {Empty, Torn}], log : LogRec \cup {Empty, Torn}]

NoBuf == [sector |-> None, read |-> FALSE, dirty |-> {}, data |-> [s \in Secs |-> Junk]]

\* `call` is what the operation was called for: a sector to write or to
\* read, one buffer to flush in the background, or all of them.  `room` is
\* how many pages were empty when the last block to recycle was picked (history).
NoCall == [kind |-> "none", v |-> 0, s |-> 0, x |-> Junk]
Idle == [pc |-> "idle", call |-> NoCall, buf |-> 0, block |-> None, page |-> 0, after |-> "idle",
         room |-> -1]
Pcs == {"idle", "sync", "log", "index", "count", "scrub", "erase", "gc", "resume", "bug"}

UftlTypeOK ==
    /\ leb \in [Blocks -> LebType]
    /\ undone \in [Blocks -> LebType]
    /\ index \in [Virt -> Pos \cup {None}]
    /\ state \in [Blocks -> [Pages -> {"empty", "using", "discard"}]]
    /\ using \in [Blocks -> 0 .. NPages]
    /\ cur \in [block : Blocks \cup {None}, page : -1 .. NPages - 1]
    /\ blockId \in 0 .. MaxId
    /\ logPage \in [Pages -> Virt \cup {None}]
    /\ fifo \in Seq(Blocks) /\ Len(fifo) <= NBlocks
    /\ checkCount \in 0 .. NPages + 1
    /\ pool \in [Bufs -> [sector : Virt \cup {None}, read : BOOLEAN, dirty : SUBSET Secs, data : Data]]
    /\ op.pc \in Pcs /\ op.buf \in Bufs
    /\ want \in [Virt -> Data]
    /\ durable \in [Virt -> [Secs -> SUBSET (Vals \cup {Junk})]]
    /\ misread \in BOOLEAN

----------------------------------------------------------------------------
(* create_index() and init_status(): what attaching finds on the LEBs `f`. *)

Logged(f, b) == f[b].log \notin {Empty, Torn}

\* Leading pages of a block that hold a page log.
Written(f, b) ==
    CHOOSE n \in 0 .. NPages :
        /\ \A p \in 0 .. n - 1 : f[b].page[p] \notin {Empty, Torn}
        /\ n < NPages => f[b].page[n] \in {Empty, Torn}

\* The first block without log page is taken for the block that was being
\* written; later ones are not looked at.
Unlogged(f) == {b \in Blocks : f[b].log = Empty /\ Written(f, b) > 0}
LastBlock(f) == IF Unlogged(f) = {} THEN None ELSE Min(Unlogged(f))

\* The pages found: virtual sector and id are taken from the log page if
\* there is one.
FoundPages(f) ==
    LET last == LastBlock(f) IN
    {i \in Pos : \/ Logged(f, i.block)
                 \/ i.block = last /\ i.page < Written(f, i.block)}
Entry(f, i) ==
    LET b == f[i.block]
        logged == b.log \notin {Empty, Torn}
    IN  [block |-> i.block, page |-> i.page,
         sector |-> IF logged THEN b.log.sectors[i.page] ELSE b.page[i.page].sector,
         id |-> IF logged THEN b.log.id ELSE b.page[i.page].id]
Entries(f) == {Entry(f, i) : i \in FoundPages(f)}

Before(d, e) == d.block < e.block \/ (d.block = e.block /\ d.page < e.page)

\* Mutant: of several pages with the same id the first one is used.
NewestFirst(es, v) ==
    {e \in es : e.sector = v /\ \A d \in es :
        d.sector = v /\ d # e => d.id < e.id \/ (d.id = e.id /\ Before(e, d))}

\* Of the pages of a virtual sector, the one with the highest id is used,
\* and the last one found if there are several.
Newest(es, v) ==
    {e \in es : e.sector = v /\ \A d \in es :
        d.sector = v /\ d # e => d.id < e.id \/ (d.id = e.id /\ Before(d, e))}

IndexOf(f) ==
    LET es == Entries(f) IN
    [v \in Virt |->
        LET found == Newest(es, v)
            e == CHOOSE n \in found : TRUE
        IN  IF found = {} THEN None ELSE [block |-> e.block, page |-> e.page]]

StateOf(f) ==
    LET ix == IndexOf(f)
        used == {ix[v] : v \in Virt}
        found == FoundPages(f)
    IN
    [b \in Blocks |-> [p \in Pages |->
        IF [block |-> b, page |-> p] \in used THEN "using"
        ELSE IF [block |-> b, page |-> p] \in found THEN "discard" ELSE "empty"]]

UsingOf(st, b) == Cardinality({p \in Pages : st[b][p] = "using"})

\* A page of the last block is entered in its log page when it is found,
\* unless a newer one was found before.
LogPageOf(f) ==
    LET es == Entries(f)
        last == LastBlock(f)
    IN
    [p \in Pages |->
        IF \E e \in es :
            /\ e.block = last /\ e.page = p
            /\ \A d \in es : d.sector = e.sector /\ Before(d, e) => d.id <= e.id
        THEN f[last].page[p].sector ELSE None]

\* The blocks without a page in use are un-mapped, those whose log page
\* cannot be read are erased first.
Unused(st) == {b \in Blocks : UsingOf(st, b) = 0}

\* ftl_rescure(): the pages before the one that cannot be read are written
\* to a new PEB.
Rescued(f) ==
    LET b == LastBlock(f)
        n == IF b = None THEN 0 ELSE Written(f, b)
    IN  IF b = None \/ n = NPages \/ f[b].page[n] # Torn THEN f
        ELSE [f EXCEPT ![b].page = [p \in Pages |-> IF p < n THEN @[p] ELSE Empty]]

SortedSeq(S) ==
    [i \in 1 .. Cardinality(S) |->
        CHOOSE b \in S : Cardinality({c \in S : c < b}) = i - 1]

\* The state after attaching.
Attach(f) ==
    LET st == StateOf(f)
        unused == Unused(st)
        blocks == SortedSeq(unused)
        kept == Rescued(f)
        id == Max({0} \cup {e.id : e \in Entries(f)})
        fresh == LastBlock(f) = None
    IN
    /\ leb' = [b \in Blocks |-> IF b \in unused THEN EmptyLeb ELSE kept[b]]
    /\ undone' = [b \in Blocks |->
            IF "unmap_undone" \in Faults /\ b \in unused /\ f[b].log # Torn THEN f[b] ELSE EmptyLeb]
    /\ index' = IndexOf(f)
    /\ state' = [b \in Blocks |-> IF b \in unused THEN [p \in Pages |-> "empty"] ELSE st[b]]
    /\ using' = [b \in Blocks |-> UsingOf(st, b)]
    /\ blockId' = IF fresh THEN id + 1 ELSE id
    /\ cur' = IF ~fresh THEN [block |-> LastBlock(f), page |-> Written(f, LastBlock(f)) - 1]
              ELSE [block |-> IF blocks = <<>> THEN None ELSE Head(blocks), page |-> -1]
    /\ fifo' = IF fresh /\ blocks # <<>> THEN Tail(blocks) ELSE blocks
    /\ logPage' = LogPageOf(f)
    /\ checkCount' = 0
    /\ pool' = [i \in Bufs |-> NoBuf]
    /\ op' = Idle

\* What a read of a sector returns after attaching with the index `ix`.
AttachedValue(f, ix, v, s) ==
    IF ix[v] = None \/ f[ix[v].block].page[ix[v].page] \in {Empty, Torn} THEN Junk
    ELSE f[ix[v].block].page[ix[v].page].data[s]

\* The first attach of an empty volume.
Init ==
    /\ leb = [b \in Blocks |-> EmptyLeb]
    /\ undone = [b \in Blocks |-> EmptyLeb]
    /\ index = [v \in Virt |-> None]
    /\ state = [b \in Blocks |-> [p \in Pages |-> "empty"]]
    /\ using = [b \in Blocks |-> 0]
    /\ cur = [block |-> 0, page |-> -1]
    /\ blockId = 1
    /\ logPage = [p \in Pages |-> None]
    /\ fifo = [i \in 1 .. NBlocks - 1 |-> i]
    /\ checkCount = 0
    /\ pool = [i \in Bufs |-> NoBuf]
    /\ op = Idle
    /\ want = [v \in Virt |-> [s \in Secs |-> Junk]]
    /\ durable = [v \in Virt |-> [s \in Secs |-> {Junk}]]
    /\ misread = FALSE

----------------------------------------------------------------------------
(* Helpers.                                                                *)

PageData(i) ==
    LET p == leb[i.block].page[i.page] IN
    IF p \in {Empty, Torn} THEN [s \in Secs |-> Junk] ELSE p.data

\* Mutant: the sectors on flash are not merged.
MergedDirty(b) == b.data

\* The sectors of a buffer that were written, completed with those on flash.
Merged(b) ==
    LET i == index[b.sector] IN
    IF b.read \/ i = None THEN b.data
    ELSE [s \in Secs |-> IF s \in b.dirty THEN b.data[s] ELSE PageData(i)[s]]

\* is_sector_in_buf() and get_new_buf()
Holding(v) == {i \in Bufs : pool[i].sector = v}
BufFor(v) == IF Holding(v) # {} THEN Holding(v) ELSE {i \in Bufs : pool[i].sector = None}

\* get_new_page(); block None stands for the negative index of a page when
\* the fifo is empty, which every write refuses.
NewBlock == cur.page + 1 = NPages
NewPage ==
    IF ~NewBlock THEN [cur EXCEPT !.page = @ + 1]
    ELSE [block |-> IF fifo = <<>> THEN None ELSE Head(fifo), page |-> 0]

TakePage ==
    /\ NewBlock => blockId < MaxId
    /\ cur' = NewPage
    /\ fifo' = IF NewBlock /\ fifo # <<>> THEN Tail(fifo) ELSE fifo
    /\ blockId' = IF NewBlock THEN blockId + 1 ELSE blockId

\* get_block_using_page_num(): a block with empty pages is not recycled.
UsingNum(st, us, b) ==
    IF (b = cur.block /\ st[b][NPages - 1] = "empty") \/ st[b][0] = "empty"
    THEN NPages ELSE us[b]

Goto(pc) == op' = [op EXCEPT !.pc = pc]

\* sync_one_buf() returns: ftl_core_io_all_flush() goes on with the next
\* buffer whatever the result, the other callers return its error.
Return ==
    IF op.call.kind = "flush" /\ op.buf < NBufs - 1
    THEN [op EXCEPT !.pc = "sync", !.buf = @ + 1] ELSE Idle

\* ubiblock_flush() reports success when it has tried all buffers, also if
\* one of them could not be written: what is left dirty is not durable.
LeftDirty(v) == \E i \in Bufs : pool'[i].sector = v /\ pool'[i].dirty # {}
Flushed ==
    durable' = IF "cut" \in Faults /\ op.call.kind = "flush" /\ op.buf = NBufs - 1
               THEN [v \in Virt |-> IF LeftDirty(v) THEN durable[v]
                                     ELSE [s \in Secs |-> {want[v][s]}]]
               ELSE durable

Fail == op' = Return /\ Flushed /\ UNCHANGED <<want, misread>>

----------------------------------------------------------------------------
(* The calls.                                                              *)

Begin(kind, v, s, x, i) ==
    op' = [Idle EXCEPT !.pc = "sync", !.buf = i, !.call = [kind |-> kind, v |-> v, s |-> s, x |-> x]]

StoreSector(v, s, x) ==
    LET i == Min(BufFor(v)) IN
    /\ pool' = [pool EXCEPT ![i].sector = v, ![i].data[s] = x,
                            ![i].dirty = IF Holding(v) # {} THEN @ \cup {s} ELSE {s}]
    /\ op' = Idle
    /\ want' = [want EXCEPT ![v][s] = x]
    /\ durable' = IF "cut" \in Faults /\ Junk \notin durable[v][s]
                  THEN [durable EXCEPT ![v][s] = @ \cup {x}] ELSE durable
    /\ UNCHANGED misread

\* ftl_core_io_write(): flush_one_buf(), which always takes the first
\* buffer, makes room if there is none.
WriteSector(v, s, x) ==
    /\ op.pc = "idle"
    /\ IF BufFor(v) # {} THEN StoreSector(v, s, x)
       ELSE Begin("write", v, s, x, 0) /\ UNCHANGED <<pool, hist>>
    /\ UNCHANGED <<leb, undone, ram>>

FetchSector(v, s) ==
    LET i == Min(BufFor(v)) IN
    /\ \/ /\ pool' = IF Holding(v) = {}
                    THEN [pool EXCEPT ![i].sector = v, ![i].read = TRUE, ![i].dirty = {},
                                      ![i].data = PageData(index[v])]
                    ELSE [pool EXCEPT ![i].read = TRUE, ![i].data = Merged(pool[i])]
          /\ UNCHANGED misread
       \/ /\ "read_error" \in Faults
          /\ pool' = IF Holding(v) = {}
                     THEN [pool EXCEPT ![i].sector = v, ![i].read = TRUE, ![i].dirty = {}]
                     ELSE pool
          /\ misread' = (misread \/ Holding(v) = {})
    /\ op' = Idle
    /\ UNCHANGED <<want, durable>>

\* ftl_core_io_read() of a sector that is not complete in a buffer.
ReadSector(v, s) ==
    /\ op.pc = "idle" /\ index[v] # None
    /\ \A i \in Holding(v) : s \notin pool[i].dirty /\ ~pool[i].read
    /\ IF BufFor(v) # {} THEN FetchSector(v, s)
       ELSE Begin("read", v, s, Junk, 0) /\ UNCHANGED <<pool, hist>>
    /\ UNCHANGED <<leb, undone, ram>>

\* The call goes on after flush_one_buf().
Resume ==
    /\ op.pc = "resume"
    /\ IF op.call.kind = "write" THEN StoreSector(op.call.v, op.call.s, op.call.x)
       ELSE FetchSector(op.call.v, op.call.s)
    /\ UNCHANGED <<leb, undone, ram>>

\* ftl_core_io_queue_flush() by the delayed work: a dirty buffer that was
\* not touched for a while.
QueueFlush(i) ==
    /\ op.pc = "idle" /\ pool[i].dirty # {}
    /\ Begin("queue", 0, 0, Junk, i)
    /\ UNCHANGED <<leb, undone, ram, pool, hist>>

\* ubiblock_flush(): ftl_core_io_all_flush(), then ubi_sync().
AllFlush ==
    /\ op.pc = "idle"
    /\ Begin("flush", 0, 0, Junk, 0)
    /\ UNCHANGED <<leb, undone, ram, pool, hist>>

----------------------------------------------------------------------------
(* sync_one_buf()                                                          *)

\* The end of sync_one_buf(): the buffer is free.
EndSync ==
    /\ pool' = [pool EXCEPT ![op.buf] = NoBuf]
    /\ op' = IF op.call.kind \in {"write", "read"} THEN [op EXCEPT !.pc = "resume"] ELSE Return
    /\ Flushed
    /\ UNCHANGED <<want, misread>>

SyncClean ==
    /\ op.pc = "sync" /\ pool[op.buf].dirty = {}
    /\ EndSync
    /\ UNCHANGED <<leb, undone, ram>>

\* The page cannot be read to be merged.
SyncReadFails ==
    LET b == pool[op.buf] IN
    /\ op.pc = "sync" /\ b.dirty \notin {{}, Secs} /\ ~b.read /\ index[b.sector] # None
    /\ "read_error" \in Faults
    /\ UNCHANGED <<leb, undone, ram, pool>>
    /\ Fail

\* The data page is written to the next page of the current block.
SyncPage ==
    LET b == pool[op.buf] IN
    /\ op.pc = "sync" /\ b.dirty # {} /\ NewPage.block # None
    /\ TakePage
    /\ pool' = [pool EXCEPT ![op.buf].data = Merged(b)]
    /\ leb' = [leb EXCEPT ![NewPage.block].page[NewPage.page] =
                    [sector |-> b.sector, id |-> blockId', data |-> Merged(b)]]
    /\ logPage' = [logPage EXCEPT ![NewPage.page] = b.sector]
    /\ op' = [op EXCEPT !.pc = IF NewPage.page = NPages - 1 THEN "log" ELSE "index",
                        !.after = "index"]
    /\ undone' = [undone EXCEPT ![NewPage.block] = EmptyLeb]
    /\ UNCHANGED <<index, state, using, checkCount, hist>>

\* There is no empty block.
NoSpace ==
    /\ \/ op.pc = "sync" /\ pool[op.buf].dirty # {}
       \/ op.pc = "scrub" /\ \E p \in Pages : p >= op.page /\ state[op.block][p] = "using"
    /\ NewPage.block = None
    /\ TakePage
    /\ pool' = IF op.pc = "sync" THEN [pool EXCEPT ![op.buf].data = Merged(pool[op.buf])] ELSE pool
    /\ Fail
    /\ UNCHANGED <<leb, undone, index, state, using, logPage, checkCount>>

\* The log page is written after the last data page of the block.
WriteLog ==
    /\ op.pc = "log"
    /\ leb' = [leb EXCEPT ![cur.block].log = [id |-> blockId, sectors |-> logPage]]
    /\ Goto(op.after)
    /\ UNCHANGED <<undone, ram, pool, hist>>

\* Blocks are recycled if there are few empty ones and enough pages were
\* written since the last time.
CountPage ==
    /\ checkCount' = Min({checkCount + 1, NPages + 1})
    /\ IF checkCount' > NPages /\ Len(fifo) < LowBlocks
       THEN op' = [op EXCEPT !.pc = "gc", !.room = -1] /\ UNCHANGED <<pool, hist>>
       ELSE EndSync

Count ==
    /\ op.pc = "count"
    /\ CountPage
    /\ UNCHANGED <<leb, undone, index, state, using, cur, blockId, logPage, fifo>>

\* The new page is in use, the old one is discarded; a block without used
\* pages is recycled at once.
UpdateIndex ==
    LET v == pool[op.buf].sector
        old == index[v]
        st == [state EXCEPT ![cur.block][cur.page] = "using"]
        us == [using EXCEPT ![cur.block] = @ + 1]
    IN
    /\ op.pc = "index"
    /\ index' = [index EXCEPT ![v] = [block |-> cur.block, page |-> cur.page]]
    /\ state' = IF old = None THEN st ELSE [st EXCEPT ![old.block][old.page] = "discard"]
    /\ using' = IF old = None THEN us ELSE [us EXCEPT ![old.block] = @ - 1]
    /\ IF old # None /\ UsingNum(state', using', old.block) = 0
       THEN /\ op' = [op EXCEPT !.pc = "erase", !.block = old.block, !.after = "count"]
            /\ UNCHANGED <<checkCount, pool, hist>>
       ELSE CountPage
    /\ UNCHANGED <<leb, undone, cur, blockId, logPage, fifo>>

----------------------------------------------------------------------------
(* garbage_checking() and scrub_block()                                    *)

Recyclable == {b \in Blocks : UsingNum(state, using, b) < NPages}

\* The first of the blocks with the fewest used pages.
Victim ==
    LET least == {b \in Recyclable : \A c \in Recyclable :
                    UsingNum(state, using, b) <= UsingNum(state, using, c)}
    IN  Min(least)

\* The pages that can be written before the fifo is empty.
Room == Len(fifo) * NPages + NPages - 1 - cur.page

GcDone ==
    /\ op.pc = "gc" /\ Len(fifo) >= GcBlocks
    /\ checkCount' = 0
    /\ EndSync
    /\ UNCHANGED <<leb, undone, index, state, using, cur, blockId, logPage, fifo>>

GcPick ==
    /\ op.pc = "gc" /\ Len(fifo) < GcBlocks
    /\ op' = IF Recyclable = {} THEN [op EXCEPT !.pc = "bug"]
             ELSE [op EXCEPT !.pc = IF using[Victim] = 0 THEN "erase" ELSE "scrub",
                             !.block = Victim, !.page = 0, !.after = "gc", !.room = Room]
    /\ UNCHANGED <<leb, undone, ram, pool, hist>>

\* Mutant: discarded pages are copied, too.
ScrubPageDiscarded ==
    LET p == Min({q \in Pages : q >= op.page})
        new == NewPage
        rec == leb[op.block].page[p]
    IN
    /\ op.pc = "scrub"
    /\ \E q \in Pages : q >= op.page /\ state[op.block][q] = "using"
    /\ \/ /\ new.block # None
          /\ TakePage
          /\ index' = [index EXCEPT ![rec.sector] = new]
          /\ state' = [state EXCEPT ![new.block][new.page] = "using"]
          /\ using' = [using EXCEPT ![new.block] = @ + 1]
          /\ leb' = [leb EXCEPT ![new.block].page[new.page] = [rec EXCEPT !.id = blockId']]
          /\ undone' = [undone EXCEPT ![new.block] = EmptyLeb]
          /\ logPage' = [logPage EXCEPT ![new.page] = rec.sector]
          /\ op' = [op EXCEPT !.pc = IF new.page = NPages - 1 THEN "log" ELSE "scrub",
                              !.page = p + 1, !.after = "scrub"]
          /\ UNCHANGED misread
       \/ /\ "read_error" \in Faults
          /\ op' = [op EXCEPT !.page = p + 1]
          /\ misread' = TRUE
          /\ UNCHANGED <<leb, undone, ram>>
    /\ UNCHANGED <<checkCount, pool, want, durable>>

\* A used page of the victim is copied to the next page of the current
\* block, or skipped if it cannot be read.
ScrubPage ==
    LET p == Min({q \in Pages : q >= op.page /\ state[op.block][q] = "using"})
        new == NewPage
        rec == leb[op.block].page[p]
    IN
    /\ op.pc = "scrub"
    /\ \E q \in Pages : q >= op.page /\ state[op.block][q] = "using"
    /\ \/ /\ new.block # None
          /\ TakePage
          /\ index' = [index EXCEPT ![rec.sector] = new]
          /\ state' = [state EXCEPT ![new.block][new.page] = "using"]
          /\ using' = [using EXCEPT ![new.block] = @ + 1]
          /\ leb' = [leb EXCEPT ![new.block].page[new.page] = [rec EXCEPT !.id = blockId']]
          /\ undone' = [undone EXCEPT ![new.block] = EmptyLeb]
          /\ logPage' = [logPage EXCEPT ![new.page] = rec.sector]
          /\ op' = [op EXCEPT !.pc = IF new.page = NPages - 1 THEN "log" ELSE "scrub",
                              !.page = p + 1, !.after = "scrub"]
          /\ UNCHANGED misread
       \/ /\ "read_error" \in Faults
          /\ op' = [op EXCEPT !.page = p + 1]
          /\ misread' = TRUE
          /\ UNCHANGED <<leb, undone, ram>>
    /\ UNCHANGED <<checkCount, pool, want, durable>>

ScrubDone ==
    /\ op.pc = "scrub"
    /\ \A q \in Pages : q >= op.page => state[op.block][q] # "using"
    /\ op' = [op EXCEPT !.pc = "erase", !.after = "gc"]
    /\ UNCHANGED <<leb, undone, ram, pool, hist>>

\* Mutant: the pages keep their states.
EraseBlockKeeps ==
    LET b == op.block IN
    /\ op.pc = "erase"
    /\ leb' = [leb EXCEPT ![b] = EmptyLeb]
    /\ undone' = IF "unmap_undone" \in Faults THEN [undone EXCEPT ![b] = leb[b]] ELSE undone
    /\ fifo' = Append(fifo, b)
    /\ using' = [using EXCEPT ![b] = 0]
    /\ Goto(op.after)
    /\ UNCHANGED <<index, state, cur, blockId, logPage, checkCount, pool, hist>>

\* The block is un-mapped and can be written again.
EraseBlock ==
    LET b == op.block IN
    /\ op.pc = "erase"
    /\ leb' = [leb EXCEPT ![b] = EmptyLeb]
    /\ undone' = IF "unmap_undone" \in Faults THEN [undone EXCEPT ![b] = leb[b]] ELSE undone
    /\ fifo' = Append(fifo, b)
    /\ state' = [state EXCEPT ![b] = [p \in Pages |-> "empty"]]
    /\ using' = [using EXCEPT ![b] = 0]
    /\ Goto(op.after)
    /\ UNCHANGED <<index, cur, blockId, logPage, checkCount, pool, hist>>

----------------------------------------------------------------------------
(* Power cuts.                                                             *)

\* The LEBs after a cut: the write in progress may not have begun or have
\* left a page that cannot be read; un-mapped LEBs may not be erased yet.
Writing == NewPage.block # None /\
    \/ op.pc = "sync" /\ pool[op.buf].dirty # {}
    \/ op.pc = "scrub" /\ \E p \in Pages : p >= op.page /\ state[op.block][p] = "using"
TornWrites ==
    IF op.pc = "log"
    THEN {leb : x \in {"cut_before_log"} \cap Faults}
         \cup {[leb EXCEPT ![cur.block].log = Torn] : x \in {"cut_in_log"} \cap Faults}
    ELSE {leb} \cup {[leb EXCEPT ![NewPage.block].page[NewPage.page] = Torn] :
                        x \in IF Writing THEN {TRUE} ELSE {}}
CutLebs ==
    {[b \in Blocks |-> IF f[b] = EmptyLeb /\ b \in back THEN undone[b] ELSE f[b]] :
        f \in TornWrites, back \in SUBSET {b \in Blocks : undone[b] # EmptyLeb}}

PowerCut ==
    /\ "cut" \in Faults
    /\ \E f \in CutLebs :
        /\ \A e \in Entries(f) : e.id < MaxId
        /\ Attach(f)
        /\ want' = [v \in Virt |-> [s \in Secs |-> AttachedValue(f, index', v, s)]]
        /\ durable' = [v \in Virt |-> [s \in Secs |-> {want'[v][s]}]]
    /\ UNCHANGED misread

\* The system is shut down with clean buffers and started again.
Restart ==
    /\ "restart" \in Faults
    /\ op.pc = "idle" /\ \A i \in Bufs : pool[i].dirty = {}
    /\ \A e \in Entries(leb) : e.id < MaxId
    /\ Attach(leb)
    /\ UNCHANGED hist

----------------------------------------------------------------------------
Call ==
    \/ \E v \in Virt, s \in Secs : (\E x \in Vals : WriteSector(v, s, x)) \/ ReadSector(v, s)
    \/ \E i \in Bufs : QueueFlush(i)
    \/ AllFlush

Step ==
    \/ Resume \/ SyncClean \/ SyncReadFails \/ SyncPage \/ NoSpace \/ WriteLog
    \/ UpdateIndex \/ Count
    \/ GcDone \/ GcPick \/ ScrubPage \/ ScrubDone \/ EraseBlock

Next == Call \/ Step \/ PowerCut \/ Restart

Spec == Init /\ [][Next]_vars

----------------------------------------------------------------------------
(* Properties.                                                             *)

\* A read returns the last value written to the sector, whether it is in a
\* buffer, on its page, being flushed or being recycled, as long as no page
\* was taken for read that was not.
ReadValue(v, s) ==
    LET i == index[v] IN
    IF Holding(v) # {}
    THEN LET b == pool[Min(Holding(v))] IN IF s \in b.dirty THEN b.data[s] ELSE Merged(b)[s]
    ELSE IF i = None THEN Junk ELSE PageData(i)[s]
ReadsLatest ==
    ~misread => \A v \in Virt, s \in Secs :
                    want[v][s] # Junk => ReadValue(v, s) = want[v][s]

\* Wherever the power is cut, attaching finds for every sector that was
\* flushed the flushed value or one written since, as long as no page was
\* taken for read that was not.
FlushedSurvives ==
    ~misread =>
        \A f \in CutLebs :
            LET ix == IndexOf(f) IN
            \A v \in Virt, s \in Secs :
                Junk \notin durable[v][s] => AttachedValue(f, ix, v, s) \in durable[v][s]

\* Page i holds virtual sector v.
Holds(i, v) ==
    LET p == leb[i.block].page[i.page] IN p \notin {Empty, Torn} /\ p.sector = v

\* Between operations the tables agree with each other and with the LEBs:
\* the page of a virtual sector holds it and is in use; no other page is in
\* use, unless the empty blocks have run out, which may leave a block half
\* copied; the used pages of a block are counted; and the fifo holds blocks
\* that are empty, each once.
TablesAgree ==
    op.pc = "idle" =>
        /\ \A v \in Virt : index[v] # None =>
            Holds(index[v], v) /\ state[index[v].block][index[v].page] = "using"
        /\ cur.block # None =>
            \A b \in Blocks, p \in Pages : state[b][p] = "using" =>
                \E v \in Virt : index[v] = [block |-> b, page |-> p]
        /\ \A b \in Blocks : using[b] = UsingOf(state, b)
        /\ \A i \in DOMAIN fifo : leb[fifo[i]] = EmptyLeb
        /\ \A i, j \in DOMAIN fifo : fifo[i] = fifo[j] => i = j

\* A log page lists the virtual sectors of the pages of its block, written
\* with its id: attaching from log pages finds what the page logs say.
LogTruthful ==
    \A b \in Blocks : leb[b].log \notin {Empty, Torn} =>
        \A p \in Pages : /\ leb[b].page[p] \notin {Empty, Torn}
                         /\ leb[b].log.sectors[p] = leb[b].page[p].sector
                         /\ leb[b].log.id = leb[b].page[p].id

\* "if the old page locate block has no using page will be recycle": the
\* block that is erased after a page was replaced holds no page that a
\* virtual sector is read from.
RecycledUnused ==
    op.pc = "erase" /\ op.after = "count" =>
        \A v \in Virt : index[v] # None /\ index[v].block = op.block => ~Holds(index[v], v)

\* The structures in memory describe the LEBs, as long as no page was taken
\* for read that was not (create_index(), update_sector_index()).
UftlInv == ~misread => UftlTypeOK /\ TablesAgree /\ LogTruthful /\ RecycledUnused

\* garbage_checking() ends: each block it recycles leaves more pages that can
\* be written than there were before, so that it does not copy pages from
\* block to block for ever under uftl_mutex; and as long as it needs blocks it
\* finds one to recycle, so that its BUG() is never reached.
RecyclingEnds ==
    /\ op.pc = "gc" => Room > op.room
    /\ op.pc # "bug"
=============================================================================
