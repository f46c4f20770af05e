------------------------------- MODULE UbiEba -------------------------------
(***************************************************************************)
(* The UBI eraseblock association sub-system (src/modules/ubi/eba.c) over  *)
(* a flash that loses power, and the scan that attaches the device again   *)
(* (src/modules/ubi/scan.c).                                               *)
(*                                                                         *)
(* An operation on a logical eraseblock (LEB) holds the lock of the LEB    *)
(* from its first to its last step, so op[l] is both the lock (kind "idle" *)
(* when it is free) and the program counter of the thread that holds it.   *)
(* Operations on different LEBs, wear-leveling moves, erasures and power   *)
(* cuts interleave.  PEBs come from and go back to the pool the WL sub-    *)
(* system promises (PebPool), which UbiWl implements.                      *)
(*                                                                         *)
(* The contents of an eraseblock is the sequence of the pages written to   *)
(* it.  A VID header records the LEB, the sequence number and, if          *)
(* copy_flag is set, the data its CRC was calculated for (`sum`).          *)
(***************************************************************************)
EXTENDS Integers, FiniteSets, Sequences, PebPool

CONSTANTS
    LEBs, None,
    Vals,          \* contents of a page
    Torn,          \* contents of a page whose write was interrupted
    MaxPages,      \* pages of an eraseblock
    MaxSq,         \* bound on the sequence numbers used
    IoRetries,     \* UBI_IO_RETRIES
    Faults         \* failures the environment may inject

FaultKinds ==
    {"power_cut", "first_write", "last_try", "append", "copy_target",
     "copy_readback", "ec_header", "get_error", "put_nomem", "fatal", "erase"}

ASSUME NoneNotPeb == None \notin PEBs
ASSUME NoneNotLeb == None \notin LEBs /\ Torn \notin LEBs
ASSUME NoneNotPage == None \notin Vals /\ None # Torn
ASSUME EbaBounds == MaxPages \in Nat \ {0} /\ MaxSq \in Nat \ {0} /\ IoRetries \in Nat
ASSUME EbaFaults == Faults \subseteq FaultKinds

VARIABLES
    flash,      \* [PEBs -> what is on the PEB]
    ebaTbl,     \* eba_tbl[]: [LEBs -> PEBs \cup {None}]
    op,         \* [LEBs -> operation holding the LEB lock]
    mv,         \* move_from and move_to, before the mover has the LEB lock
    sqnum,      \* global_sqnum
    roMode,
    want        \* what the completed calls say each LEB contains (history)

vars == <<st, flash, ebaTbl, op, mv, sqnum, roMode, want>>

Pages == UNION {[1 .. n -> Vals \cup {Torn}] : n \in 0 .. MaxPages}
NoVid == [lnum |-> None, sqnum |-> 0, sum |-> <<>>]
TornVid == [lnum |-> Torn, sqnum |-> 0, sum |-> <<>>]
Vid(l, sq, sum) == [lnum |-> l, sqnum |-> sq, sum |-> sum]
VidType == [lnum : LEBs, sqnum : 0 .. MaxSq, sum : Pages] \cup {NoVid, TornVid}

\* A PEB with and without its EC header and nothing else.
Blank == [ec |-> FALSE, vid |-> NoVid, data |-> <<>>]
Erased == [ec |-> TRUE, vid |-> NoVid, data |-> <<>>]

Kinds == {"idle", "unmap", "write", "append", "change", "recover", "move"}
Idle == [kind |-> "idle", at |-> "start", new |-> None, old |-> None,
         val |-> <<>>, sqnum |-> 0, tries |-> 0]
OpType == [kind : Kinds, at : {"start", "get", "vid", "data", "put", "map"},
           new : PEBs \cup {None}, old : PEBs \cup {None}, val : Pages,
           sqnum : 0 .. MaxSq, tries : 0 .. IoRetries]

\* The PEBs the wear-leveling worker has selected, with move_mutex held.
NoMove == [from |-> None, to |-> None]
MvType == [from : PEBs, to : PEBs] \cup {NoMove}

\* The contents of a LEB that is not mapped; reads return 0xFF bytes.
Unmapped == <<None>>

EbaTypeOK ==
    /\ PoolTypeOK
    /\ flash \in [PEBs -> [ec : BOOLEAN, vid : VidType, data : Pages]]
    /\ ebaTbl \in [LEBs -> PEBs \cup {None}]
    /\ op \in [LEBs -> OpType]
    /\ mv \in MvType
    /\ sqnum \in 0 .. MaxSq
    /\ roMode \in BOOLEAN
    /\ want \in [LEBs -> Pages \cup {Unmapped}]

Init ==
    /\ st = [p \in PEBs |-> "free"]
    /\ flash = [p \in PEBs |-> Erased]
    /\ ebaTbl = [l \in LEBs |-> None]
    /\ op = [l \in LEBs |-> Idle]
    /\ mv = NoMove
    /\ sqnum = 1
    /\ roMode = FALSE
    /\ want = [l \in LEBs |-> Unmapped]

----------------------------------------------------------------------------
(* The scan: process_eb(), compare_lebs() and ubi_scan_add_used().         *)

IsUsed(f, p) == st[p] # "bad" /\ f[p].ec /\ f[p].vid \notin {NoVid, TornVid}

\* The data CRC of a copy; it covers the first data_size bytes only.
CrcOk(f, p) ==
    LET s == f[p].vid.sum IN
    Len(s) <= Len(f[p].data) /\ SubSeq(f[p].data, 1, Len(s)) = s

\* Mutant of Beats: the CRC of the newer copy is not checked.
BeatsBySqnum(f, p, q) == f[p].vid.sqnum > f[q].vid.sqnum

\* compare_lebs(): the higher sequence number wins, unless it belongs to a
\* copy that is not complete.
Beats(f, p, q) ==
    IF f[p].vid.sqnum > f[q].vid.sqnum
    THEN f[p].vid.sum = <<>> \/ CrcOk(f, p)
    ELSE f[q].vid.sum # <<>> /\ ~CrcOk(f, q)

Found(f, l) == {p \in PEBs : IsUsed(f, p) /\ f[p].vid.lnum = l}

\* ubi_scan_add_used() keeps the winner of the comparisons.
ScanTbl(f) ==
    [l \in LEBs |->
        IF Found(f, l) = {} THEN None
        ELSE CHOOSE p \in Found(f, l) : \A q \in Found(f, l) \ {p} : Beats(f, p, q)]

ScanContents(f, l) ==
    LET p == ScanTbl(f)[l] IN IF p = None THEN Unmapped ELSE f[p].data

\* The lists process_eb() sorts the PEBs into: used, free, or erase.
ScanStatus(f) ==
    [p \in PEBs |->
        IF st[p] = "bad" THEN "bad"
        ELSE IF \E l \in LEBs : ScanTbl(f)[l] = p THEN "held"
        ELSE IF f[p].ec /\ f[p].vid = NoVid THEN "free" ELSE "dirty"]

ScanSqnum(f) ==
    LET sqs == {0} \cup {f[p].vid.sqnum : p \in {q \in PEBs : IsUsed(f, q)}}
    IN  1 + CHOOSE m \in sqs : \A n \in sqs : n <= m

----------------------------------------------------------------------------
(* Helpers.                                                                *)

Contents(l) == IF ebaTbl[l] = None THEN Unmapped ELSE flash[ebaTbl[l]].data

\* A thread in the middle of a write when the power is cut leaves a prefix
\* of what it was writing, and possibly an interrupted page.
Prefixes(s) == {SubSeq(s, 1, n) : n \in 0 .. Len(s)}
Interrupted(s) ==
    Prefixes(s) \cup {Append(t, Torn) : t \in Prefixes(s) \ {s}}

\* What an interrupted write of operation o may leave on its PEB.
Leftovers(l) ==
    LET o == op[l] IN
    IF o.kind = "append" /\ o.at = "data"
      THEN {[flash[o.old] EXCEPT !.data = @ \o t] : t \in Interrupted(o.val)}
    ELSE IF o.at = "data" /\ o.new # None
      THEN {[flash[o.new] EXCEPT !.data = t] : t \in Interrupted(o.val)}
    ELSE IF o.at = "vid" /\ o.new # None
      THEN {flash[o.new], [flash[o.new] EXCEPT !.vid = TornVid]}
    ELSE {}

Target(l) == IF op[l].kind = "append" THEN op[l].old ELSE op[l].new

\* Every flash a power cut in this state may leave behind.
PowerCutFlash ==
    LET busy == {l \in LEBs : Leftovers(l) # {}}
        choices == {c \in [busy -> UNION {Leftovers(l) : l \in busy}] :
                        \A l \in busy : c[l] \in Leftovers(l)}
    IN  {[p \in PEBs |-> IF \E l \in busy : Target(l) = p
                         THEN c[CHOOSE l \in busy : Target(l) = p]
                         ELSE flash[p]] : c \in choices}

\* The call returns: successfully, having given the LEB the contents v, or
\* with an error.
ReturnOk(l, v) ==
    /\ op' = [op EXCEPT ![l] = Idle]
    /\ want' = [want EXCEPT ![l] = v]

ReturnErr(l) ==
    /\ op' = [op EXCEPT ![l] = Idle]
    /\ want' = [want EXCEPT ![l] = Contents(l)]

At(l, where) == op' = [op EXCEPT ![l].at = where]

\* A PEB waiting for erasure, not the target of a move.
Waiting(p) == st[p] = "dirty" /\ p # mv.to /\ \A l \in LEBs : op[l].new # p

\* ubi_wl_put_peb() waits for move_mutex while the PEB is move_from.
CanPut(p) == p # mv.from
PutPeb(p) == CanPut(p) /\ Put(p)

----------------------------------------------------------------------------
(* The calls.  kapi.c lets them through only if the device is not          *)
(* read-only, and dynamic volumes are written page after page.             *)
\* Mutant of Unmap: eba_tbl keeps the old PEB.
UnmapKeeps(l) ==
    /\ op[l] = Idle /\ ~roMode /\ ebaTbl[l] # None
    /\ op' = [op EXCEPT ![l] = [Idle EXCEPT !.kind = "unmap", !.at = "put", !.old = ebaTbl[l]]]
    /\ UNCHANGED <<st, flash, ebaTbl, sqnum, roMode, want, mv>>

\* ubi_eba_unmap_leb()
Unmap(l) ==
    /\ op[l] = Idle /\ ~roMode /\ ebaTbl[l] # None
    /\ ebaTbl' = [ebaTbl EXCEPT ![l] = None]
    /\ op' = [op EXCEPT ![l] = [Idle EXCEPT !.kind = "unmap", !.at = "put", !.old = ebaTbl[l]]]
    /\ UNCHANGED <<st, flash, sqnum, roMode, want, mv>>

\* ubi_eba_write_leb() on a LEB that is not mapped; v is empty when it is
\* called by ubi_leb_map().
Write(l, v) ==
    /\ op[l] = Idle /\ ~roMode /\ ebaTbl[l] = None /\ sqnum < MaxSq
    /\ op' = [op EXCEPT ![l] = [Idle EXCEPT !.kind = "write", !.at = "get",
                                            !.val = v, !.sqnum = sqnum]]
    /\ sqnum' = sqnum + 1
    /\ UNCHANGED <<st, flash, ebaTbl, roMode, want, mv>>

\* ubi_eba_write_leb() on a mapped LEB.
AppendPage(l, v) ==
    /\ op[l] = Idle /\ ~roMode /\ ebaTbl[l] # None
    /\ LET d == flash[ebaTbl[l]].data IN
        Len(d) < MaxPages /\ \A i \in DOMAIN d : d[i] # Torn
    /\ op' = [op EXCEPT ![l] = [Idle EXCEPT !.kind = "append", !.at = "data",
                                            !.old = ebaTbl[l], !.val = <<v>>]]
    /\ UNCHANGED <<st, flash, ebaTbl, sqnum, roMode, want, mv>>

\* ubi_eba_atomic_leb_change(), one at a time (alc_mutex); a change to no
\* data at all is ubi_eba_unmap_leb() and then ubi_eba_write_leb().
Change(l, v) ==
    /\ op[l] = Idle /\ ~roMode /\ sqnum < MaxSq
    /\ \A m \in LEBs : op[m].kind # "change"
    /\ op' = [op EXCEPT ![l] = [Idle EXCEPT !.kind = "change", !.at = "get",
                                            !.old = ebaTbl[l], !.val = <<v>>, !.sqnum = sqnum]]
    /\ sqnum' = sqnum + 1
    /\ UNCHANGED <<st, flash, ebaTbl, roMode, want, mv>>

\* wear_leveling_worker(): any PEB in use may be the one to move, and which
\* LEB it belongs to is only known from its VID header.
SelectMove(p, q) ==
    /\ mv = NoMove /\ ~roMode /\ \A m \in LEBs : op[m].kind # "move"
    /\ st[p] = "held" /\ Reserve(q)
    /\ mv' = [from |-> p, to |-> q]
    /\ UNCHANGED <<flash, ebaTbl, op, sqnum, roMode, want>>

\* No VID header yet, an error reading the PEB, or MOVE_CANCEL_RACE: the
\* volume is being removed, the LEB is locked or mapped to another PEB.  The
\* target waits for erasure.
CancelMove ==
    /\ mv # NoMove
    /\ mv' = NoMove
    /\ UNCHANGED <<st, flash, ebaTbl, op, sqnum, roMode, want>>

\* Mutant of StartMove: eba_tbl is not looked at again under the lock.
StartMoveUnchecked(l) ==
    /\ mv # NoMove /\ flash[mv.from].vid.lnum = l
    /\ op[l] = Idle /\ ~roMode
    /\ op' = [op EXCEPT ![l] = [Idle EXCEPT !.kind = "move", !.at = "vid", !.new = mv.to,
                                            !.old = mv.from, !.val = flash[mv.from].data]]
    /\ mv' = NoMove
    /\ UNCHANGED <<st, flash, ebaTbl, sqnum, roMode, want>>

\* ubi_eba_copy_leb(): the worker got the lock of the LEB the VID header
\* names with leb_write_trylock(), and the LEB is still mapped to the PEB.
StartMove(l) ==
    /\ mv # NoMove /\ flash[mv.from].vid.lnum = l
    /\ op[l] = Idle /\ ~roMode
    /\ ebaTbl[l] = mv.from
    /\ op' = [op EXCEPT ![l] = [Idle EXCEPT !.kind = "move", !.at = "vid", !.new = mv.to,
                                            !.old = mv.from, !.val = flash[mv.from].data]]
    /\ mv' = NoMove
    /\ UNCHANGED <<st, flash, ebaTbl, sqnum, roMode, want>>

----------------------------------------------------------------------------
(* Their steps.                                                            *)

\* ubi_wl_get_peb(), with the erasure it makes before it returns the PEB and
\* whose failure it ignores.
GetPeb(l) ==
    /\ op[l].at = "get"
    /\ \E p \in PEBs, ec \in {TRUE, "ec_header" \notin Faults} :
        /\ Get(p)
        /\ flash' = [flash EXCEPT ![p] = [Erased EXCEPT !.ec = ec]]
        /\ op' = [op EXCEPT ![l].at = "vid", ![l].new = p]
    /\ UNCHANGED <<ebaTbl, sqnum, roMode, want, mv>>

\* -ENOSPC: nothing is free and nothing waits for erasure; or get_error, a
\* work the caller has executed failed, or the PEBs are just being erased.
GetFails(l) ==
    /\ op[l].at = "get"
    /\ \A p \in PEBs : st[p] # "free" /\ (Waiting(p) => "get_error" \in Faults)
    /\ roMode' = (roMode \/ op[l].kind = "recover")
    /\ ReturnErr(l)
    /\ UNCHANGED <<st, flash, ebaTbl, sqnum, mv>>

\* Mutants of WriteVid: a copy gets the sequence number of its source; an
\* atomic change does not set copy_flag.
WriteVidOldSqnum(l) ==
    LET o == op[l]
        copy == o.kind \in {"recover", "move"}
        sq == IF copy THEN flash[o.old].vid.sqnum ELSE o.sqnum
        sum == IF o.kind = "recover" THEN flash[o.old].vid.sum
               ELSE IF o.kind = "write" THEN <<>> ELSE o.val
    IN
    /\ o.at = "vid" /\ ~roMode
    /\ flash' = [flash EXCEPT ![o.new].vid = Vid(l, sq, sum)]
    /\ op' = [op EXCEPT ![l].at = "data", ![l].sqnum = sq]
    /\ UNCHANGED <<st, ebaTbl, sqnum, roMode, want, mv>>

WriteVidNoFlag(l) ==
    LET o == op[l]
        fresh == o.kind \in {"recover", "move"}
        sq == IF fresh THEN sqnum ELSE o.sqnum
    IN
    /\ o.at = "vid" /\ ~roMode
    /\ fresh => sqnum < MaxSq
    /\ sqnum' = IF fresh THEN sqnum + 1 ELSE sqnum
    /\ flash' = [flash EXCEPT ![o.new].vid = Vid(l, sq, IF o.kind = "move" THEN o.val ELSE <<>>)]
    /\ op' = [op EXCEPT ![l].at = "data", ![l].sqnum = sq]
    /\ UNCHANGED <<st, ebaTbl, roMode, want, mv>>

\* ubi_io_write_vid_hdr().  recover_peb() and ubi_eba_copy_leb() take a new
\* sequence number here; the former keeps copy_flag, data_size and data_crc
\* of the old header, the latter sets them if there is data.
WriteVid(l) ==
    LET o == op[l]
        fresh == o.kind \in {"recover", "move"}
        sq == IF fresh THEN sqnum ELSE o.sqnum
        sum == CASE o.kind = "write" -> <<>>
                 [] o.kind \in {"change", "move"} -> o.val
                 [] o.kind = "recover" -> flash[o.old].vid.sum
                 [] OTHER -> <<>>
    IN
    /\ o.at = "vid" /\ ~roMode
    /\ fresh => sqnum < MaxSq
    /\ sqnum' = IF fresh THEN sqnum + 1 ELSE sqnum
    /\ flash' = [flash EXCEPT ![o.new].vid = Vid(l, sq, sum)]
    /\ op' = [op EXCEPT ![l].at = "data", ![l].sqnum = sq]
    /\ UNCHANGED <<st, ebaTbl, roMode, want, mv>>

\* ubi_io_write_data() to the new PEB.
WriteData(l) ==
    LET o == op[l] IN
    /\ o.at = "data" /\ o.kind # "append" /\ ~roMode
    /\ flash' = [flash EXCEPT ![o.new].data = o.val]
    /\ At(l, IF o.kind = "change" /\ o.old # None THEN "put" ELSE "map")
    /\ UNCHANGED <<st, ebaTbl, sqnum, roMode, want, mv>>

\* ubi_io_write_data() to the PEB of a mapped LEB.
WriteInPlace(l) ==
    LET o == op[l] IN
    /\ o.at = "data" /\ o.kind = "append" /\ ~roMode
    /\ flash' = [flash EXCEPT ![o.old].data = @ \o o.val]
    /\ ReturnOk(l, want[l] \o o.val)
    /\ UNCHANGED <<st, ebaTbl, sqnum, roMode, mv>>

\* Mutant of MapNew: ubi_eba_copy_leb() does not update eba_tbl.
MapNewNotMoved(l) ==
    LET o == op[l] IN
    /\ o.at = "map"
    /\ ebaTbl' = IF o.kind = "move" THEN ebaTbl ELSE [ebaTbl EXCEPT ![l] = o.new]
    /\ CASE o.kind = "move" -> Move(o.old, o.new) /\ ReturnOk(l, want[l])
         [] o.kind = "recover" -> At(l, "put") /\ UNCHANGED <<st, want>>
         [] OTHER -> ReturnOk(l, o.val) /\ UNCHANGED st
    /\ UNCHANGED <<flash, sqnum, roMode, mv>>

\* eba_tbl[lnum] = pnum.
MapNew(l) ==
    LET o == op[l] IN
    /\ o.at = "map"
    /\ ebaTbl' = [ebaTbl EXCEPT ![l] = o.new]
    /\ CASE o.kind = "move" -> Move(o.old, o.new) /\ ReturnOk(l, want[l])
         [] o.kind = "recover" -> At(l, "put") /\ UNCHANGED <<st, want>>
         [] OTHER -> ReturnOk(l, o.val) /\ UNCHANGED st
    /\ UNCHANGED <<flash, sqnum, roMode, mv>>

\* ubi_wl_put_peb() of the PEB the LEB was mapped to; an atomic change does
\* it before it sets eba_tbl, the recovery after, ignoring the result.
PutOld(l) ==
    LET o == op[l] IN
    /\ o.at = "put"
    /\ PutPeb(o.old)
    /\ CASE o.kind = "unmap" -> ReturnOk(l, Unmapped)
         [] o.kind = "change" -> At(l, "map") /\ UNCHANGED want
         [] o.kind = "recover" -> ReturnOk(l, o.val)
    /\ UNCHANGED <<flash, ebaTbl, sqnum, roMode, mv>>

\* -ENOMEM: the PEB is not queued for erasure.
PutFails(l) ==
    LET o == op[l] IN
    /\ o.at = "put" /\ "put_nomem" \in Faults /\ CanPut(o.old)
    /\ IF o.kind = "recover" THEN ReturnOk(l, o.val) ELSE ReturnErr(l)
    /\ UNCHANGED <<st, flash, ebaTbl, sqnum, roMode, mv>>

----------------------------------------------------------------------------
(* Failing writes.                                                         *)

Writing(l) == op[l].at \in {"vid", "data"} /\ ~roMode

\* -EIO on a new PEB: put it and try another one with a new sequence number.
RetryWrite(l) ==
    LET o == op[l] IN
    /\ Writing(l) /\ o.kind \in {"write", "change", "recover"} /\ "first_write" \in Faults
    /\ o.tries < IoRetries /\ sqnum < MaxSq
    /\ \E x \in Leftovers(l) : flash' = [flash EXCEPT ![o.new] = x]
    /\ PutPeb(o.new)
    /\ op' = [op EXCEPT ![l].at = "get", ![l].new = None, ![l].tries = @ + 1,
                        ![l].sqnum = IF o.kind = "recover" THEN @ ELSE sqnum]
    /\ sqnum' = IF o.kind = "recover" THEN sqnum ELSE sqnum + 1
    /\ UNCHANGED <<ebaTbl, roMode, want, mv>>

\* Too many retries: the device becomes read-only.  The writing calls return
\* the result of the last ubi_wl_put_peb(), which is 0 unless that fails too,
\* in which case they give up at once; the recovery ignores it.
GiveUp(l) ==
    LET o == op[l] IN
    /\ Writing(l) /\ o.kind \in {"write", "change", "recover"} /\ "first_write" \in Faults
    /\ \E x \in Leftovers(l) : flash' = [flash EXCEPT ![o.new] = x]
    /\ \/ /\ "last_try" \in Faults /\ o.tries = IoRetries
          /\ PutPeb(o.new)
          /\ IF o.kind = "recover" THEN ReturnErr(l) ELSE ReturnOk(l, o.val)
       \/ /\ "put_nomem" \in Faults /\ o.kind # "recover" /\ CanPut(o.new)
          /\ ReturnErr(l)
          /\ UNCHANGED st
    /\ roMode' = TRUE
    /\ UNCHANGED <<ebaTbl, sqnum, mv>>

\* Any other error: the device becomes read-only and the PEB is kept; the
\* recovery, which got the error reading the old PEB, puts the new one.
WriteFatal(l) ==
    LET o == op[l] IN
    /\ Writing(l) /\ "fatal" \in Faults
    /\ IF o.kind = "recover"
       THEN PutPeb(o.new) /\ UNCHANGED flash
       ELSE /\ \E x \in Leftovers(l) : flash' = [flash EXCEPT ![Target(l)] = x]
            /\ UNCHANGED st
    /\ roMode' = TRUE
    /\ op' = [op EXCEPT ![l] = Idle]
    /\ want' = [want EXCEPT ![l] = IF ebaTbl[l] = None THEN Unmapped ELSE flash'[ebaTbl[l]].data]
    /\ UNCHANGED <<ebaTbl, sqnum, mv>>

\* -EIO on the PEB of a mapped LEB: recover_peb().
AppendFails(l) ==
    LET o == op[l] IN
    /\ Writing(l) /\ o.kind = "append" /\ "append" \in Faults
    /\ \E x \in Leftovers(l) : flash' = [flash EXCEPT ![o.old] = x]
    /\ op' = [op EXCEPT ![l].kind = "recover", ![l].at = "get",
                        ![l].val = flash[o.old].data \o @]
    /\ UNCHANGED <<st, ebaTbl, sqnum, roMode, want, mv>>

\* MOVE_TARGET_WR_ERR and the like: the LEB stays where it is.  The copy is
\* incomplete, or complete when it only fails to be read back correctly.
MoveFails(l) ==
    LET o == op[l] IN
    /\ Writing(l) /\ o.kind = "move"
    /\ \E x \in Leftovers(l) :
        /\ (IF o.at = "data" /\ x.data = o.val THEN "copy_readback" ELSE "copy_target") \in Faults
        /\ flash' = [flash EXCEPT ![o.new] = x]
    /\ ReturnOk(l, want[l])
    /\ UNCHANGED <<st, ebaTbl, sqnum, roMode, mv>>

\* -EROFS for a write that is under way when the device becomes read-only.
WriteReadOnly(l) ==
    /\ op[l].at \in {"vid", "data"} /\ roMode
    /\ IF op[l].kind = "recover" THEN PutPeb(op[l].new) ELSE UNCHANGED st
    /\ ReturnErr(l)
    /\ UNCHANGED <<flash, ebaTbl, sqnum, roMode, mv>>

----------------------------------------------------------------------------
(* Erasures by the WL sub-system, and power cuts.                          *)

\* sync_erase(): the erasure, then the new EC header.
WipePeb(p) ==
    /\ Waiting(p) /\ flash[p] # Blank /\ ~roMode
    /\ flash' = [flash EXCEPT ![p] = Blank]
    /\ UNCHANGED <<st, ebaTbl, op, sqnum, roMode, want, mv>>

CleanPeb(p) ==
    /\ Waiting(p) /\ flash[p] = Blank /\ ~roMode
    /\ Clean(p)
    /\ flash' = [flash EXCEPT ![p] = Erased]
    /\ UNCHANGED <<ebaTbl, op, sqnum, roMode, want, mv>>

RetirePeb(p) ==
    /\ Waiting(p) /\ "erase" \in Faults /\ ~roMode
    /\ Retire(p)
    /\ UNCHANGED <<flash, ebaTbl, op, sqnum, roMode, want, mv>>

\* The power is cut and the device is attached again (ubi_scan(),
\* ubi_wl_init_scan() and ubi_eba_init_scan()).
PowerCut ==
    /\ "power_cut" \in Faults
    /\ \E f \in PowerCutFlash :
        /\ ScanSqnum(f) <= MaxSq
        /\ flash' = f
        /\ ebaTbl' = ScanTbl(f)
        /\ st' = ScanStatus(f)
        /\ sqnum' = ScanSqnum(f)
        /\ want' = [l \in LEBs |-> ScanContents(f, l)]
    /\ op' = [l \in LEBs |-> Idle]
    /\ mv' = NoMove
    /\ roMode' = FALSE

----------------------------------------------------------------------------
LebStep(l) ==
    \/ Unmap(l)
    \/ \E v \in {<<>>} \cup {<<x>> : x \in Vals} : Write(l, v)
    \/ \E v \in Vals : AppendPage(l, v) \/ Change(l, v)
    \/ StartMove(l)
    \/ GetPeb(l) \/ GetFails(l) \/ WriteVid(l) \/ WriteData(l) \/ WriteInPlace(l)
    \/ MapNew(l) \/ PutOld(l) \/ PutFails(l)
    \/ RetryWrite(l) \/ GiveUp(l) \/ AppendFails(l) \/ MoveFails(l)
    \/ WriteFatal(l) \/ WriteReadOnly(l)

Next ==
    \/ \E l \in LEBs : LebStep(l)
    \/ \E p, q \in PEBs : SelectMove(p, q)
    \/ CancelMove
    \/ \E p \in PEBs : WipePeb(p) \/ CleanPeb(p) \/ RetirePeb(p)
    \/ PowerCut

Spec == Init /\ [][Next]_vars

----------------------------------------------------------------------------
(* Properties.                                                             *)

\* A read returns what the completed calls wrote: whatever was moved, erased
\* or retried meanwhile, eba_tbl leads to the wanted contents.  The exception
\* is the call that reports the success of its last ubi_wl_put_peb() although
\* its write failed, after which the device is read-only.
ReadsCurrent ==
    \/ roMode /\ "last_try" \in Faults
    \/ \A l \in LEBs : op[l].kind \in {"idle", "append"} => Contents(l) = want[l]

\* No two LEBs share a PEB, and a PEB a LEB is mapped to is never handed out
\* or erased; only an atomic change that has put the old PEB and is about to
\* re-map its LEB, which nobody can read meanwhile, leaves a stale entry.
Stale(l) == op[l].kind = "change" /\ op[l].at = "map"
TablesExclusive ==
    /\ \A l, m \in LEBs :
        ebaTbl[l] = ebaTbl[m] /\ ebaTbl[l] # None /\ ~Stale(l) /\ ~Stale(m) => l = m
    /\ \A l \in LEBs : ebaTbl[l] # None /\ ~Stale(l) => st[ebaTbl[l]] = "held"

\* Wherever the power is cut, the scan brings back what completed calls
\* wrote: a LEB that is mapped has its contents, one that is being moved too,
\* one that is being appended to keeps at least what it had.
Survives(f, l) ==
    want[l] # Unmapped =>
        LET found == ScanContents(f, l) IN
        CASE op[l].kind \in {"idle", "move"} -> found = want[l]
          [] op[l].kind \in {"append", "recover"} ->
                Len(want[l]) <= Len(found) /\ SubSeq(found, 1, Len(want[l])) = want[l]
          [] OTHER -> TRUE
Durable == \A f \in PowerCutFlash, l \in LEBs : Survives(f, l)

\* ubi_leb_change() on a mapped LEB is atomic: after a power cut the LEB has
\* the old contents or the new one.
ChangeAtomic ==
    \A f \in PowerCutFlash, l \in LEBs :
        op[l].kind = "change" /\ want[l] # Unmapped =>
            ScanContents(f, l) \in {want[l], op[l].val}

\* Every VID header has its own sequence number, so that the scan can always
\* tell the newer of two PEBs of a LEB; global_sqnum is above them all.
SqnumsUnique ==
    /\ \A p, q \in PEBs : IsUsed(flash, p) /\ IsUsed(flash, q) /\ p # q =>
            flash[p].vid.sqnum # flash[q].vid.sqnum
    /\ \A p \in PEBs : IsUsed(flash, p) => flash[p].vid.sqnum < sqnum

\* The scan finds one PEB for each LEB that has any, in whatever order the
\* PEBs are compared.
ScanDecides ==
    \A f \in PowerCutFlash, l \in LEBs : Found(f, l) # {} =>
        \E p \in Found(f, l) : \A q \in Found(f, l) \ {p} : Beats(f, p, q) /\ ~Beats(f, q, p)

\* The tables, the headers and what the scan makes of them are in order.
EbaInv == EbaTypeOK /\ TablesExclusive /\ SqnumsUnique /\ ScanDecides
=============================================================================
