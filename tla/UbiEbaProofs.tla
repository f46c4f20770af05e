---------------------------- MODULE UbiEbaProofs ----------------------------
(***************************************************************************)
(* Proofs about UbiEba: whatever interleaves and fails, the tables are     *)
(* exclusive, the headers are ordered and reads are current; and under the *)
(* faults that lose nothing, a power cut loses no completed write and      *)
(* leaves an atomic change done or not begun.                              *)
(*                                                                         *)
(* EbaAll is the inductive invariant.  Its six parts say which PEBs each   *)
(* operation keeps (OwnInv), what is on them (FlashInv), how the sequence  *)
(* numbers are ordered (SqInv), what is read (CurInv) and what the scan    *)
(* would make of it (KeepInv).  A step on a LEB is described once, by the  *)
(* operation o and the table entry p it leaves and by how it changes the   *)
(* PEBs (Done); DoneKeeps shows that such a step keeps all six parts, and  *)
(* the lemmas after it show that each action of UbiEba is such a step.     *)
(* MoveInv adds what the mover may rely on before it has the LEB lock.     *)
(***************************************************************************)
EXTENDS UbiEba, WellFoundedInduction, TLAPS

(***************************************************************************)
(* The invariants.                                                         *)
(***************************************************************************)
\* Operation o has got a new PEB.
HasNew(o) == o.kind \in {"write", "change", "recover", "move"} /\ o.at # "get"

\* Where each kind of operation can be.
OpShape(o) ==
    /\ o.kind = "idle" => o = Idle
    /\ o.kind = "unmap" => o.at = "put"
    /\ o.kind = "write" => o.at \in {"get", "vid", "data", "map"}
    /\ o.kind = "append" => o.at = "data"
    /\ o.kind = "change" => o.at \in {"get", "vid", "data", "put", "map"}
    /\ o.kind = "recover" => o.at \in {"get", "vid", "data", "map", "put"}
    /\ o.kind = "move" => o.at \in {"vid", "data", "map"}
    /\ IF HasNew(o) THEN o.new \in PEBs ELSE o.new = None

\* The PEBs of operation o on a LEB that is mapped to p.
OpPebs(o, p) ==
    /\ o.kind \in {"unmap", "write"} => p = None
    /\ o.kind = "write" => o.old = None
    /\ o.kind \in {"append", "change", "move"} => p = o.old
    /\ o.kind = "recover" => p = IF o.at = "put" THEN o.new ELSE o.old
    /\ o.kind \in {"unmap", "append", "recover", "move"} \/ o.at = "put" => o.old # None
    /\ o.new # None => o.new # o.old

\* The PEBs LEB l keeps from being erased.
Holds(l) ==
    {p \in PEBs : \/ p = ebaTbl[l] /\ ~Stale(l)
                  \/ p = op[l].new /\ op[l].kind # "move"
                  \/ p = op[l].old /\ op[l].at = "put"}

OwnInv ==
    /\ \A l \in LEBs : OpShape(op[l]) /\ OpPebs(op[l], ebaTbl[l])
    /\ \A l \in LEBs : \A p \in Holds(l) : st[p] = "held"
    /\ \A l, m \in LEBs : l # m => Holds(l) \cap Holds(m) = {}
    /\ \A l \in LEBs : op[l].kind = "move" => st[op[l].new] = "dirty"
    /\ \A l, m \in LEBs : op[l].kind = "move" /\ op[m].kind = "move" => l = m

\* All types but that of want.
TypeInv ==
    /\ PoolTypeOK
    /\ flash \in [PEBs -> [ec : BOOLEAN, vid : VidType, data : Pages]]
    /\ ebaTbl \in [LEBs -> PEBs \cup {None}]
    /\ op \in [LEBs -> OpType]
    /\ sqnum \in 0 .. MaxSq
    /\ roMode \in BOOLEAN

Headed(p) == flash[p].vid \notin {NoVid, TornVid}

\* What operation l has written to its new PEB.
NewInv(l) ==
    LET o == op[l] x == flash[o.new] IN
    HasNew(o) =>
        /\ o.at = "vid" => x.vid = NoVid
        /\ o.at # "vid" => Headed(o.new) /\ x.vid.lnum = l /\ x.vid.sqnum = o.sqnum
        /\ o.at \in {"map", "put"} => x.data = o.val
        /\ o.at \in {"vid", "data"} => x.data = <<>>

FlashInv ==
    /\ \A p \in PEBs : st[p] = "free" => flash[p] = Erased
    /\ \A p \in PEBs : ~Headed(p) => flash[p].data = <<>>
    /\ \A l \in LEBs : NewInv(l)
    /\ \A l \in LEBs : ebaTbl[l] # None /\ ~Stale(l) =>
            Headed(ebaTbl[l]) /\ flash[ebaTbl[l]].vid.lnum = l
    /\ \A l \in LEBs : op[l].kind = "append" =>
            Len(flash[op[l].old].data) + Len(op[l].val) <= MaxPages

\* Nobody but the mover uses the target of a move that has been selected, and
\* there is one move at a time.
MoveInv ==
    mv # NoMove =>
        /\ mv \in [from : PEBs, to : PEBs]
        /\ st[mv.to] = "dirty" /\ flash[mv.to] = Erased
        /\ \A l \in LEBs : op[l].kind # "move"

\* Operation o has a sequence number it has not written yet.
HasSqnum(o) == o.kind \in {"write", "change"} /\ o.at \in {"get", "vid"}

SqInv ==
    /\ SqnumsUnique
    /\ \A l \in LEBs : HasSqnum(op[l]) =>
            /\ op[l].sqnum < sqnum
            /\ \A p \in PEBs : IsUsed(flash, p) => flash[p].vid.sqnum # op[l].sqnum
            /\ \A p \in Found(flash, l) : flash[p].vid.sqnum < op[l].sqnum
    /\ \A l, m \in LEBs : HasSqnum(op[l]) /\ HasSqnum(op[m]) /\ l # m => op[l].sqnum # op[m].sqnum
    /\ \A l \in LEBs : HasNew(op[l]) /\ op[l].at # "vid" =>
            \A p \in Found(flash, l) \ {op[l].new} : flash[p].vid.sqnum < op[l].sqnum

CurInv ==
    /\ want \in [LEBs -> Pages \cup {Unmapped}]
    /\ (roMode /\ "last_try" \in Faults) \/
       \A l \in LEBs : op[l].kind \notin {"unmap", "recover"} /\ ~Stale(l) => Contents(l) = want[l]
    /\ \A l \in LEBs : op[l].kind = "move" => op[l].val = Contents(l)

SafeFaults == Faults \subseteq {"power_cut", "first_write", "copy_target", "erase"}

Good(f, p) == f[p].vid.sum = <<>> \/ CrcOk(f, p)

\* An atomic change that was tried again may have left its data elsewhere.
Retried(l, q) == op[l].kind = "change" /\ st[q] = "dirty" /\ flash[q].data = op[l].val

KeepLeb(l) ==
    LET o == op[l] p == ebaTbl[l] IN
    /\ p # None /\ ~Stale(l) =>
          \A q \in Found(flash, l) \ {p, o.new} :
              IF flash[q].vid.sqnum < flash[p].vid.sqnum THEN Good(flash, p)
              ELSE Good(flash, q) => Retried(l, q)
    /\ HasNew(o) /\ o.at # "vid" =>
          flash[o.new].vid.sum = IF o.kind = "write" THEN <<>> ELSE o.val

KeepInv ==
    SafeFaults =>
    /\ ~roMode
    /\ \A l \in LEBs : op[l].kind # "recover"
    /\ \A p \in PEBs : st[p] = "held" => flash[p].ec
    /\ \A l \in LEBs : HasNew(op[l]) => flash[op[l].new].ec
    /\ \A l \in LEBs : KeepLeb(l)

(***************************************************************************)
(* Pages and headers.                                                      *)
(***************************************************************************)
Cells == Vals \cup {Torn}

\* The contents of a PEB is a sequence of at most MaxPages pages.
LEMMA PagesAre == \A s : s \in Pages <=> s \in Seq(Cells) /\ Len(s) <= MaxPages
<1>1. ASSUME NEW s, s \in Pages PROVE s \in Seq(Cells) /\ Len(s) <= MaxPages
  <2>1. PICK n \in 0 .. MaxPages : s \in [1 .. n -> Vals \cup {Torn}] BY <1>1 DEF Pages
  <2>2. n \in Nat /\ n <= MaxPages BY EbaBounds
  <2> QED BY <2>1, <2>2 DEF Cells
<1>2. ASSUME NEW s \in Seq(Cells), Len(s) <= MaxPages PROVE s \in Pages
  <2>1. Len(s) \in 0 .. MaxPages BY <1>2, EbaBounds
  <2>2. s \in [1 .. Len(s) -> Vals \cup {Torn}] BY DEF Cells
  <2> QED BY <2>1, <2>2 DEF Pages
<1> QED BY <1>1, <1>2

\* The empty contents and one page fit on a PEB.
LEMMA SmallPages ==
    /\ <<>> \in Pages
    /\ \A v \in Cells : <<v>> \in Pages /\ Len(<<v>>) = 1
<1>1. <<>> \in Seq(Cells) /\ Len(<<>>) = 0 OBVIOUS
<1>3. 0 <= MaxPages /\ 1 <= MaxPages BY EbaBounds
<1>4. <<>> \in Pages BY <1>1, <1>3, PagesAre
<1>5. ASSUME NEW v \in Cells PROVE <<v>> \in Pages /\ Len(<<v>>) = 1
  <2>1. <<v>> \in Seq(Cells) /\ Len(<<v>>) = 1 OBVIOUS
  <2>2. Len(<<v>>) <= MaxPages BY <1>3, <2>1
  <2> QED BY <2>1, <2>2, PagesAre
<1> QED BY <1>4, <1>5

\* No contents written by a call reads like a LEB that is not mapped.
LEMMA UnmappedNoPages == Unmapped \notin Pages
<1>1. Unmapped \in Seq(Cells) => Unmapped[1] \in Cells
  <2>1. Len(Unmapped) = 1 BY DEF Unmapped
  <2> QED BY <2>1
<1>2. Unmapped[1] = None BY DEF Unmapped
<1> QED BY <1>1, <1>2, PagesAre, NoneNotPage DEF Cells

\* A LEB whose lock is free.
LEMMA TypeOfIdle == Idle \in OpType /\ Idle.kind = "idle" /\ Idle.at = "start" /\ Idle.new = None /\ Idle.old = None
BY SmallPages, EbaBounds DEF Idle, OpType, Kinds

\* The header ubi_io_write_vid_hdr() writes is neither missing nor torn.
LEMMA VidFacts ==
    /\ \A l \in LEBs : \A sq, sum : /\ Vid(l, sq, sum) \notin {NoVid, TornVid}
                                     /\ Vid(l, sq, sum).lnum = l /\ Vid(l, sq, sum).sqnum = sq
                                     /\ Vid(l, sq, sum).sum = sum
    /\ \A l \in LEBs : \A sq \in 0 .. MaxSq, sum \in Pages : Vid(l, sq, sum) \in VidType
    /\ NoVid \in VidType /\ TornVid \in VidType
BY NoneNotLeb DEF Vid, NoVid, TornVid, VidType

FlashType == [ec : BOOLEAN, vid : VidType, data : Pages]

\* An erased PEB has no VID header and no data.
LEMMA FlashFacts ==
    /\ Erased \in FlashType /\ Blank \in FlashType
    /\ Erased.vid = NoVid /\ Blank.vid = NoVid /\ Erased.data = <<>> /\ Blank.data = <<>>
    /\ Erased.ec /\ ~Blank.ec
BY SmallPages, VidFacts DEF Erased, Blank, FlashType

(***************************************************************************)
(* Interrupted writes.                                                     *)
(***************************************************************************)
\* The first n pages of s.
LEMMA PrefixIs ==
    ASSUME NEW s \in Seq(Cells), NEW n \in 0 .. Len(s)
    PROVE  /\ SubSeq(s, 1, n) \in Seq(Cells) /\ Len(SubSeq(s, 1, n)) = n
           /\ \A i \in 1 .. n : SubSeq(s, 1, n)[i] = s[i]
OBVIOUS

\* An interrupted write of s leaves no more pages than s has, and if it
\* leaves as many without being s, one of them differs.
LEMMA InterruptedIs ==
    ASSUME NEW s \in Seq(Cells), NEW x \in Interrupted(s)
    PROVE  /\ x \in Seq(Cells) /\ Len(x) <= Len(s)
           /\ x # s /\ Len(x) = Len(s) => \E i \in 1 .. Len(s) : x[i] # s[i]
<1>1. CASE x \in Prefixes(s)
  <2>1. PICK n \in 0 .. Len(s) : x = SubSeq(s, 1, n) BY <1>1 DEF Prefixes
  <2>2. x \in Seq(Cells) /\ Len(x) = n /\ \A i \in 1 .. n : x[i] = s[i] BY <2>1, PrefixIs
  <2>3. n = Len(s) => x = s BY <2>2
  <2> QED BY <2>2, <2>3
<1>2. ASSUME NEW t \in Prefixes(s) \ {s}, x = Append(t, Torn)
      PROVE x \in Seq(Cells) /\ Len(x) <= Len(s)
  <2>1. PICK n \in 0 .. Len(s) : t = SubSeq(s, 1, n) BY DEF Prefixes
  <2>2. t \in Seq(Cells) /\ Len(t) = n /\ \A i \in 1 .. n : t[i] = s[i] BY <2>1, PrefixIs
  <2>3. n # Len(s) BY <2>2
  <2>4. Torn \in Cells BY DEF Cells
  <2> QED BY <1>2, <2>2, <2>3, <2>4
<1>3. x \in Seq(Cells) /\ Len(x) <= Len(s) BY <1>1, <1>2 DEF Interrupted
<1>4. x # s /\ Len(x) = Len(s) => \E i \in 1 .. Len(s) : x[i] # s[i]
  BY <1>3
<1> QED BY <1>3, <1>4

(***************************************************************************)
(* Who holds which PEBs.                                                   *)
(***************************************************************************)
\* Only LEB l is concerned.
Only(l) ==
    \A m \in LEBs \ {l} : op'[m] = op[m] /\ ebaTbl'[m] = ebaTbl[m]

\* The lock of l goes to operation o and LEB l is mapped to p.
Sets(l, o, p) ==
    /\ op' = [op EXCEPT ![l] = o] /\ o \in OpType
    /\ ebaTbl' = [ebaTbl EXCEPT ![l] = p] /\ p \in PEBs \cup {None}

\* A step on LEB l leaves the operations and the table entries of the others.
LEMMA SetsOnly ==
    ASSUME TypeInv, NEW l \in LEBs, NEW o, NEW p, Sets(l, o, p)
    PROVE  /\ Only(l) /\ op'[l] = o /\ ebaTbl'[l] = p
           /\ op' \in [LEBs -> OpType] /\ ebaTbl' \in [LEBs -> PEBs \cup {None}]
BY DEF TypeInv, Sets, Only

\* The PEBs a LEB that is mapped to p, with operation o, keeps.
Kept(o, p) ==
    {q \in PEBs : \/ q = p /\ ~(o.kind = "change" /\ o.at = "map")
                  \/ q = o.new /\ o.kind # "move"
                  \/ q = o.old /\ o.at = "put"}

\* The PEBs LEB l keeps, as a function of its operation and table entry.
LEMMA HoldsKept == \A l \in LEBs : Holds(l) = Kept(op[l], ebaTbl[l])
BY DEF Holds, Kept, Stale

\* What a step on LEB l may do to the PEBs.
StatusStep(l, o, p) ==
    /\ st' \in [PEBs -> Status]
    /\ \A q \in Kept(o, p) : st'[q] = "held" /\ (q \in Holds(l) \/ st[q] # "held")
    /\ \A q \in PEBs : st[q] = "held" => st'[q] = "held" \/ q \in Holds(l)
    /\ \A q \in PEBs : st[q] = "dirty" => st'[q] = "dirty" \/ q = op[l].new
    /\ o.kind = "move" =>
          st'[o.new] = "dirty" /\ (op[l].kind = "move" \/ \A m \in LEBs : op[m].kind # "move")

\* A step on LEB l that keeps only PEBs it held or took from the pool keeps
\* the PEBs of the LEBs apart.
LEMMA OwnStep ==
    ASSUME TypeInv, OwnInv, NEW l \in LEBs, NEW o, NEW p, Sets(l, o, p),
           OpShape(o), OpPebs(o, p), StatusStep(l, o, p)
    PROVE  OwnInv'
<1>1. Only(l) /\ op'[l] = o /\ ebaTbl'[l] = p BY SetsOnly
<1>2. \A m \in LEBs \ {l} : op'[m] = op[m] /\ ebaTbl'[m] = ebaTbl[m] BY <1>1 DEF Only
<1>3. \A m \in LEBs : OpShape(op'[m]) /\ OpPebs(op'[m], ebaTbl'[m])
  BY <1>1, <1>2 DEF OwnInv
<1>4. \A m \in LEBs : OpShape(op[m])' /\ OpPebs(op[m], ebaTbl[m])'
  BY <1>3 DEF OpShape, OpPebs, HasNew
<1> DEFINE H(m) == Kept(op'[m], ebaTbl'[m])
<1>5. \A m \in LEBs : Holds(m)' = H(m) BY DEF Holds, Kept, Stale
<1>6. H(l) = Kept(o, p) /\ \A m \in LEBs \ {l} : H(m) = Holds(m)
  BY <1>1, <1>2, HoldsKept
<1> HIDE DEF H
<1>7. Holds(l) \subseteq PEBs /\ \A m \in LEBs : H(m) \subseteq PEBs BY <1>5 DEF Holds
<1>8. \A m \in LEBs : \A q \in H(m) : st'[q] = "held"
  <2>1. ASSUME NEW m \in LEBs \ {l}, NEW q \in H(m) PROVE st'[q] = "held"
    <3>1. q \in Holds(m) /\ st[q] = "held" /\ q \notin Holds(l) BY <1>6, <2>1 DEF OwnInv
    <3> QED BY <1>7, <3>1 DEF StatusStep
  <2> QED BY <1>6, <2>1 DEF StatusStep
<1>9. \A m \in LEBs \ {l} : H(l) \cap H(m) = {}
  <2>1. ASSUME NEW m \in LEBs \ {l}, NEW q \in H(l), q \in H(m) PROVE FALSE
    <3>1. q \in Holds(m) /\ st[q] = "held" /\ q \notin Holds(l) BY <1>6, <2>1 DEF OwnInv
    <3>2. q \in Kept(o, p) BY <1>6, <2>1
    <3> QED BY <3>1, <3>2 DEF StatusStep
  <2> QED BY <2>1
<1>10. \A m, n \in LEBs : m # n => H(m) \cap H(n) = {}
  BY <1>6, <1>9 DEF OwnInv
<1>11. \A m, n \in LEBs : op'[m].kind = "move" /\ op'[n].kind = "move" => m = n
  BY <1>1, <1>2 DEF OwnInv, StatusStep
<1>12. \A m \in LEBs : op'[m].kind = "move" => st'[op'[m].new] = "dirty"
  <2>1. ASSUME NEW m \in LEBs \ {l}, op[m].kind = "move" PROVE st'[op[m].new] = "dirty"
    <3>1. st[op[m].new] = "dirty" /\ OpShape(op[m]) /\ OpShape(op[l]) BY <2>1 DEF OwnInv
    <3>2. op[m].new \in PEBs BY <2>1, <3>1 DEF OpShape, HasNew
    <3>3. op[m].new # op[l].new
      <4>1. op[l].kind # "move" BY <2>1 DEF OwnInv
      <4>2. op[m].new = op[l].new => op[l].new \in Holds(l) BY <3>2, <4>1 DEF Holds
      <4> QED BY <3>1, <4>2 DEF OwnInv
    <3> QED BY <3>1, <3>2, <3>3 DEF StatusStep
  <2> QED BY <1>1, <1>2, <2>1 DEF StatusStep
<1> QED BY <1>4, <1>5, <1>8, <1>10, <1>11, <1>12 DEF OwnInv

(***************************************************************************)
(* What the operations become.                                             *)
(***************************************************************************)
Becomes(o, k, a, n, d, v, s) ==
    o.kind = k /\ o.at = a /\ o.new = n /\ o.old = d /\ o.val = v /\ o.sqnum = s

\* Operations made from Idle.
LEMMA IdleIs ==
    /\ Idle \in OpType
    /\ Becomes(Idle, "idle", "start", None, None, <<>>, 0)
    /\ Idle.tries = 0
<1>1. <<>> \in Pages /\ 0 \in 0 .. MaxSq /\ 0 \in 0 .. IoRetries BY SmallPages, EbaBounds
<1> QED BY <1>1 DEF Idle, OpType, Becomes, Kinds

\* ubi_eba_unmap_leb() begins.
LEMMA UnmapDoes ==
    ASSUME TypeInv, NEW l \in LEBs, Unmap(l)
    PROVE  \E o : /\ Sets(l, o, None) /\ Becomes(o, "unmap", "put", None, ebaTbl[l], <<>>, 0)
                  /\ op[l] = Idle /\ ~roMode /\ ebaTbl[l] # None
                  /\ UNCHANGED <<st, flash, sqnum, roMode, want>>
<1> DEFINE o == [Idle EXCEPT !.kind = "unmap", !.at = "put", !.old = ebaTbl[l]]
<1>1. o \in OpType /\ Becomes(o, "unmap", "put", None, ebaTbl[l], <<>>, 0)
  <2>1. ebaTbl[l] \in PEBs \cup {None} BY DEF TypeInv
  <2> QED BY <2>1, IdleIs DEF Becomes, OpType, Kinds
<1>2. op' = [op EXCEPT ![l] = o] /\ ebaTbl' = [ebaTbl EXCEPT ![l] = None] BY DEF Unmap
<1> HIDE DEF o
<1>3. Sets(l, o, None) BY <1>1, <1>2 DEF Sets
<1> QED BY <1>1, <1>3 DEF Unmap

\* An operation that leaves the table alone.
Moves(l, o) == op' = [op EXCEPT ![l] = o] /\ o \in OpType /\ UNCHANGED ebaTbl

\* A step that leaves eba_tbl alone.
LEMMA MovesSets ==
    ASSUME TypeInv, NEW l \in LEBs, NEW o, Moves(l, o) PROVE Sets(l, o, ebaTbl[l])
BY DEF TypeInv, Moves, Sets

\* ubi_eba_write_leb() on a LEB that is not mapped begins.
LEMMA WriteDoes ==
    ASSUME TypeInv, NEW l \in LEBs, NEW v \in Pages, Write(l, v)
    PROVE  \E o : /\ Moves(l, o) /\ Becomes(o, "write", "get", None, None, v, sqnum)
                  /\ op[l] = Idle /\ ~roMode /\ ebaTbl[l] = None /\ sqnum < MaxSq
                  /\ sqnum' = sqnum + 1
                  /\ UNCHANGED <<st, flash, roMode, want>>
<1> DEFINE o == [Idle EXCEPT !.kind = "write", !.at = "get", !.val = v, !.sqnum = sqnum]
<1>1. o \in OpType /\ Becomes(o, "write", "get", None, None, v, sqnum)
  <2>1. sqnum \in 0 .. MaxSq BY DEF TypeInv
  <2> QED BY <2>1, IdleIs DEF Becomes, OpType, Kinds
<1>2. op' = [op EXCEPT ![l] = o] BY DEF Write
<1> HIDE DEF o
<1> QED BY <1>1, <1>2 DEF Write, Moves

\* ubi_wl_get_peb() returns an erased PEB, its EC header perhaps missing.
LEMMA GetDoes ==
    ASSUME TypeInv, NEW l \in LEBs, GetPeb(l)
    PROVE  \E p \in PEBs, ec \in BOOLEAN, o \in OpType :
              /\ Moves(l, o)
              /\ Becomes(o, op[l].kind, "vid", p, op[l].old, op[l].val, op[l].sqnum)
              /\ op[l].at = "get" /\ Get(p) /\ (~ec => "ec_header" \in Faults)
              /\ flash' = [flash EXCEPT ![p] = [Erased EXCEPT !.ec = ec]]
              /\ UNCHANGED <<sqnum, roMode, want>>
<1>1. PICK p \in PEBs, ec \in {TRUE, "ec_header" \notin Faults} :
         /\ Get(p)
         /\ flash' = [flash EXCEPT ![p] = [Erased EXCEPT !.ec = ec]]
         /\ op' = [op EXCEPT ![l].at = "vid", ![l].new = p]
  BY DEF GetPeb
<1> DEFINE o == [op[l] EXCEPT !.at = "vid", !.new = p]
<1>2. op[l] \in OpType BY DEF TypeInv
<1>3. o \in OpType /\ Becomes(o, op[l].kind, "vid", p, op[l].old, op[l].val, op[l].sqnum)
  BY <1>2 DEF Becomes, OpType
<1>4. op' = [op EXCEPT ![l] = o] BY <1>1 DEF TypeInv
<1> HIDE DEF o
<1> QED BY <1>1, <1>3, <1>4 DEF GetPeb, Moves

\* ubi_eba_write_leb() on a mapped LEB begins.
LEMMA AppendDoes ==
    ASSUME TypeInv, NEW l \in LEBs, NEW v \in Vals, AppendPage(l, v)
    PROVE  \E o : /\ Moves(l, o) /\ Becomes(o, "append", "data", None, ebaTbl[l], <<v>>, 0)
                  /\ op[l] = Idle /\ ~roMode /\ ebaTbl[l] # None
                  /\ Len(flash[ebaTbl[l]].data) < MaxPages
                  /\ UNCHANGED <<st, flash, sqnum, roMode, want>>
<1> DEFINE o == [Idle EXCEPT !.kind = "append", !.at = "data", !.old = ebaTbl[l], !.val = <<v>>]
<1>1. o \in OpType /\ Becomes(o, "append", "data", None, ebaTbl[l], <<v>>, 0)
  <2>1. ebaTbl[l] \in PEBs \cup {None} /\ <<v>> \in Pages BY SmallPages DEF TypeInv, Cells
  <2> QED BY <2>1, IdleIs DEF Becomes, OpType, Kinds
<1>2. op' = [op EXCEPT ![l] = o] BY DEF AppendPage
<1> HIDE DEF o
<1> QED BY <1>1, <1>2 DEF AppendPage, Moves

\* ubi_eba_atomic_leb_change() begins.
LEMMA ChangeDoes ==
    ASSUME TypeInv, NEW l \in LEBs, NEW v \in Vals, Change(l, v)
    PROVE  \E o : /\ Moves(l, o) /\ Becomes(o, "change", "get", None, ebaTbl[l], <<v>>, sqnum)
                  /\ op[l] = Idle /\ ~roMode /\ sqnum < MaxSq
                  /\ sqnum' = sqnum + 1
                  /\ UNCHANGED <<st, flash, roMode, want>>
<1> DEFINE o == [Idle EXCEPT !.kind = "change", !.at = "get", !.old = ebaTbl[l], !.val = <<v>>,
                             !.sqnum = sqnum]
<1>1. o \in OpType /\ Becomes(o, "change", "get", None, ebaTbl[l], <<v>>, sqnum)
  <2>1. ebaTbl[l] \in PEBs \cup {None} /\ <<v>> \in Pages /\ sqnum \in 0 .. MaxSq
    BY SmallPages DEF TypeInv, Cells
  <2> QED BY <2>1, IdleIs DEF Becomes, OpType, Kinds
<1>2. op' = [op EXCEPT ![l] = o] BY DEF Change
<1> HIDE DEF o
<1> QED BY <1>1, <1>2 DEF Change, Moves

\* ubi_eba_copy_leb() begins.
LEMMA StartMoveDoes ==
    ASSUME TypeInv, MoveInv, NEW l \in LEBs, StartMove(l)
    PROVE  \E q \in PEBs, o \in OpType :
              /\ Moves(l, o) /\ Becomes(o, "move", "vid", q, ebaTbl[l], Contents(l), 0)
              /\ op[l] = Idle /\ ~roMode /\ ebaTbl[l] # None
              /\ st[q] = "dirty" /\ flash[q] = Erased
              /\ \A m \in LEBs : op[m].kind # "move"
              /\ UNCHANGED <<st, flash, sqnum, roMode, want>>
<1>1. /\ mv # NoMove /\ op[l] = Idle /\ ~roMode /\ ebaTbl[l] = mv.from
      /\ op' = [op EXCEPT ![l] = [Idle EXCEPT !.kind = "move", !.at = "vid", !.new = mv.to,
                                              !.old = mv.from, !.val = flash[mv.from].data]]
      /\ UNCHANGED <<st, flash, ebaTbl, sqnum, roMode, want>>
  BY DEF StartMove
<1>2. /\ mv.from \in PEBs /\ mv.to \in PEBs /\ st[mv.to] = "dirty" /\ flash[mv.to] = Erased
      /\ \A m \in LEBs : op[m].kind # "move"
  BY <1>1 DEF MoveInv
<1>3. ebaTbl[l] # None /\ Contents(l) = flash[mv.from].data BY <1>1, <1>2, NoneNotPeb DEF Contents
<1> DEFINE q == mv.to
           o == [Idle EXCEPT !.kind = "move", !.at = "vid", !.new = q, !.old = ebaTbl[l],
                             !.val = Contents(l)]
<1>4. o \in OpType /\ Becomes(o, "move", "vid", q, ebaTbl[l], Contents(l), 0)
  <2>1. ebaTbl[l] \in PEBs \cup {None} /\ Contents(l) \in Pages
    BY <1>2, <1>3 DEF TypeInv
  <2> QED BY <1>2, <2>1, IdleIs DEF Becomes, OpType, Kinds
<1>5. op' = [op EXCEPT ![l] = o] BY <1>1, <1>3
<1> HIDE DEF o
<1> QED BY <1>1, <1>2, <1>3, <1>4, <1>5 DEF Moves

\* The sequence number and the CRC of the header operation o writes.
VidSqnum(o) == IF o.kind \in {"recover", "move"} THEN sqnum ELSE o.sqnum
VidSum(o) ==
    CASE o.kind = "write" -> <<>>
      [] o.kind \in {"change", "move"} -> o.val
      [] o.kind = "recover" -> flash[o.old].vid.sum
      [] OTHER -> <<>>

\* A VID header is written.
LEMMA WriteVidDoes ==
    ASSUME TypeInv, NEW l \in LEBs, WriteVid(l)
    PROVE  \E o : /\ Moves(l, o)
                  /\ Becomes(o, op[l].kind, "data", op[l].new, op[l].old, op[l].val, VidSqnum(op[l]))
                  /\ op[l].at = "vid" /\ ~roMode
                  /\ flash' = [flash EXCEPT ![op[l].new].vid = Vid(l, VidSqnum(op[l]), VidSum(op[l]))]
                  /\ IF op[l].kind \in {"recover", "move"}
                     THEN sqnum < MaxSq /\ sqnum' = sqnum + 1 ELSE sqnum' = sqnum
                  /\ UNCHANGED <<st, roMode, want>>
<1> DEFINE o == [op[l] EXCEPT !.at = "data", !.sqnum = VidSqnum(op[l])]
<1>1. op[l] \in OpType /\ VidSqnum(op[l]) \in 0 .. MaxSq BY DEF TypeInv, VidSqnum, OpType
<1>2. o \in OpType
      /\ Becomes(o, op[l].kind, "data", op[l].new, op[l].old, op[l].val, VidSqnum(op[l]))
  BY <1>1 DEF Becomes, OpType
<1>3. op' = [op EXCEPT ![l] = o] BY DEF TypeInv, WriteVid, VidSqnum
<1> HIDE DEF o
<1>4. Moves(l, o) BY <1>2, <1>3 DEF WriteVid, Moves
<1>5. flash' = [flash EXCEPT ![op[l].new].vid = Vid(l, VidSqnum(op[l]), VidSum(op[l]))]
  BY DEF WriteVid, VidSqnum, VidSum
<1> QED BY <1>2, <1>4, <1>5 DEF WriteVid

\* An operation goes on.
LEMMA AtDoes ==
    ASSUME TypeInv, NEW l \in LEBs, NEW a \in {"put", "map"}, At(l, a)
    PROVE  \E o : /\ op' = [op EXCEPT ![l] = o] /\ o \in OpType
                  /\ Becomes(o, op[l].kind, a, op[l].new, op[l].old, op[l].val, op[l].sqnum)
<1> DEFINE o == [op[l] EXCEPT !.at = a]
<1>1. op[l] \in OpType BY DEF TypeInv
<1>2. o \in OpType /\ Becomes(o, op[l].kind, a, op[l].new, op[l].old, op[l].val, op[l].sqnum)
  BY <1>1 DEF Becomes, OpType
<1>3. op' = [op EXCEPT ![l] = o] BY DEF TypeInv, At
<1> HIDE DEF o
<1> QED BY <1>2, <1>3

\* The data is written to the new PEB.
LEMMA WriteDataDoes ==
    ASSUME TypeInv, NEW l \in LEBs, WriteData(l)
    PROVE  \E o : /\ Moves(l, o)
                  /\ Becomes(o, op[l].kind,
                             IF op[l].kind = "change" /\ op[l].old # None THEN "put" ELSE "map",
                             op[l].new, op[l].old, op[l].val, op[l].sqnum)
                  /\ op[l].at = "data" /\ op[l].kind # "append" /\ ~roMode
                  /\ flash' = [flash EXCEPT ![op[l].new].data = op[l].val]
                  /\ UNCHANGED <<st, sqnum, roMode, want>>
<1> DEFINE a == IF op[l].kind = "change" /\ op[l].old # None THEN "put" ELSE "map"
<1>1. a \in {"put", "map"} /\ At(l, a) BY DEF WriteData
<1> HIDE DEF a
<1>2. PICK o : /\ op' = [op EXCEPT ![l] = o] /\ o \in OpType
               /\ Becomes(o, op[l].kind, a, op[l].new, op[l].old, op[l].val, op[l].sqnum)
  BY <1>1, AtDoes
<1>3. Moves(l, o) BY <1>2 DEF WriteData, Moves
<1>4. Becomes(o, op[l].kind,
                             IF op[l].kind = "change" /\ op[l].old # None THEN "put" ELSE "map",
                             op[l].new, op[l].old, op[l].val, op[l].sqnum)
  BY <1>2 DEF a
<1> QED BY <1>3, <1>4 DEF WriteData

\* The operation is over.
LEMMA EndDoes ==
    ASSUME NEW l \in LEBs, op' = [op EXCEPT ![l] = Idle], UNCHANGED ebaTbl PROVE Moves(l, Idle)
BY IdleIs DEF Moves

\* A failed write is tried again on another PEB.
LEMMA RetryDoes ==
    ASSUME TypeInv, NEW l \in LEBs, RetryWrite(l)
    PROVE  \E o : /\ Moves(l, o)
                  /\ Becomes(o, op[l].kind, "get", None, op[l].old, op[l].val,
                             IF op[l].kind = "recover" THEN op[l].sqnum ELSE sqnum)
                  /\ op[l].at \in {"vid", "data"} /\ ~roMode
                  /\ op[l].kind \in {"write", "change", "recover"}
                  /\ \E x \in Leftovers(l) : flash' = [flash EXCEPT ![op[l].new] = x]
                  /\ Put(op[l].new)
                  /\ sqnum < MaxSq
                  /\ sqnum' = IF op[l].kind = "recover" THEN sqnum ELSE sqnum + 1
                  /\ UNCHANGED <<roMode, want>>
<1> DEFINE s == IF op[l].kind = "recover" THEN op[l].sqnum ELSE sqnum
           o == [op[l] EXCEPT !.at = "get", !.new = None, !.tries = op[l].tries + 1, !.sqnum = s]
<1>1. op[l] \in OpType /\ s \in 0 .. MaxSq BY DEF TypeInv, OpType
<1>2. op[l].tries + 1 \in 0 .. IoRetries BY <1>1, EbaBounds DEF OpType, RetryWrite
<1>3. op' = [op EXCEPT ![l] = o] BY DEF TypeInv, RetryWrite
<1> HIDE DEF s
<1>4. o \in OpType /\ Becomes(o, op[l].kind, "get", None, op[l].old, op[l].val, s)
  BY <1>1, <1>2 DEF Becomes, OpType
<1> HIDE DEF o
<1>5. Moves(l, o) BY <1>3, <1>4 DEF RetryWrite, Moves
<1>6. Becomes(o, op[l].kind, "get", None, op[l].old, op[l].val,
                             IF op[l].kind = "recover" THEN op[l].sqnum ELSE sqnum)
  BY <1>4 DEF s
<1> QED BY <1>5, <1>6 DEF RetryWrite, PutPeb, Writing

\* A failed write in place turns into a recovery of the PEB.
LEMMA AppendFailsDoes ==
    ASSUME TypeInv, NEW l \in LEBs, AppendFails(l), flash[op[l].old].data \o op[l].val \in Pages
    PROVE  \E o : /\ Moves(l, o)
                  /\ Becomes(o, "recover", "get", op[l].new, op[l].old,
                             flash[op[l].old].data \o op[l].val, op[l].sqnum)
                  /\ op[l].at \in {"vid", "data"} /\ ~roMode
                  /\ op[l].kind = "append" /\ "append" \in Faults
                  /\ \E x \in Leftovers(l) : flash' = [flash EXCEPT ![op[l].old] = x]
                  /\ UNCHANGED <<st, sqnum, roMode, want>>
<1> DEFINE v == flash[op[l].old].data \o op[l].val
           o == [op[l] EXCEPT !.kind = "recover", !.at = "get", !.val = v]
<1>1. op[l] \in OpType /\ v \in Pages BY DEF TypeInv
<1>2. op' = [op EXCEPT ![l] = o] BY DEF TypeInv, AppendFails
<1> HIDE DEF v
<1>3. o \in OpType /\ Becomes(o, "recover", "get", op[l].new, op[l].old, v, op[l].sqnum)
  BY <1>1 DEF Becomes, OpType, Kinds
<1> HIDE DEF o
<1>4. Moves(l, o) BY <1>2, <1>3 DEF AppendFails, Moves
<1> QED BY <1>3, <1>4 DEF AppendFails, Writing, v

(***************************************************************************)
(* The steps in general.                                                   *)
(***************************************************************************)
\* What a PEB with status s has on it.
PebRule(s, x) ==
    /\ s = "free" => x = Erased
    /\ x.vid \in {NoVid, TornVid} => x.data = <<>>

\* What is on the PEBs of LEB l, mapped to p, with operation o.
LebRule(f, l, o, p) ==
    /\ HasNew(o) =>
          /\ o.at = "vid" => f[o.new].vid = NoVid
          /\ o.at # "vid" => /\ f[o.new].vid \notin {NoVid, TornVid}
                             /\ f[o.new].vid.lnum = l /\ f[o.new].vid.sqnum = o.sqnum
          /\ o.at \in {"map", "put"} => f[o.new].data = o.val
          /\ o.at \in {"vid", "data"} => f[o.new].data = <<>>
    /\ p # None /\ ~(o.kind = "change" /\ o.at = "map") =>
          f[p].vid \notin {NoVid, TornVid} /\ f[p].vid.lnum = l
    /\ o.kind = "append" => Len(f[p].data) + Len(o.val) <= MaxPages

\* FlashInv, as a rule for each PEB and one for each LEB.
LEMMA FlashRules ==
    ASSUME OwnInv
    PROVE  FlashInv <=> /\ \A p \in PEBs : PebRule(st[p], flash[p])
                        /\ \A l \in LEBs : LebRule(flash, l, op[l], ebaTbl[l])
<1>1. \A l \in LEBs : op[l].kind = "append" => op[l].old = ebaTbl[l] BY DEF OwnInv, OpPebs
<1>2. (\A p \in PEBs : PebRule(st[p], flash[p])) <=>
        /\ \A p \in PEBs : st[p] = "free" => flash[p] = Erased
        /\ \A p \in PEBs : ~Headed(p) => flash[p].data = <<>>
  BY DEF PebRule, Headed
<1>3. ASSUME NEW l \in LEBs
      PROVE  LebRule(flash, l, op[l], ebaTbl[l]) <=>
                /\ NewInv(l)
                /\ ebaTbl[l] # None /\ ~Stale(l) =>
                     Headed(ebaTbl[l]) /\ flash[ebaTbl[l]].vid.lnum = l
                /\ op[l].kind = "append" => Len(flash[op[l].old].data) + Len(op[l].val) <= MaxPages
  BY <1>1 DEF LebRule, NewInv, Headed, Stale
<1> QED BY <1>2, <1>3 DEF FlashInv

\* The same after a step.
LEMMA FlashRulesNext ==
    OwnInv' => (FlashInv' <=> /\ \A p \in PEBs : PebRule(st'[p], flash'[p])
                              /\ \A l \in LEBs : LebRule(flash', l, op'[l], ebaTbl'[l]))
<1>1. OwnInv => (FlashInv <=> /\ \A p \in PEBs : PebRule(st[p], flash[p])
                              /\ \A l \in LEBs : LebRule(flash, l, op[l], ebaTbl[l]))
  BY FlashRules
<1>2. (OwnInv => (FlashInv <=> /\ \A p \in PEBs : PebRule(st[p], flash[p])
                              /\ \A l \in LEBs : LebRule(flash, l, op[l], ebaTbl[l])))'
  BY <1>1, PTL
<1> QED BY <1>2 DEF PebRule, LebRule, HasNew

\* The PEBs of LEB l, and those a step on it may write to.
Uses(l) == Holds(l) \cup {p \in PEBs : p = op[l].new}
Mine(l) == Uses(l) \cup {p \in PEBs : st[p] = "free"}

\* No step on LEB l touches a PEB another LEB uses.
LEMMA Apart ==
    ASSUME OwnInv, NEW l \in LEBs, NEW m \in LEBs \ {l}, NEW p \in Uses(m)
    PROVE  p \in PEBs /\ p \notin Mine(l)
<1>1. p \in PEBs BY DEF Uses, Holds
<1>2. ASSUME NEW k \in LEBs, NEW q \in Uses(k), q \notin Holds(k)
      PROVE  op[k].kind = "move" /\ q = op[k].new /\ st[q] = "dirty"
  <2>1. q = op[k].new /\ q \in PEBs BY <1>2 DEF Uses
  <2>2. op[k].kind = "move" BY <1>2, <2>1 DEF Holds
  <2> QED BY <2>1, <2>2 DEF OwnInv
<1>3. \A k \in LEBs : \A q \in Holds(k) : st[q] = "held" BY DEF OwnInv
<1>4. st[p] # "free" BY <1>2, <1>3
<1>5. p \notin Uses(l)
  <2>1. CASE p \in Holds(m) /\ p \in Holds(l) BY <2>1 DEF OwnInv
  <2>2. CASE p \notin Holds(m) BY <2>2, <1>2, <1>3 DEF OwnInv
  <2>3. CASE p \notin Holds(l) BY <2>3, <1>2, <1>3 DEF OwnInv
  <2> QED BY <2>1, <2>2, <2>3
<1> QED BY <1>1, <1>4, <1>5 DEF Mine

\* What another LEB has on its PEBs does not depend on anything else.
LEMMA RuleUses ==
    ASSUME OwnInv, NEW m \in LEBs, NEW f, \A q \in Uses(m) : f[q] = flash[q], TypeInv,
           LebRule(flash, m, op[m], ebaTbl[m])
    PROVE  LebRule(f, m, op[m], ebaTbl[m])
<1>1. HasNew(op[m]) => op[m].new \in Uses(m)
  BY DEF OwnInv, OpShape, Uses
<1>2. ebaTbl[m] # None /\ ~(op[m].kind = "change" /\ op[m].at = "map") => ebaTbl[m] \in Uses(m)
  BY DEF TypeInv, Uses, Holds, Stale
<1>3. op[m].kind = "append" => ebaTbl[m] # None BY DEF OwnInv, OpPebs
<1> QED BY <1>1, <1>2, <1>3 DEF LebRule

\* A step on LEB l.
FlashStep(l, o, p) ==
    /\ flash' \in [PEBs -> FlashType]
    /\ \A q \in PEBs : flash'[q] # flash[q] => q \in Mine(l)
    /\ \A q \in PEBs : flash'[q] # flash[q] \/ st'[q] # st[q] => PebRule(st'[q], flash'[q])
    /\ LebRule(flash', l, o, p)

\* A step that follows the rules of the PEBs it changes and of its LEB keeps
\* FlashInv.
LEMMA FlashStepKeeps ==
    ASSUME TypeInv, OwnInv, OwnInv', FlashInv, NEW l \in LEBs, NEW o, NEW p, Sets(l, o, p),
           FlashStep(l, o, p)
    PROVE  FlashInv'
<1>1. op'[l] = o /\ ebaTbl'[l] = p /\ \A m \in LEBs \ {l} : op'[m] = op[m] /\ ebaTbl'[m] = ebaTbl[m]
  BY SetsOnly DEF Only
<1>2. \A q \in PEBs : PebRule(st'[q], flash'[q])
  <2>1. \A q \in PEBs : PebRule(st[q], flash[q]) BY FlashRules
  <2> QED BY <2>1 DEF FlashStep
<1>3. ASSUME NEW m \in LEBs \ {l} PROVE LebRule(flash', m, op[m], ebaTbl[m])
  <2>1. LebRule(flash, m, op[m], ebaTbl[m]) BY FlashRules
  <2>2. \A q \in Uses(m) : flash'[q] = flash[q] BY Apart DEF FlashStep
  <2> DEFINE f == flash'
  <2>3. \A q \in Uses(m) : f[q] = flash[q] BY <2>2
  <2> HIDE DEF f
  <2>4. LebRule(f, m, op[m], ebaTbl[m]) BY <2>1, <2>3, RuleUses
  <2> QED BY <2>4 DEF f
<1>4. \A m \in LEBs : LebRule(flash', m, op'[m], ebaTbl'[m]) BY <1>1, <1>3 DEF FlashStep
<1> QED BY <1>2, <1>4, FlashRulesNext

(***************************************************************************)
(* Sequence numbers.                                                       *)
(***************************************************************************)
\* Sequence numbers are bounded integers.
LEMMA UsedTypes ==
    ASSUME TypeInv
    PROVE  /\ \A p \in PEBs : IsUsed(flash, p) =>
                  flash[p].vid.sqnum \in 0 .. MaxSq /\ flash[p].vid.lnum \in LEBs
           /\ \A l \in LEBs : op[l].sqnum \in 0 .. MaxSq
           /\ sqnum \in 0 .. MaxSq /\ MaxSq \in Int
<1>1. ASSUME NEW p \in PEBs, IsUsed(flash, p)
      PROVE  flash[p].vid.sqnum \in 0 .. MaxSq /\ flash[p].vid.lnum \in LEBs
  <2>1. flash[p].vid \in VidType \ {NoVid, TornVid} BY <1>1 DEF TypeInv, IsUsed
  <2>2. flash[p].vid \in [lnum : LEBs, sqnum : 0 .. MaxSq, sum : Pages] BY <2>1 DEF VidType
  <2> QED BY <2>2
<1> QED BY <1>1, EbaBounds DEF TypeInv, OpType

\* No header is added, and those that stay are the same.
HeadsStay ==
    \A q \in PEBs : IsUsed(flash, q)' => IsUsed(flash, q) /\ flash'[q].vid = flash[q].vid

SqStep(l, o) ==
    /\ sqnum' \in Int /\ sqnum <= sqnum'
    /\ HeadsStay
    /\ HasSqnum(o) => \/ HasSqnum(op[l]) /\ o.sqnum = op[l].sqnum
                      \/ o.sqnum = sqnum /\ sqnum < sqnum'
    /\ HasNew(o) /\ o.at # "vid" =>
          HasNew(op[l]) /\ op[l].at # "vid" /\ o.new = op[l].new /\ o.sqnum = op[l].sqnum

\* A step that writes no header and takes at most the next sequence number
\* keeps SqInv.
LEMMA SqStepKeeps ==
    ASSUME TypeInv, SqInv, NEW l \in LEBs, NEW o, NEW p, Sets(l, o, p), SqStep(l, o)
    PROVE  SqInv'
<1>1. op'[l] = o /\ \A m \in LEBs \ {l} : op'[m] = op[m]
  BY SetsOnly DEF Only
<1>2. \A q \in PEBs : IsUsed(flash, q)' => IsUsed(flash, q) /\ flash'[q].vid = flash[q].vid
  BY DEF SqStep, HeadsStay
<1>3. \A q \in PEBs : IsUsed(flash, q) => flash[q].vid.sqnum \in Int /\ flash[q].vid.sqnum < sqnum
  BY UsedTypes DEF SqInv, SqnumsUnique
<1>4. sqnum \in Int /\ sqnum' \in Int /\ sqnum <= sqnum' BY UsedTypes DEF SqStep
<1>5. SqnumsUnique'
  <2>1. \A q, r \in PEBs : IsUsed(flash, q)' /\ IsUsed(flash, r)' /\ q # r =>
           flash'[q].vid.sqnum # flash'[r].vid.sqnum
    BY <1>2 DEF SqInv, SqnumsUnique
  <2>2. \A q \in PEBs : IsUsed(flash, q)' => flash'[q].vid.sqnum < sqnum' BY <1>2, <1>3, <1>4
  <2> QED BY <2>1, <2>2 DEF SqnumsUnique
<1>6. \A m \in LEBs : \A q \in Found(flash, m)' :
         q \in Found(flash, m) /\ IsUsed(flash, q) /\ flash'[q].vid = flash[q].vid
  BY <1>2 DEF Found
<1>7. \A m \in LEBs : op[m].sqnum \in Int BY UsedTypes
<1>8. \A m \in LEBs : HasSqnum(op'[m]) =>
        \/ HasSqnum(op[m]) /\ op'[m].sqnum = op[m].sqnum
        \/ m = l /\ op'[m].sqnum = sqnum /\ sqnum < sqnum'
  BY <1>1 DEF SqStep
<1>9. ASSUME NEW m \in LEBs, HasSqnum(op'[m])
      PROVE  /\ op'[m].sqnum < sqnum'
             /\ \A q \in PEBs : IsUsed(flash, q)' => flash'[q].vid.sqnum # op'[m].sqnum
             /\ \A q \in Found(flash, m)' : flash'[q].vid.sqnum < op'[m].sqnum
  <2>1. CASE HasSqnum(op[m]) /\ op'[m].sqnum = op[m].sqnum
    <3>1. op[m].sqnum < sqnum BY <2>1 DEF SqInv
    <3>2. \A q \in PEBs : IsUsed(flash, q) => flash[q].vid.sqnum # op[m].sqnum BY <2>1 DEF SqInv
    <3>3. \A q \in Found(flash, m) : flash[q].vid.sqnum < op[m].sqnum BY <2>1 DEF SqInv
    <3>4. op'[m].sqnum < sqnum' BY <3>1, <2>1, <1>4, <1>7
    <3> QED BY <3>2, <3>3, <3>4, <2>1, <1>2, <1>6
  <2>2. CASE op'[m].sqnum = sqnum /\ sqnum < sqnum'
    <3>1. \A q \in PEBs : IsUsed(flash, q)' => flash'[q].vid.sqnum < sqnum BY <1>2, <1>3
    <3>2. \A q \in PEBs : IsUsed(flash, q)' => flash'[q].vid.sqnum # sqnum BY <1>2, <1>3, <1>4
    <3>3. \A q \in Found(flash, m)' : flash'[q].vid.sqnum < sqnum BY <1>6, <1>3 DEF Found
    <3> QED BY <3>1, <3>2, <3>3, <2>2
  <2> QED BY <1>8, <1>9, <2>1, <2>2
<1>10. ASSUME NEW m \in LEBs, NEW n \in LEBs, HasSqnum(op'[m]), HasSqnum(op'[n]), m # n
       PROVE  op'[m].sqnum # op'[n].sqnum
  <2>1. \A k \in LEBs : HasSqnum(op[k]) => op[k].sqnum < sqnum BY DEF SqInv
  <2>2. \A k \in LEBs : HasSqnum(op[k]) => op[k].sqnum # sqnum BY <2>1, <1>4, <1>7
  <2>3. HasSqnum(op[m]) /\ HasSqnum(op[n]) => op[m].sqnum # op[n].sqnum BY <1>10 DEF SqInv
  <2> QED BY <2>2, <2>3, <1>8, <1>10
<1>11. ASSUME NEW m \in LEBs, HasNew(op'[m]), op'[m].at # "vid",
              NEW q \in Found(flash, m)' \ {op'[m].new}
       PROVE  flash'[q].vid.sqnum < op'[m].sqnum
  <2>1. /\ HasNew(op[m]) /\ op[m].at # "vid" /\ op'[m].new = op[m].new
        /\ op'[m].sqnum = op[m].sqnum
    BY <1>1, <1>11 DEF SqStep
  <2>2. q \in Found(flash, m) \ {op[m].new} /\ flash'[q].vid = flash[q].vid BY <2>1, <1>6
  <2> QED BY <2>1, <2>2 DEF SqInv
<1>12. \A m \in LEBs : HasSqnum(op[m])' <=> HasSqnum(op'[m]) BY DEF HasSqnum
<1>13. \A m \in LEBs : HasNew(op[m])' <=> HasNew(op'[m]) BY DEF HasNew
<1> QED BY <1>5, <1>9, <1>10, <1>11, <1>12, <1>13 DEF SqInv

\* A header is written to the new PEB.
HeadStep(l, o) ==
    /\ sqnum' \in Int /\ sqnum <= sqnum' /\ o.sqnum < sqnum'
    /\ UNCHANGED st
    /\ o.new = op[l].new /\ o.new \in PEBs /\ HasNew(o) /\ o.at = "data"
    /\ flash'[o.new].vid.lnum = l /\ flash'[o.new].vid.sqnum = o.sqnum
    /\ \A q \in PEBs \ {o.new} : flash'[q] = flash[q]
    /\ (HasSqnum(op[l]) /\ o.sqnum = op[l].sqnum) \/ o.sqnum = sqnum

\* So does one that writes a header with a number no header has.
LEMMA HeadStepKeeps ==
    ASSUME TypeInv, SqInv, NEW l \in LEBs, NEW o, NEW p, Sets(l, o, p), HeadStep(l, o)
    PROVE  SqInv'
<1>1. op'[l] = o /\ \A m \in LEBs \ {l} : op'[m] = op[m]
  BY SetsOnly DEF Only
<1> DEFINE n == o.new
<1>2. \A q \in PEBs \ {n} : IsUsed(flash, q)' => IsUsed(flash, q) /\ flash'[q].vid = flash[q].vid
  BY DEF HeadStep, IsUsed
<1>3. \A q \in PEBs : IsUsed(flash, q) => flash[q].vid.sqnum \in Int /\ flash[q].vid.sqnum < sqnum
  BY UsedTypes DEF SqInv, SqnumsUnique
<1>4. sqnum \in Int /\ sqnum' \in Int /\ sqnum <= sqnum' BY UsedTypes DEF HeadStep
<1>5. n \in PEBs /\ flash'[n].vid.lnum = l /\ flash'[n].vid.sqnum = o.sqnum /\ o.sqnum < sqnum'
  BY DEF HeadStep
<1>6. op[l].sqnum \in Int /\ o.sqnum \in Int BY UsedTypes DEF Sets, OpType
<1>7. \A q \in PEBs : IsUsed(flash, q) => flash[q].vid.sqnum # o.sqnum
  <2>1. CASE HasSqnum(op[l]) /\ o.sqnum = op[l].sqnum BY <2>1 DEF SqInv
  <2>2. CASE o.sqnum = sqnum BY <2>2, <1>3, <1>4
  <2> QED BY <2>1, <2>2 DEF HeadStep
<1>8. \A q \in Found(flash, l) : flash[q].vid.sqnum < o.sqnum
  <2>1. CASE HasSqnum(op[l]) /\ o.sqnum = op[l].sqnum BY <2>1 DEF SqInv
  <2>2. CASE o.sqnum = sqnum BY <2>2, <1>3 DEF Found
  <2> QED BY <2>1, <2>2 DEF HeadStep
<1>9. \A m \in LEBs \ {l} : HasSqnum(op[m]) => op[m].sqnum # o.sqnum
  <2>1. CASE HasSqnum(op[l]) /\ o.sqnum = op[l].sqnum BY <2>1 DEF SqInv
  <2>2. CASE o.sqnum = sqnum
    <3>1. \A m \in LEBs : HasSqnum(op[m]) => op[m].sqnum < sqnum /\ op[m].sqnum \in Int
      BY UsedTypes DEF SqInv
    <3> QED BY <3>1, <2>2, <1>4
  <2> QED BY <2>1, <2>2 DEF HeadStep
<1> HIDE DEF n
<1>10. \A q \in PEBs : IsUsed(flash, q)' =>
          \/ q = n
          \/ q # n /\ IsUsed(flash, q) /\ flash'[q].vid = flash[q].vid
  BY <1>2
<1>11. SqnumsUnique'
  <2>1. \A q, r \in PEBs : IsUsed(flash, q)' /\ IsUsed(flash, r)' /\ q # r =>
           flash'[q].vid.sqnum # flash'[r].vid.sqnum
    BY <1>5, <1>7, <1>10 DEF SqInv, SqnumsUnique
  <2>2. \A q \in PEBs : IsUsed(flash, q)' => flash'[q].vid.sqnum < sqnum'
    BY <1>10, <1>3, <1>4, <1>5
  <2> QED BY <2>1, <2>2 DEF SqnumsUnique
<1>12. \A m \in LEBs : \A q \in Found(flash, m)' :
          \/ q = n /\ m = l
          \/ q # n /\ q \in Found(flash, m) /\ IsUsed(flash, q) /\ flash'[q].vid = flash[q].vid
  BY <1>5, <1>10 DEF Found
<1>13. ~HasSqnum(o) BY DEF HasSqnum, HeadStep
<1>14. ASSUME NEW m \in LEBs, HasSqnum(op'[m])
       PROVE  /\ op'[m].sqnum < sqnum'
              /\ \A q \in PEBs : IsUsed(flash, q)' => flash'[q].vid.sqnum # op'[m].sqnum
              /\ \A q \in Found(flash, m)' : flash'[q].vid.sqnum < op'[m].sqnum
  <2>1. m # l /\ op'[m] = op[m] BY <1>1, <1>13, <1>14
  <2>2. HasSqnum(op[m]) BY <2>1, <1>14
  <2>3. /\ op[m].sqnum < sqnum
        /\ \A q \in PEBs : IsUsed(flash, q) => flash[q].vid.sqnum # op[m].sqnum
        /\ \A q \in Found(flash, m) : flash[q].vid.sqnum < op[m].sqnum
    BY <2>2 DEF SqInv
  <2>4. op[m].sqnum < sqnum' BY <2>3, <1>4, UsedTypes
  <2>5. \A q \in PEBs : IsUsed(flash, q)' => flash'[q].vid.sqnum # op[m].sqnum
    BY <1>5, <1>9, <1>10, <2>1, <2>2, <2>3
  <2>6. \A q \in Found(flash, m)' : flash'[q].vid.sqnum < op[m].sqnum BY <1>12, <2>1, <2>3
  <2> QED BY <2>1, <2>4, <2>5, <2>6
<1>15. \A m, k \in LEBs : HasSqnum(op'[m]) /\ HasSqnum(op'[k]) /\ m # k =>
          op'[m].sqnum # op'[k].sqnum
  BY <1>1, <1>13 DEF SqInv
<1>16. ASSUME NEW m \in LEBs, HasNew(op'[m]), op'[m].at # "vid",
              NEW q \in Found(flash, m)' \ {op'[m].new}
       PROVE  flash'[q].vid.sqnum < op'[m].sqnum
  <2>1. CASE m = l BY <2>1, <1>1, <1>8, <1>12, <1>16 DEF n
  <2>2. CASE m # l
    <3>1. op'[m] = op[m] BY <2>2, <1>1
    <3>2. q \in Found(flash, m) \ {op[m].new} /\ flash'[q].vid = flash[q].vid BY <3>1, <2>2, <1>12
    <3> QED BY <1>16, <3>1, <3>2 DEF SqInv
  <2> QED BY <2>1, <2>2
<1>17. \A m \in LEBs : HasSqnum(op[m])' <=> HasSqnum(op'[m]) BY DEF HasSqnum
<1>18. \A m \in LEBs : HasNew(op[m])' <=> HasNew(op'[m]) BY DEF HasNew
<1> QED BY <1>11, <1>14, <1>15, <1>16, <1>17, <1>18 DEF SqInv

(***************************************************************************)
(* What is read.                                                           *)
(***************************************************************************)
Cont(f, p) == IF p = None THEN Unmapped ELSE f[p].data

\* Calls that have told nobody yet what the LEB contains.
Between(o) == o.kind \in {"unmap", "recover"} \/ (o.kind = "change" /\ o.at = "map")

CurStep(l, o, p) ==
    /\ want' \in [LEBs -> Pages \cup {Unmapped}]
    /\ \A m \in LEBs \ {l} : want'[m] = want[m]
    /\ roMode => roMode'
    /\ (roMode' /\ "last_try" \in Faults) \/ Between(o) \/ Cont(flash', p) = want'[l]
    /\ o.kind = "move" => o.val = Cont(flash', p)

\* CurInv, LEB by LEB.
LEMMA CurRules ==
    CurInv <=> /\ want \in [LEBs -> Pages \cup {Unmapped}]
               /\ \A l \in LEBs :
                    /\ \/ roMode /\ "last_try" \in Faults
                       \/ Between(op[l])
                       \/ Cont(flash, ebaTbl[l]) = want[l]
                    /\ op[l].kind = "move" => op[l].val = Cont(flash, ebaTbl[l])
BY DEF CurInv, Between, Stale, Cont, Contents

\* The same after a step.
LEMMA CurRulesNext ==
    CurInv' <=> /\ want' \in [LEBs -> Pages \cup {Unmapped}]
                /\ \A l \in LEBs :
                    /\ \/ roMode' /\ "last_try" \in Faults
                       \/ Between(op'[l])
                       \/ Cont(flash', ebaTbl'[l]) = want'[l]
                    /\ op'[l].kind = "move" => op'[l].val = Cont(flash', ebaTbl'[l])
BY DEF CurInv, Between, Stale, Cont, Contents

\* Another LEB, unless it is stale, still has its contents.
LEMMA ContUses ==
    ASSUME TypeInv, OwnInv, NEW l \in LEBs, NEW o, NEW p, FlashStep(l, o, p),
           NEW m \in LEBs \ {l}, ~Stale(m)
    PROVE  Cont(flash', ebaTbl[m]) = Cont(flash, ebaTbl[m])
<1>1. ebaTbl[m] # None => ebaTbl[m] \in Uses(m) BY DEF TypeInv, Uses, Holds
<1>2. ebaTbl[m] # None => flash'[ebaTbl[m]] = flash[ebaTbl[m]] BY <1>1, Apart DEF FlashStep
<1> QED BY <1>2 DEF Cont

\* A step after which its own LEB reads as the completed calls say keeps
\* CurInv.
LEMMA CurStepKeeps ==
    ASSUME TypeInv, OwnInv, CurInv, NEW l \in LEBs, NEW o, NEW p, Sets(l, o, p),
           FlashStep(l, o, p), CurStep(l, o, p)
    PROVE  CurInv'
<1>1. op'[l] = o /\ ebaTbl'[l] = p /\ \A m \in LEBs \ {l} : op'[m] = op[m] /\ ebaTbl'[m] = ebaTbl[m]
  BY SetsOnly DEF Only
<1>2. ASSUME NEW m \in LEBs \ {l}
      PROVE  /\ \/ roMode' /\ "last_try" \in Faults
                \/ Between(op'[m])
                \/ Cont(flash', ebaTbl'[m]) = want'[m]
             /\ op'[m].kind = "move" => op'[m].val = Cont(flash', ebaTbl'[m])
  <2>1. /\ \/ roMode /\ "last_try" \in Faults
           \/ Between(op[m])
           \/ Cont(flash, ebaTbl[m]) = want[m]
        /\ op[m].kind = "move" => op[m].val = Cont(flash, ebaTbl[m])
    BY CurRules
  <2>2. op'[m] = op[m] /\ ebaTbl'[m] = ebaTbl[m] BY <1>1
  <2>3. ~Stale(m) => Cont(flash', ebaTbl[m]) = Cont(flash, ebaTbl[m]) BY ContUses
  <2>4. Stale(m) => Between(op[m]) /\ op[m].kind # "move" BY DEF Stale, Between
  <2>5. want'[m] = want[m] /\ (roMode => roMode') BY DEF CurStep
  <2> QED BY <2>1, <2>2, <2>3, <2>4, <2>5
<1>3. \A m \in LEBs :
             /\ \/ roMode' /\ "last_try" \in Faults
                \/ Between(op'[m])
                \/ Cont(flash', ebaTbl'[m]) = want'[m]
             /\ op'[m].kind = "move" => op'[m].val = Cont(flash', ebaTbl'[m])
  BY <1>1, <1>2 DEF CurStep
<1> QED BY <1>3, CurRulesNext DEF CurStep

(***************************************************************************)
(* What a power cut would find.                                            *)
(***************************************************************************)
\* LEB l, mapped to p, with operation o, on flash f and PEBs of status s.
KeepRule(f, s, l, o, p) ==
    /\ p # None /\ ~(o.kind = "change" /\ o.at = "map") =>
          \A q \in PEBs \ {p, o.new} :
              f[q].ec /\ s[q] # "bad" /\ f[q].vid \notin {NoVid, TornVid} /\ f[q].vid.lnum = l =>
              IF f[q].vid.sqnum < f[p].vid.sqnum THEN Good(f, p)
              ELSE Good(f, q) => o.kind = "change" /\ s[q] = "dirty" /\ f[q].data = o.val
    /\ HasNew(o) /\ o.at # "vid" =>
          f[o.new].vid.sum = IF o.kind = "write" THEN <<>> ELSE o.val

\* KeepLeb, as a rule for a LEB, its operation and its PEB.
LEMMA KeepLebRule == ASSUME NEW l \in LEBs PROVE KeepLeb(l) <=> KeepRule(flash, st, l, op[l], ebaTbl[l])
BY DEF KeepLeb, KeepRule, Stale, Retried, Found, IsUsed

\* The same after a step.
LEMMA KeepLebRuleNext ==
    \A l \in LEBs : KeepLeb(l)' <=> KeepRule(flash', st', l, op'[l], ebaTbl'[l])
<1>1. \A l \in LEBs : KeepLeb(l) <=> KeepRule(flash, st, l, op[l], ebaTbl[l]) BY KeepLebRule
<1>2. (\A l \in LEBs : KeepLeb(l) <=> KeepRule(flash, st, l, op[l], ebaTbl[l]))' BY <1>1, PTL
<1> QED BY <1>2 DEF KeepRule, HasNew, Good, CrcOk

\* Nothing of another LEB changes.
LnumStep(l) ==
    \A q \in PEBs, m \in LEBs \ {l} :
        flash'[q].vid.lnum = m \/ flash[q].vid.lnum = m =>
            flash'[q] = flash[q] /\ (st'[q] = st[q] \/ q \in Holds(l))

KeepStep(l, o, p) ==
    /\ ~roMode' /\ o.kind # "recover"
    /\ \A q \in PEBs : st'[q] = "held" => flash'[q].ec \/ (st[q] = "held" /\ flash'[q] = flash[q])
    /\ HasNew(o) => flash'[o.new].ec
    /\ LnumStep(l)
    /\ KeepRule(flash', st', l, o, p)

\* The rule of LEB m survives a step on LEB l.
LEMMA KeepUses ==
    ASSUME TypeInv, OwnInv, NEW l \in LEBs, NEW o, NEW p, FlashStep(l, o, p), LnumStep(l),
           NEW m \in LEBs \ {l}, NEW k, k = op[m], NEW t, t = ebaTbl[m], NEW f, f = flash', NEW s, s = st',
           st' \in [PEBs -> Status],
           KeepRule(flash, st, m, k, t)
    PROVE  KeepRule(f, s, m, k, t) /\ (HasNew(k) => f[k.new] = flash[k.new] /\ k.new \in PEBs)
<1>1. \A q \in Uses(m) : f[q] = flash[q] BY Apart DEF FlashStep
<1>2. HasNew(k) => k.new \in Uses(m) /\ k.new \in PEBs BY DEF OwnInv, OpShape, Uses
<1>3. t # None /\ ~(k.kind = "change" /\ k.at = "map") => t \in Uses(m) /\ t \in PEBs
  BY DEF TypeInv, Uses, Holds, Stale
<1>4. \A q \in PEBs : f[q].vid.lnum = m =>
          f[q] = flash[q] /\ (s[q] = st[q] \/ st[q] = "held")
  <2>1. \A q \in Holds(l) : st[q] = "held" BY DEF OwnInv
  <2> QED BY <2>1 DEF LnumStep
<1>5. ASSUME t # None, ~(k.kind = "change" /\ k.at = "map"),
             NEW q \in PEBs \ {t, k.new},
             f[q].ec, s[q] # "bad", f[q].vid \notin {NoVid, TornVid}, f[q].vid.lnum = m
      PROVE  IF f[q].vid.sqnum < f[t].vid.sqnum THEN Good(f, t)
             ELSE Good(f, q) => k.kind = "change" /\ s[q] = "dirty" /\ f[q].data = k.val
  <2>1. f[q] = flash[q] /\ f[t] = flash[t] /\ (s[q] = st[q] \/ st[q] = "held") BY <1>1, <1>3, <1>4, <1>5
  <2>2. IF flash[q].vid.sqnum < flash[t].vid.sqnum THEN Good(flash, t)
        ELSE Good(flash, q) => k.kind = "change" /\ st[q] = "dirty" /\ flash[q].data = k.val
    BY <2>1, <1>5 DEF KeepRule
  <2>3. (Good(f, t) <=> Good(flash, t)) /\ (Good(f, q) <=> Good(flash, q)) BY <2>1 DEF Good, CrcOk
  <2> QED BY <2>1, <2>2, <2>3
<1>6. HasNew(k) /\ k.at # "vid" => f[k.new].vid.sum = IF k.kind = "write" THEN <<>> ELSE k.val
  BY <1>1, <1>2 DEF KeepRule
<1>7. KeepRule(f, s, m, k, t)
  <2> HIDE DEF Good
  <2> QED BY <1>5, <1>6 DEF KeepRule
<1> QED BY <1>1, <1>2, <1>7

\* A step after which its own LEB follows the rule keeps KeepInv.
LEMMA KeepStepKeeps ==
    ASSUME TypeInv, OwnInv, OwnInv', KeepInv, NEW l \in LEBs, NEW o, NEW p, Sets(l, o, p),
           FlashStep(l, o, p), st' \in [PEBs -> Status], SafeFaults => KeepStep(l, o, p)
    PROVE  KeepInv'
<1> SUFFICES ASSUME SafeFaults
             PROVE  /\ ~roMode'
                    /\ \A m \in LEBs : op'[m].kind # "recover"
                    /\ \A q \in PEBs : st'[q] = "held" => flash'[q].ec
                    /\ \A m \in LEBs : HasNew(op'[m]) => flash'[op'[m].new].ec
                    /\ \A m \in LEBs : KeepLeb(m)'
  BY DEF KeepInv, SafeFaults, HasNew
<1>1. op'[l] = o /\ ebaTbl'[l] = p /\ \A m \in LEBs \ {l} : op'[m] = op[m] /\ ebaTbl'[m] = ebaTbl[m]
  BY SetsOnly DEF Only
<1>2. KeepStep(l, o, p) /\ LnumStep(l) BY DEF KeepStep
<1>3. \A q \in PEBs : st'[q] = "held" => flash'[q].ec BY <1>2 DEF KeepInv, KeepStep
<1>4. ASSUME NEW m \in LEBs \ {l}
      PROVE  /\ KeepRule(flash', st', m, op[m], ebaTbl[m])
             /\ HasNew(op[m]) => flash'[op[m].new].ec
  <2> DEFINE f == flash'
             s == st'
  <2>1. KeepRule(flash, st, m, op[m], ebaTbl[m]) /\ (HasNew(op[m]) => flash[op[m].new].ec)
    BY KeepLebRule DEF KeepInv
  <2>2. f = flash' /\ s = st' OBVIOUS
  <2> HIDE DEF f, s
  <2>3. KeepRule(f, s, m, op[m], ebaTbl[m]) /\ (HasNew(op[m]) => f[op[m].new] = flash[op[m].new])
    BY <2>1, <2>2, <1>2, KeepUses
  <2> QED BY <2>1, <2>2, <2>3
<1>5. \A m \in LEBs : KeepRule(flash', st', m, op'[m], ebaTbl'[m]) BY <1>1, <1>2, <1>4 DEF KeepStep
<1>6. \A m \in LEBs : KeepLeb(m)' BY <1>5, KeepLebRuleNext
<1>7. \A m \in LEBs : HasNew(op'[m]) => flash'[op'[m].new].ec BY <1>1, <1>2, <1>4 DEF KeepStep
<1>8. ~roMode' /\ \A m \in LEBs : op'[m].kind # "recover" BY <1>1, <1>2 DEF KeepInv, KeepStep
<1> QED BY <1>3, <1>6, <1>7, <1>8

EbaAll == TypeInv /\ OwnInv /\ FlashInv /\ SqInv /\ CurInv /\ KeepInv

\* What a step on LEB l does to the status of PEBs.
StOk(l, o, p) ==
    /\ StatusStep(l, o, p)
    /\ \A q \in PEBs : (st[q] = "bad" => st'[q] = "bad") /\ (st'[q] = "free" => st[q] = "free")
    /\ \A q \in PEBs : st'[q] # st[q] => q \in Mine(l) /\ st'[q] # "bad"
    /\ \A q \in PEBs : st'[q] = "held" =>
          st[q] = "held" \/ (HasNew(op[l]) /\ q = op[l].new) \/ (HasNew(o) /\ q = o.new)

\* It writes x to PEB t.
FlOne(l, t, x) ==
    /\ t \in Mine(l) /\ t \in PEBs /\ flash' = [flash EXCEPT ![t] = x]
    /\ x \in FlashType
    /\ x.vid \in {NoVid, TornVid} => x.data = <<>>
    /\ st'[t] # "free"
    /\ x.vid.lnum \notin LEBs \ {l} /\ flash[t].vid.lnum \notin LEBs \ {l}
    /\ SafeFaults /\ flash[t].ec => x.ec

FlOk(l) == UNCHANGED flash \/ \E t, x : FlOne(l, t, x)

\* At most one PEB is written, and it is one of those of LEB l.
LEMMA FlIs ==
    ASSUME TypeInv, NEW l \in LEBs, FlOk(l)
    PROVE  /\ flash' \in [PEBs -> FlashType]
           /\ \A q \in PEBs : flash'[q] # flash[q] =>
                 /\ q \in Mine(l)
                 /\ flash'[q].vid \in {NoVid, TornVid} => flash'[q].data = <<>>
                 /\ st'[q] # "free"
                 /\ flash'[q].vid.lnum \notin LEBs \ {l} /\ flash[q].vid.lnum \notin LEBs \ {l}
                 /\ SafeFaults /\ flash[q].ec => flash'[q].ec
<1>1. flash \in [PEBs -> FlashType] BY DEF TypeInv, FlashType
<1>2. CASE UNCHANGED flash BY <1>1, <1>2
<1>3. ASSUME NEW t, NEW x, FlOne(l, t, x)
      PROVE  /\ flash' \in [PEBs -> FlashType]
             /\ \A q \in PEBs : IF q = t THEN flash'[q] = x ELSE flash'[q] = flash[q]
  BY <1>1, <1>3 DEF FlOne
<1>4. ASSUME NEW t, NEW x, FlOne(l, t, x)
      PROVE  \A q \in PEBs : flash'[q] # flash[q] =>
                 /\ q \in Mine(l)
                 /\ flash'[q].vid \in {NoVid, TornVid} => flash'[q].data = <<>>
                 /\ st'[q] # "free"
                 /\ flash'[q].vid.lnum \notin LEBs \ {l} /\ flash[q].vid.lnum \notin LEBs \ {l}
                 /\ SafeFaults /\ flash[q].ec => flash'[q].ec
  BY <1>3, <1>4 DEF FlOne
<1> QED BY <1>2, <1>3, <1>4 DEF FlOk

\* The headers a step on LEB l may overwrite are those of l.
LEMMA MineLnum ==
    ASSUME TypeInv, OwnInv, FlashInv, NEW l \in LEBs, NEW q \in Mine(l), q \notin Holds(l)
    PROVE  flash[q].vid.lnum \notin LEBs \ {l}
<1>1. \A m \in LEBs : m # None /\ m # Torn BY NoneNotLeb
<1>2. CASE st[q] = "free"
  <2>1. q \in PEBs BY DEF Mine, Uses, Holds
  <2>2. flash[q] = Erased BY <1>2, <2>1 DEF FlashInv
  <2> QED BY <2>2, <1>1 DEF Erased, NoVid
<1>3. CASE q = op[l].new /\ q \in PEBs
  <2>1. HasNew(op[l]) BY <1>3, NoneNotPeb DEF OwnInv, OpShape
  <2>2. NewInv(l) BY DEF FlashInv
  <2> QED BY <1>3, <2>1, <2>2, <1>1 DEF NewInv, NoVid
<1> QED BY <1>2, <1>3 DEF Mine, Uses

\* The writes of a step on LEB l disturb no other LEB.
LEMMA FlashStepFrom ==
    ASSUME TypeInv, OwnInv, FlashInv, NEW l \in LEBs, NEW o, NEW p, FlOk(l), StOk(l, o, p),
           LebRule(flash', l, o, p)
    PROVE  FlashStep(l, o, p) /\ LnumStep(l)
<1>1. /\ flash' \in [PEBs -> FlashType]
      /\ \A q \in PEBs : flash'[q] # flash[q] =>
                 /\ q \in Mine(l)
                 /\ flash'[q].vid \in {NoVid, TornVid} => flash'[q].data = <<>>
                 /\ st'[q] # "free"
                 /\ flash'[q].vid.lnum \notin LEBs \ {l} /\ flash[q].vid.lnum \notin LEBs \ {l}
  BY FlIs
<1>2. \A q \in PEBs : PebRule(st[q], flash[q]) BY FlashRules
<1>3. \A q \in PEBs : PebRule(st'[q], flash'[q]) BY <1>1, <1>2 DEF PebRule, StOk
<1>4. FlashStep(l, o, p) BY <1>1, <1>3 DEF FlashStep
<1>5. \A q \in PEBs, m \in LEBs \ {l} : flash'[q].vid.lnum = m \/ flash[q].vid.lnum = m =>
         flash'[q] = flash[q]
  BY <1>1
<1>6. \A q \in PEBs : st'[q] # st[q] => q \in Holds(l) \/ flash[q].vid.lnum \notin LEBs \ {l}
  BY MineLnum DEF StOk
<1> QED BY <1>4, <1>5, <1>6 DEF LnumStep

\* Nor what a power cut would find of another LEB.
LEMMA KeepStepFrom ==
    ASSUME TypeInv, OwnInv, FlashInv, KeepInv, SafeFaults,
           NEW l \in LEBs, NEW o, NEW p, FlOk(l), StOk(l, o, p), LnumStep(l),
           ~roMode', o.kind # "recover", HasNew(o) => flash'[o.new].ec,
           KeepRule(flash', st', l, o, p)
    PROVE  KeepStep(l, o, p)
<1>1. \A q \in PEBs : flash'[q] # flash[q] => (SafeFaults /\ flash[q].ec => flash'[q].ec) BY FlIs
<1>2. ASSUME NEW q \in PEBs, st'[q] = "held" PROVE flash'[q].ec
  <2>1. CASE st[q] = "held" BY <2>1, <1>1 DEF KeepInv
  <2>2. CASE HasNew(op[l]) /\ q = op[l].new BY <2>2, <1>1 DEF KeepInv
  <2>3. CASE HasNew(o) /\ q = o.new BY <2>3
  <2> QED BY <1>2, <2>1, <2>2, <2>3 DEF StOk
<1> QED BY <1>2 DEF KeepStep

\* A step on LEB l is complete.
Done(l, o, p) ==
    /\ Sets(l, o, p) /\ OpShape(o) /\ OpPebs(o, p)
    /\ StOk(l, o, p) /\ FlOk(l) /\ LebRule(flash', l, o, p)
    /\ SqStep(l, o) \/ HeadStep(l, o)
    /\ CurStep(l, o, p)
    /\ sqnum' \in 0 .. MaxSq /\ roMode' \in BOOLEAN
    /\ SafeFaults => /\ ~roMode' /\ o.kind # "recover"
                     /\ HasNew(o) => flash'[o.new].ec
                     /\ KeepRule(flash', st', l, o, p)

\* Whatever does what Done says keeps all the invariants.
LEMMA DoneKeeps ==
    ASSUME EbaAll, NEW l \in LEBs, NEW o, NEW p, Done(l, o, p)
    PROVE  EbaAll'
<1>1. TypeInv /\ OwnInv /\ FlashInv /\ SqInv /\ CurInv /\ KeepInv BY DEF EbaAll
<1>2. Sets(l, o, p) /\ OpShape(o) /\ OpPebs(o, p) /\ StatusStep(l, o, p) /\ StOk(l, o, p) /\ FlOk(l)
  BY DEF Done, StOk
<1>3. OwnInv' BY <1>1, <1>2, OwnStep
<1>4. FlashStep(l, o, p) /\ LnumStep(l) BY <1>1, <1>2, FlashStepFrom DEF Done
<1>5. FlashInv' BY <1>1, <1>2, <1>3, <1>4, FlashStepKeeps
<1>6. SqInv' BY <1>1, <1>2, SqStepKeeps, HeadStepKeeps DEF Done
<1>7. CurInv' BY <1>1, <1>2, <1>4, CurStepKeeps DEF Done
<1>8. SafeFaults => KeepStep(l, o, p)
  <2> SUFFICES ASSUME SafeFaults PROVE KeepStep(l, o, p)
    OBVIOUS
  <2>1. ~roMode' /\ o.kind # "recover" /\ (HasNew(o) => flash'[o.new].ec)
        /\ KeepRule(flash', st', l, o, p)
    BY DEF Done
  <2> QED BY <1>1, <1>2, <1>4, <2>1, KeepStepFrom
<1>9. st' \in [PEBs -> Status] BY <1>2 DEF StatusStep
<1>10. KeepInv' BY <1>1, <1>2, <1>3, <1>4, <1>8, <1>9, KeepStepKeeps
<1>11. TypeInv'
  <2>1. op' \in [LEBs -> OpType] /\ ebaTbl' \in [LEBs -> PEBs \cup {None}] BY <1>1, <1>2, SetsOnly
  <2>2. flash' \in [PEBs -> [ec : BOOLEAN, vid : VidType, data : Pages]]
    BY <1>4 DEF FlashStep, FlashType
  <2>3. sqnum' \in 0 .. MaxSq /\ roMode' \in BOOLEAN BY DEF Done
  <2> QED BY <1>9, <2>1, <2>2, <2>3 DEF TypeInv, PoolTypeOK
<1> QED BY <1>3, <1>5, <1>6, <1>7, <1>10, <1>11 DEF EbaAll

(***************************************************************************)
(* The parts of a step.                                                    *)
(***************************************************************************)
\* What is known of a LEB.
LEMMA Facts ==
    ASSUME EbaAll, NEW l \in LEBs
    PROVE  /\ OpShape(op[l]) /\ OpPebs(op[l], ebaTbl[l]) /\ op[l] \in OpType
           /\ ebaTbl[l] \in PEBs \cup {None}
           /\ LebRule(flash, l, op[l], ebaTbl[l])
           /\ flash \in [PEBs -> FlashType] /\ st \in [PEBs -> Status]
           /\ \A q \in Holds(l) : st[q] = "held"
           /\ Holds(l) = Kept(op[l], ebaTbl[l])
           /\ op[l].kind = "move" => st[op[l].new] = "dirty"
           /\ sqnum \in 0 .. MaxSq /\ roMode \in BOOLEAN
           /\ want \in [LEBs -> Pages \cup {Unmapped}]
BY HoldsKept, FlashRules DEF EbaAll, OwnInv, TypeInv, PoolTypeOK, FlashType, CurInv

\* A step that neither takes nor puts a PEB.
LEMMA StSame ==
    ASSUME EbaAll, NEW l \in LEBs, NEW o, NEW p, UNCHANGED st, Kept(o, p) \subseteq Holds(l),
           o.kind = "move" => op[l].kind = "move" /\ o.new = op[l].new
    PROVE  StOk(l, o, p)
BY Facts DEF StOk, StatusStep

\* q is one of the PEBs of LEB l and not one it keeps.
LEMMA StPut ==
    ASSUME EbaAll, NEW l \in LEBs, NEW o, NEW p, NEW q, q \in Holds(l), q \notin Kept(o, p), Put(q),
           Kept(o, p) \subseteq Holds(l), o.kind # "move"
    PROVE  StOk(l, o, p) /\ st' = [st EXCEPT ![q] = "dirty"]
<1>1. st' = [st EXCEPT ![q] = "dirty"] /\ st[q] = "held" /\ q \in PEBs BY DEF Put, Holds
<1>2. st \in [PEBs -> Status] BY Facts
<1>3. st' \in [PEBs -> Status] /\ \A r \in PEBs : st'[r] = IF r = q THEN "dirty" ELSE st[r]
  BY <1>1, <1>2 DEF Status
<1>4. \A r \in Kept(o, p) : st[r] = "held" /\ r \in PEBs BY Facts DEF Kept
<1>5. StatusStep(l, o, p) BY <1>3, <1>4 DEF StatusStep
<1>6. q \in Mine(l) BY DEF Mine, Uses
<1> QED BY <1>1, <1>3, <1>5, <1>6 DEF StOk

\* q is free and becomes the new PEB of LEB l.
LEMMA StGet ==
    ASSUME EbaAll, NEW l \in LEBs, NEW o, NEW p, NEW q \in PEBs, Get(q),
           Kept(o, p) \subseteq Holds(l) \cup {q}, o.kind # "move", HasNew(o), o.new = q
    PROVE  StOk(l, o, p) /\ st' = [st EXCEPT ![q] = "held"]
<1>1. st' = [st EXCEPT ![q] = "held"] /\ st[q] = "free" BY DEF Get
<1>2. st \in [PEBs -> Status] BY Facts
<1>3. st' \in [PEBs -> Status] /\ \A r \in PEBs : st'[r] = IF r = q THEN "held" ELSE st[r]
  BY <1>1, <1>2 DEF Status
<1>0. \A r \in Holds(l) : st[r] = "held" BY Facts
<1>4. \A r \in Kept(o, p) : r \in PEBs /\ (r = q \/ (r \in Holds(l) /\ st[r] = "held"))
  BY <1>0 DEF Holds
<1>5. StatusStep(l, o, p) BY <1>1, <1>3, <1>4 DEF StatusStep
<1>6. q \in Mine(l) BY <1>1 DEF Mine
<1> QED BY <1>1, <1>3, <1>5, <1>6 DEF StOk

\* The target that was selected becomes the new PEB of a move.
LEMMA StTarget ==
    ASSUME EbaAll, NEW l \in LEBs, NEW o, NEW p, UNCHANGED st, Kept(o, p) \subseteq Holds(l),
           st[o.new] = "dirty", \A m \in LEBs : op[m].kind # "move"
    PROVE  StOk(l, o, p)
BY Facts DEF StOk, StatusStep

\* The contents of d, the PEB of LEB l, are now in n, its new one.
LEMMA StMove ==
    ASSUME EbaAll, NEW l \in LEBs, NEW d \in PEBs, NEW n \in PEBs, Move(d, n), d # n,
           d = ebaTbl[l], n = op[l].new, op[l].kind = "move", HasNew(op[l])
    PROVE  StOk(l, Idle, n)
<1>1. st' = [st EXCEPT ![d] = "dirty", ![n] = "held"] /\ st[d] = "held" /\ st[n] = "dirty" BY DEF Move
<1>2. st \in [PEBs -> Status] BY Facts
<1>3. /\ st' \in [PEBs -> Status]
      /\ \A r \in PEBs : st'[r] = IF r = n THEN "held" ELSE IF r = d THEN "dirty" ELSE st[r]
  BY <1>1, <1>2 DEF Status
<1>4. Kept(Idle, n) = {n} BY TypeOfIdle, NoneNotPeb DEF Kept
<1>5. d \in Holds(l) BY DEF Holds, Stale
<1>6. StatusStep(l, Idle, n) BY <1>1, <1>3, <1>4, <1>5, TypeOfIdle DEF StatusStep
<1>7. d \in Mine(l) /\ n \in Mine(l) BY <1>5 DEF Mine, Uses
<1> QED BY <1>1, <1>3, <1>6, <1>7 DEF StOk

\* No header is added.
LEMMA HeadsSame ==
    ASSUME NEW l, NEW o, NEW p, StOk(l, o, p), UNCHANGED flash
    PROVE  HeadsStay
BY DEF HeadsStay, IsUsed, StOk

\* A write that leaves the header alone, or tears it, adds no header.
LEMMA HeadsOne ==
    ASSUME EbaAll, NEW l \in LEBs, NEW o, NEW p, StOk(l, o, p), NEW t, NEW x, FlOne(l, t, x),
           x.vid \in {NoVid, TornVid} \/ (x.vid = flash[t].vid /\ x.ec = flash[t].ec)
    PROVE  HeadsStay
<1>1. flash \in [PEBs -> FlashType] BY Facts
<1>2. \A q \in PEBs : flash'[q] = IF q = t THEN x ELSE flash[q] BY <1>1 DEF FlOne
<1> QED BY <1>2 DEF HeadsStay, IsUsed, StOk

\* A step that neither writes nor takes or puts a PEB.
Quiet(l, o, p) ==
    /\ Sets(l, o, p) /\ OpShape(o) /\ OpPebs(o, p)
    /\ UNCHANGED <<st, flash>>
    /\ Kept(o, p) \subseteq Holds(l) /\ o.kind # "move"
    /\ HasNew(o) => HasNew(op[l]) /\ op[l].at # "vid" /\ o.new = op[l].new /\ o.sqnum = op[l].sqnum
    /\ LebRule(flash, l, o, p)
    /\ sqnum' \in 0 .. MaxSq /\ sqnum <= sqnum' /\ roMode' \in BOOLEAN
    /\ HasSqnum(o) => \/ HasSqnum(op[l]) /\ o.sqnum = op[l].sqnum
                      \/ o.sqnum = sqnum /\ sqnum < sqnum'
    /\ CurStep(l, o, p)
    /\ SafeFaults => ~roMode' /\ o.kind # "recover" /\ KeepRule(flash, st, l, o, p)

\* A step that writes nothing is complete if its LEB follows the rules.
LEMMA QuietDone ==
    ASSUME EbaAll, NEW l \in LEBs, NEW o, NEW p, Quiet(l, o, p)
    PROVE  Done(l, o, p)
<1>1. StOk(l, o, p) BY StSame DEF Quiet
<1>2. HeadsStay BY <1>1, HeadsSame DEF Quiet
<1>3. sqnum' \in Int BY EbaBounds DEF Quiet
<1>4. SqStep(l, o) BY <1>2, <1>3 DEF SqStep, Quiet
<1>5. LebRule(flash', l, o, p) BY DEF Quiet
<1>6. SafeFaults => KeepRule(flash', st', l, o, p) BY DEF Quiet
<1>7. SafeFaults /\ HasNew(o) => flash'[o.new].ec BY DEF Quiet, EbaAll, KeepInv
<1> QED BY <1>1, <1>4, <1>5, <1>6, <1>7 DEF Quiet, Done, FlOk

(***************************************************************************)
(* The calls begin.                                                        *)
(***************************************************************************)
\* What CurInv says of one LEB.
LEMMA CurFacts ==
    ASSUME EbaAll, NEW l \in LEBs
    PROVE  /\ \/ roMode /\ "last_try" \in Faults
              \/ Between(op[l])
              \/ Cont(flash, ebaTbl[l]) = want[l]
           /\ op[l].kind = "move" => op[l].val = Cont(flash, ebaTbl[l])
BY CurRules DEF EbaAll

\* What KeepInv says of one LEB.
LEMMA KeepFacts ==
    ASSUME EbaAll, SafeFaults, NEW l \in LEBs
    PROVE  /\ ~roMode /\ op[l].kind # "recover"
           /\ HasNew(op[l]) => flash[op[l].new].ec
           /\ \A q \in PEBs : st[q] = "held" => flash[q].ec
           /\ KeepRule(flash, st, l, op[l], ebaTbl[l])
BY KeepLebRule DEF EbaAll, KeepInv

\* Nothing else than the LEB's operation and PEB changes.
LEMMA CurSame ==
    ASSUME EbaAll, NEW l \in LEBs, NEW o, NEW p, UNCHANGED want, roMode => roMode',
           o.kind # "move",
           (roMode' /\ "last_try" \in Faults) \/ Between(o) \/ Cont(flash', p) = want[l]
    PROVE  CurStep(l, o, p)
BY Facts DEF CurStep

\* A call completes and the LEB has the contents it was given.
LEMMA CurSets ==
    ASSUME EbaAll, NEW l \in LEBs, NEW o, NEW p, NEW v \in Pages \cup {Unmapped},
           want' = [want EXCEPT ![l] = v], roMode => roMode', o.kind # "move",
           (roMode' /\ "last_try" \in Faults) \/ Between(o) \/ Cont(flash', p) = v
    PROVE  CurStep(l, o, p)
BY Facts DEF CurStep

\* What is known of a LEB whose lock is free.
LEMMA IdleFacts ==
    ASSUME EbaAll, NEW l \in LEBs, op[l] = Idle
    PROVE  /\ Holds(l) = {p \in PEBs : p = ebaTbl[l]}
           /\ (roMode /\ "last_try" \in Faults) \/ Cont(flash, ebaTbl[l]) = want[l]
           /\ ebaTbl[l] # None => flash[ebaTbl[l]].vid \notin {NoVid, TornVid} /\ flash[ebaTbl[l]].vid.lnum = l
           /\ ~HasNew(op[l])
<1>1. op[l].kind = "idle" /\ op[l].at = "start" /\ op[l].new = None /\ op[l].old = None BY TypeOfIdle
<1>2. Holds(l) = {p \in PEBs : p = ebaTbl[l]}
  <2>1. Holds(l) = Kept(op[l], ebaTbl[l]) BY HoldsKept
  <2> QED BY <1>1, <2>1, NoneNotPeb DEF Kept
<1>3. (roMode /\ "last_try" \in Faults) \/ Cont(flash, ebaTbl[l]) = want[l]
  BY <1>1, CurFacts DEF Between
<1>4. LebRule(flash, l, op[l], ebaTbl[l]) BY Facts
<1>5. ebaTbl[l] # None => flash[ebaTbl[l]].vid \notin {NoVid, TornVid} /\ flash[ebaTbl[l]].vid.lnum = l
  BY <1>1, <1>4 DEF LebRule
<1> QED BY <1>1, <1>2, <1>3, <1>5 DEF HasNew

\* Unmapping keeps the invariants: the old PEB is held until it is put.
LEMMA UnmapDone ==
    ASSUME EbaAll, NEW l \in LEBs, Unmap(l)
    PROVE  \E o, p : Done(l, o, p)
<1>1. PICK o : /\ Sets(l, o, None) /\ Becomes(o, "unmap", "put", None, ebaTbl[l], <<>>, 0)
               /\ op[l] = Idle /\ ~roMode /\ ebaTbl[l] # None
               /\ UNCHANGED <<st, flash, sqnum, roMode, want>>
  BY UnmapDoes DEF EbaAll
<1>2. OpShape(o) BY <1>1 DEF Becomes, OpShape, HasNew
<1>3. OpPebs(o, None) BY <1>1 DEF Becomes, OpPebs
<1>4. Kept(o, None) \subseteq Holds(l) /\ o.kind # "move"
  BY <1>1, IdleFacts, NoneNotPeb DEF Becomes, Kept
<1>5. LebRule(flash, l, o, None) BY <1>1 DEF LebRule, Becomes, HasNew
<1>6. CurStep(l, o, None)
  <2>1. Between(o) BY <1>1 DEF Between, Becomes
  <2> QED BY <1>1, <1>4, <2>1, CurSame
<1>7. KeepRule(flash, st, l, o, None) BY <1>1 DEF KeepRule, Becomes, HasNew
<1>8. sqnum \in 0 .. MaxSq /\ sqnum <= sqnum /\ roMode \in BOOLEAN BY Facts, EbaBounds
<1>9. ~HasNew(o) /\ ~HasSqnum(o) /\ o.kind # "recover" BY <1>1 DEF Becomes, HasNew, HasSqnum
<1>10. Quiet(l, o, None) BY <1>1, <1>2, <1>3, <1>4, <1>5, <1>6, <1>7, <1>8, <1>9 DEF Quiet
<1> QED BY <1>10, QuietDone

\* The first write to a LEB begins with a sequence number of its own.
LEMMA WriteDone ==
    ASSUME EbaAll, NEW l \in LEBs, NEW v \in Pages, Write(l, v)
    PROVE  \E o, p : Done(l, o, p)
<1>1. PICK o : /\ Moves(l, o) /\ Becomes(o, "write", "get", None, None, v, sqnum)
               /\ op[l] = Idle /\ ~roMode /\ ebaTbl[l] = None /\ sqnum < MaxSq
               /\ sqnum' = sqnum + 1
               /\ UNCHANGED <<st, flash, roMode, want>>
  BY WriteDoes DEF EbaAll
<1> DEFINE p == ebaTbl[l]
<1>0. Sets(l, o, p) /\ p = None BY <1>1, MovesSets DEF EbaAll
<1> HIDE DEF p
<1>2. OpShape(o) BY <1>1 DEF Becomes, OpShape, HasNew
<1>3. OpPebs(o, p) BY <1>0, <1>1 DEF Becomes, OpPebs
<1>4. Kept(o, p) \subseteq Holds(l) /\ o.kind # "move"
  BY <1>0, <1>1, IdleFacts, NoneNotPeb DEF Becomes, Kept
<1>5. LebRule(flash, l, o, p) BY <1>0, <1>1 DEF LebRule, Becomes, HasNew
<1>6. CurStep(l, o, p)
  <2>1. (roMode /\ "last_try" \in Faults) \/ Cont(flash, ebaTbl[l]) = want[l] BY <1>1, IdleFacts
  <2> QED BY <1>0, <1>1, <1>4, <2>1, CurSame
<1>7. KeepRule(flash, st, l, o, p) BY <1>0, <1>1 DEF KeepRule, Becomes, HasNew
<1>8. sqnum' \in 0 .. MaxSq /\ sqnum < sqnum' /\ sqnum <= sqnum' /\ roMode \in BOOLEAN
  BY Facts, EbaBounds, <1>1
<1>9. ~HasNew(o) /\ o.sqnum = sqnum /\ o.kind # "recover" BY <1>1 DEF Becomes, HasNew
<1>10. Quiet(l, o, p) BY <1>0, <1>1, <1>2, <1>3, <1>4, <1>5, <1>6, <1>7, <1>8, <1>9 DEF Quiet
<1> QED BY <1>10, QuietDone

\* An idle LEB keeps its rules when a call begins.
LEMMA BeginsRules ==
    ASSUME EbaAll, NEW l \in LEBs, op[l] = Idle, NEW o, ~HasNew(o), o.new = None,
           ~(o.kind = "change" /\ o.at = "map"),
           o.kind = "append" => Len(flash[ebaTbl[l]].data) + Len(o.val) <= MaxPages
    PROVE  /\ LebRule(flash, l, o, ebaTbl[l])
           /\ SafeFaults => KeepRule(flash, st, l, o, ebaTbl[l])
<1>1. op[l].kind = "idle" /\ op[l].new = None BY TypeOfIdle
<1>2. LebRule(flash, l, o, ebaTbl[l]) BY IdleFacts DEF LebRule
<1>3. ASSUME SafeFaults PROVE KeepRule(flash, st, l, o, ebaTbl[l])
  <2>1. KeepRule(flash, st, l, op[l], ebaTbl[l]) BY <1>3, KeepFacts
  <2> HIDE DEF Good
  <2> QED BY <2>1, <1>1 DEF KeepRule
<1> QED BY <1>2, <1>3

\* A write to a mapped LEB begins.
LEMMA AppendDone ==
    ASSUME EbaAll, NEW l \in LEBs, NEW v \in Vals, AppendPage(l, v)
    PROVE  \E o, p : Done(l, o, p)
<1>1. PICK o : /\ Moves(l, o) /\ Becomes(o, "append", "data", None, ebaTbl[l], <<v>>, 0)
               /\ op[l] = Idle /\ ~roMode /\ ebaTbl[l] # None
               /\ Len(flash[ebaTbl[l]].data) < MaxPages
               /\ UNCHANGED <<st, flash, sqnum, roMode, want>>
  BY AppendDoes DEF EbaAll
<1>0. Sets(l, o, ebaTbl[l]) BY <1>1, MovesSets DEF EbaAll
<1>2. OpShape(o) BY <1>1 DEF Becomes, OpShape, HasNew
<1>3. OpPebs(o, ebaTbl[l]) BY <1>1 DEF Becomes, OpPebs
<1>4. Kept(o, ebaTbl[l]) \subseteq Holds(l) /\ o.kind # "move" /\ o.kind # "recover"
  BY <1>1, IdleFacts, NoneNotPeb DEF Becomes, Kept
<1>9. ~HasNew(o) /\ ~HasSqnum(o) /\ o.new = None /\ o.kind # "change" /\ o.val = <<v>>
  BY <1>1 DEF Becomes, HasNew, HasSqnum
<1>5. Len(flash[ebaTbl[l]].data) + Len(o.val) <= MaxPages
  <2>1. ebaTbl[l] \in PEBs BY <1>1, Facts
  <2>2. flash[ebaTbl[l]].data \in Pages BY <2>1, Facts DEF FlashType
  <2>3. Len(flash[ebaTbl[l]].data) \in Nat BY <2>2, PagesAre
  <2>4. Len(o.val) = 1 BY <1>9
  <2> QED BY <1>1, <2>3, <2>4, EbaBounds
<1>6. LebRule(flash, l, o, ebaTbl[l]) /\ (SafeFaults => KeepRule(flash, st, l, o, ebaTbl[l]))
  BY <1>1, <1>5, <1>9, BeginsRules
<1>7. CurStep(l, o, ebaTbl[l])
  <2>1. (roMode /\ "last_try" \in Faults) \/ Cont(flash, ebaTbl[l]) = want[l] BY <1>1, IdleFacts
  <2> QED BY <1>1, <1>4, <2>1, CurSame
<1>8. sqnum \in 0 .. MaxSq /\ sqnum <= sqnum /\ roMode \in BOOLEAN BY Facts, EbaBounds
<1>10. Quiet(l, o, ebaTbl[l]) BY <1>0, <1>1, <1>2, <1>3, <1>4, <1>6, <1>7, <1>8, <1>9 DEF Quiet
<1> QED BY <1>10, QuietDone

\* An atomic change begins with a sequence number of its own.
LEMMA ChangeDone ==
    ASSUME EbaAll, NEW l \in LEBs, NEW v \in Vals, Change(l, v)
    PROVE  \E o, p : Done(l, o, p)
<1>1. PICK o : /\ Moves(l, o) /\ Becomes(o, "change", "get", None, ebaTbl[l], <<v>>, sqnum)
               /\ op[l] = Idle /\ ~roMode /\ sqnum < MaxSq
               /\ sqnum' = sqnum + 1
               /\ UNCHANGED <<st, flash, roMode, want>>
  BY ChangeDoes DEF EbaAll
<1>0. Sets(l, o, ebaTbl[l]) BY <1>1, MovesSets DEF EbaAll
<1>2. OpShape(o) BY <1>1 DEF Becomes, OpShape, HasNew
<1>3. OpPebs(o, ebaTbl[l]) BY <1>1 DEF Becomes, OpPebs
<1>4. Kept(o, ebaTbl[l]) \subseteq Holds(l) /\ o.kind # "move" /\ o.kind # "recover"
  BY <1>1, IdleFacts, NoneNotPeb DEF Becomes, Kept
<1>9. ~HasNew(o) /\ o.new = None /\ o.at # "map" /\ o.sqnum = sqnum /\ o.kind # "append"
  BY <1>1 DEF Becomes, HasNew
<1>6. LebRule(flash, l, o, ebaTbl[l]) /\ (SafeFaults => KeepRule(flash, st, l, o, ebaTbl[l]))
  BY <1>1, <1>9, BeginsRules
<1>7. CurStep(l, o, ebaTbl[l])
  <2>1. (roMode /\ "last_try" \in Faults) \/ Cont(flash, ebaTbl[l]) = want[l] BY <1>1, IdleFacts
  <2> QED BY <1>1, <1>4, <2>1, CurSame
<1>8. sqnum' \in 0 .. MaxSq /\ sqnum < sqnum' /\ sqnum <= sqnum' /\ roMode \in BOOLEAN
  BY Facts, EbaBounds, <1>1
<1>10. Quiet(l, o, ebaTbl[l]) BY <1>0, <1>1, <1>2, <1>3, <1>4, <1>6, <1>7, <1>8, <1>9 DEF Quiet
<1> QED BY <1>10, QuietDone

(***************************************************************************)
(* The calls that end without touching a PEB, and the new PEB of a write.  *)
(***************************************************************************)
\* All pages of s.
LEMMA SubSeqAll == ASSUME NEW s \in Seq(Cells) PROVE SubSeq(s, 1, Len(s)) = s
OBVIOUS

\* A copy that is complete passes the check of its CRC.
LEMMA GoodCopy ==
    ASSUME NEW f, NEW p, f[p].vid.sum \in Pages, f[p].data = f[p].vid.sum
    PROVE  Good(f, p)
<1>1. f[p].vid.sum \in Seq(Cells) BY PagesAre
<1>2. Len(f[p].vid.sum) \in Nat BY <1>1
<1> QED BY <1>1, <1>2, SubSeqAll DEF Good, CrcOk

\* The header of a new PEB has the highest sequence number of its LEB.
LEMMA NewHighest ==
    ASSUME EbaAll, NEW l \in LEBs, HasNew(op[l]), op[l].at # "vid",
           NEW q \in PEBs \ {op[l].new}, flash[q].ec, st[q] # "bad",
           flash[q].vid \notin {NoVid, TornVid}, flash[q].vid.lnum = l
    PROVE  flash[q].vid.sqnum < flash[op[l].new].vid.sqnum
<1>1. q \in Found(flash, l) \ {op[l].new} BY DEF Found, IsUsed
<1>2. flash[q].vid.sqnum < op[l].sqnum BY <1>1 DEF EbaAll, SqInv
<1>3. flash[op[l].new].vid.sqnum = op[l].sqnum BY Facts DEF LebRule
<1> QED BY <1>2, <1>3

\* A call returns and changes nothing but its lock and the history.
LEMMA EndQuiet ==
    ASSUME EbaAll, NEW l \in LEBs, op' = [op EXCEPT ![l] = Idle],
           UNCHANGED <<st, flash, ebaTbl, sqnum>>, ~Stale(l), roMode' \in BOOLEAN,
           CurStep(l, Idle, ebaTbl[l]),
           SafeFaults => ~roMode' /\ KeepRule(flash, st, l, Idle, ebaTbl[l])
    PROVE  \E o, p : Done(l, o, p)
<1>1. Sets(l, Idle, ebaTbl[l]) BY EndDoes, MovesSets DEF EbaAll
<1>2. /\ Idle.kind = "idle" /\ Idle.at = "start" /\ Idle.new = None /\ Idle.old = None
      /\ ~HasNew(Idle) /\ ~HasSqnum(Idle)
  BY TypeOfIdle DEF HasNew, HasSqnum
<1>3. OpShape(Idle) /\ OpPebs(Idle, ebaTbl[l]) BY <1>2 DEF OpShape, OpPebs
<1>4. Kept(Idle, ebaTbl[l]) \subseteq Holds(l) BY <1>2, NoneNotPeb DEF Kept, Holds
<1>5. LebRule(flash, l, Idle, ebaTbl[l])
  <2>1. LebRule(flash, l, op[l], ebaTbl[l]) BY Facts
  <2>2. ebaTbl[l] # None => flash[ebaTbl[l]].vid \notin {NoVid, TornVid} /\ flash[ebaTbl[l]].vid.lnum = l
    BY <2>1 DEF LebRule, Stale
  <2> QED BY <1>2, <2>2 DEF LebRule
<1>6. sqnum \in 0 .. MaxSq /\ sqnum <= sqnum BY Facts, EbaBounds
<1>7. Quiet(l, Idle, ebaTbl[l]) BY <1>1, <1>2, <1>3, <1>4, <1>5, <1>6 DEF Quiet
<1> QED BY <1>7, QuietDone

\* What a LEB contains, by its PEB.
LEMMA ContentsType ==
    ASSUME EbaAll, NEW l \in LEBs
    PROVE  Contents(l) = Cont(flash, ebaTbl[l]) /\ Contents(l) \in Pages \cup {Unmapped}
BY Facts DEF Contents, Cont, FlashType

\* A call that fails leaves what can be read.
LEMMA ErrIsCurrent ==
    ASSUME EbaAll, NEW l \in LEBs, ReturnErr(l), UNCHANGED flash, roMode => roMode'
    PROVE  CurStep(l, Idle, ebaTbl[l])
<1>1. want' = [want EXCEPT ![l] = Contents(l)] BY DEF ReturnErr
<1> DEFINE v == Contents(l)
<1>2. v \in Pages \cup {Unmapped} /\ want' = [want EXCEPT ![l] = v] /\ Cont(flash', ebaTbl[l]) = v
  BY <1>1, ContentsType DEF Cont
<1> HIDE DEF v
<1> QED BY <1>2, CurSets, TypeOfIdle

\* There is no free PEB (-ENOSPC).
LEMMA GetFailsDone ==
    ASSUME EbaAll, MoveInv, NEW l \in LEBs, GetFails(l)
    PROVE  \E o, p : Done(l, o, p)
<1>1. /\ op[l].at = "get" /\ \A p \in PEBs : Waiting(p) => "get_error" \in Faults
      /\ roMode' = (roMode \/ op[l].kind = "recover") /\ ReturnErr(l)
      /\ UNCHANGED <<st, flash, ebaTbl, sqnum>>
  BY DEF GetFails
<1>2. op' = [op EXCEPT ![l] = Idle] BY <1>1 DEF ReturnErr
<1>3. ~Stale(l) /\ roMode' \in BOOLEAN BY <1>1, Facts DEF Stale
<1>4. CurStep(l, Idle, ebaTbl[l]) BY <1>1, ErrIsCurrent
<1>5. ASSUME SafeFaults PROVE ~roMode' /\ KeepRule(flash, st, l, Idle, ebaTbl[l])
  <2>1. KeepRule(flash, st, l, op[l], ebaTbl[l]) /\ ~roMode /\ op[l].kind # "recover"
    BY <1>5, KeepFacts
  <2>2. op[l].new = None BY <1>1, Facts DEF OpShape, HasNew
  <2>3. Idle.new = None /\ ~HasNew(Idle) BY TypeOfIdle DEF HasNew
  <2>4. ASSUME NEW q \in PEBs, flash[q].vid \notin {NoVid, TornVid}, flash[q].vid.lnum = l
        PROVE  st[q] # "dirty"
    <3>1. ~Waiting(q) BY <1>1, <1>5 DEF SafeFaults
    <3>2. q # mv.to
      <4>1. mv # NoMove => flash[mv.to] = Erased BY DEF MoveInv
      <4>2. mv = NoMove => mv.to = None BY DEF NoMove
      <4> QED BY <4>1, <4>2, <2>4, FlashFacts, NoneNotPeb
    <3>3. ASSUME NEW m \in LEBs, op[m].new = q PROVE st[q] # "dirty"
      <4>1. CASE op[m].kind # "move"
        <5>1. q \in Holds(m) BY <3>3, <4>1 DEF Holds
        <5> QED BY <5>1, Facts
      <4>2. CASE op[m].kind = "move"
        <5>1. HasNew(op[m]) BY <4>2, Facts DEF OpShape, HasNew
        <5>2. LebRule(flash, m, op[m], ebaTbl[m]) BY Facts
        <5>3. m # l BY <2>2, <3>3, NoneNotPeb
        <5> QED BY <5>1, <5>2, <5>3, <2>4, <3>3 DEF LebRule
      <4> QED BY <4>1, <4>2
    <3> QED BY <3>1, <3>2, <3>3 DEF Waiting
  <2> HIDE DEF Good
  <2> QED BY <1>1, <2>1, <2>2, <2>3, <2>4 DEF KeepRule
<1> QED BY <1>1, <1>2, <1>3, <1>4, <1>5, EndQuiet

\* The old PEB is not queued for erasure (-ENOMEM).
LEMMA PutFailsDone ==
    ASSUME EbaAll, NEW l \in LEBs, PutFails(l)
    PROVE  \E o, p : Done(l, o, p)
<1>1. /\ op[l].at = "put" /\ "put_nomem" \in Faults
      /\ IF op[l].kind = "recover" THEN ReturnOk(l, op[l].val) ELSE ReturnErr(l)
      /\ UNCHANGED <<st, flash, ebaTbl, sqnum, roMode>>
  BY DEF PutFails
<1>2. op' = [op EXCEPT ![l] = Idle] BY <1>1 DEF ReturnErr, ReturnOk
<1>3. ~Stale(l) /\ roMode' \in BOOLEAN BY <1>1, Facts DEF Stale
<1>4. CurStep(l, Idle, ebaTbl[l])
  <2>1. CASE op[l].kind # "recover" BY <2>1, <1>1, ErrIsCurrent
  <2>2. CASE op[l].kind = "recover"
    <3>1. ebaTbl[l] = op[l].new /\ HasNew(op[l]) /\ op[l].new \in PEBs
      BY <2>2, <1>1, Facts DEF OpPebs, OpShape, HasNew
    <3>2. flash[op[l].new].data = op[l].val BY <3>1, <1>1, Facts DEF LebRule
    <3>3. op[l].val \in Pages BY Facts DEF OpType
    <3>4. Cont(flash', ebaTbl[l]) = op[l].val BY <1>1, <3>1, <3>2, NoneNotPeb DEF Cont
    <3>5. want' = [want EXCEPT ![l] = op[l].val] BY <1>1, <2>2 DEF ReturnOk
    <3> QED BY <1>1, <3>3, <3>4, <3>5, CurSets, TypeOfIdle
  <2> QED BY <2>1, <2>2
<1>5. ~SafeFaults BY <1>1 DEF SafeFaults
<1> QED BY <1>1, <1>2, <1>3, <1>4, <1>5, EndQuiet

\* A write ends because the device has become read-only.
LEMMA ReadOnlyDone ==
    ASSUME EbaAll, NEW l \in LEBs, WriteReadOnly(l), op[l].kind # "recover"
    PROVE  \E o, p : Done(l, o, p)
<1>1. /\ op[l].at \in {"vid", "data"} /\ roMode /\ ReturnErr(l)
      /\ UNCHANGED <<st, flash, ebaTbl, sqnum, roMode>>
  BY DEF WriteReadOnly
<1>2. op' = [op EXCEPT ![l] = Idle] BY <1>1 DEF ReturnErr
<1>3. ~Stale(l) /\ roMode' \in BOOLEAN BY <1>1, Facts DEF Stale
<1>4. CurStep(l, Idle, ebaTbl[l]) BY <1>1, ErrIsCurrent
<1>5. ~SafeFaults BY <1>1, KeepFacts
<1> QED BY <1>1, <1>2, <1>3, <1>4, <1>5, EndQuiet

\* eba_tbl is set to the PEB of a write or an atomic change.
LEMMA MapFirstDone ==
    ASSUME EbaAll, NEW l \in LEBs, MapNew(l), op[l].kind \notin {"move", "recover"}
    PROVE  \E o, p : Done(l, o, p)
<1> DEFINE n == op[l].new
<1>1. /\ op[l].at = "map" /\ ebaTbl' = [ebaTbl EXCEPT ![l] = n]
      /\ ReturnOk(l, op[l].val)
      /\ UNCHANGED <<st, flash, sqnum, roMode>>
  BY DEF MapNew
<1>2. HasNew(op[l]) /\ n \in PEBs /\ n # None /\ op[l].kind \in {"write", "change"}
  <2>1. op[l].kind \in Kinds BY Facts DEF OpType
  <2>2. OpShape(op[l]) BY Facts
  <2>3. op[l].kind \notin {"idle", "unmap", "append"} BY <1>1, <2>2, TypeOfIdle DEF OpShape
  <2>4. op[l].kind \in {"write", "change"} BY <2>1, <2>3 DEF Kinds
  <2> QED BY <1>1, <2>2, <2>4, NoneNotPeb DEF OpShape, HasNew
<1>3. Sets(l, Idle, n)
  <2>1. op' = [op EXCEPT ![l] = Idle] BY <1>1 DEF ReturnOk
  <2> QED BY <1>1, <1>2, <2>1, TypeOfIdle DEF Sets
<1>4. /\ Idle.kind = "idle" /\ Idle.at = "start" /\ Idle.new = None /\ Idle.old = None
      /\ ~HasNew(Idle) /\ ~HasSqnum(Idle)
  BY TypeOfIdle DEF HasNew, HasSqnum
<1>5. OpShape(Idle) /\ OpPebs(Idle, n) BY <1>4 DEF OpShape, OpPebs
<1>6. Kept(Idle, n) \subseteq Holds(l) BY <1>2, <1>4, NoneNotPeb DEF Kept, Holds
<1>7. /\ flash[n].vid \notin {NoVid, TornVid} /\ flash[n].vid.lnum = l
      /\ flash[n].data = op[l].val
  BY <1>1, <1>2, Facts DEF LebRule
<1>8. LebRule(flash, l, Idle, n) BY <1>4, <1>7 DEF LebRule
<1>9. CurStep(l, Idle, n)
  <2>1. op[l].val \in Pages BY Facts DEF OpType
  <2>2. want' = [want EXCEPT ![l] = op[l].val] BY <1>1 DEF ReturnOk
  <2>3. Cont(flash', n) = op[l].val BY <1>1, <1>2, <1>7 DEF Cont
  <2> QED BY <1>1, <1>4, <2>1, <2>2, <2>3, CurSets
<1>10. ASSUME SafeFaults PROVE ~roMode' /\ KeepRule(flash, st, l, Idle, n)
  <2>1. KeepRule(flash, st, l, op[l], ebaTbl[l]) /\ ~roMode BY <1>10, KeepFacts
  <2>2. flash[n].vid.sum = IF op[l].kind = "write" THEN <<>> ELSE op[l].val
    BY <1>1, <1>2, <2>1 DEF KeepRule
  <2>3. Good(flash, n)
    <3>1. op[l].val \in Pages BY Facts DEF OpType
    <3>2. flash[n].vid.sum = <<>> => Good(flash, n) BY DEF Good
    <3> QED BY <2>2, <3>1, <3>2, <1>7, GoodCopy
  <2>4. \A q \in PEBs \ {n} :
          flash[q].ec /\ st[q] # "bad" /\ flash[q].vid \notin {NoVid, TornVid} /\ flash[q].vid.lnum = l
            => flash[q].vid.sqnum < flash[n].vid.sqnum
    BY <1>1, <1>2, NewHighest
  <2> HIDE DEF Good, n
  <2> QED BY <1>1, <1>4, <2>1, <2>3, <2>4 DEF KeepRule
<1>11. sqnum \in 0 .. MaxSq /\ sqnum <= sqnum /\ roMode \in BOOLEAN BY Facts, EbaBounds
<1> HIDE DEF n
<1>12. Quiet(l, Idle, n) BY <1>1, <1>3, <1>4, <1>5, <1>6, <1>8, <1>9, <1>10, <1>11 DEF Quiet
<1> QED BY <1>12, QuietDone

\* eba_tbl is set to the PEB a recovery has filled.
LEMMA MapRecoveredDone ==
    ASSUME EbaAll, NEW l \in LEBs, MapNew(l), op[l].kind = "recover"
    PROVE  \E o, p : Done(l, o, p)
<1> DEFINE n == op[l].new
<1>1. /\ op[l].at = "map" /\ ebaTbl' = [ebaTbl EXCEPT ![l] = n]
      /\ At(l, "put") /\ UNCHANGED <<st, want>>
      /\ UNCHANGED <<flash, sqnum, roMode>>
  BY DEF MapNew
<1>2. PICK o : /\ op' = [op EXCEPT ![l] = o] /\ o \in OpType
               /\ Becomes(o, op[l].kind, "put", n, op[l].old, op[l].val, op[l].sqnum)
  BY <1>1, AtDoes DEF EbaAll
<1>3. HasNew(op[l]) /\ n \in PEBs /\ n # None /\ n # op[l].old /\ op[l].old # None /\ op[l].old = ebaTbl[l]
  BY <1>1, Facts, NoneNotPeb DEF OpShape, OpPebs, HasNew
<1>4. Sets(l, o, n) BY <1>1, <1>2, <1>3 DEF Sets
<1>5. /\ o.kind = "recover" /\ o.at = "put" /\ o.new = n /\ o.old = op[l].old
      /\ o.val = op[l].val /\ o.sqnum = op[l].sqnum
  BY <1>2 DEF Becomes
<1>6. HasNew(o) /\ ~HasSqnum(o) BY <1>5 DEF HasNew, HasSqnum
<1>7. OpShape(o) /\ OpPebs(o, n) BY <1>3, <1>5, <1>6 DEF OpShape, OpPebs
<1>8. Kept(o, n) \subseteq Holds(l) BY <1>3, <1>5 DEF Kept, Holds, Stale
<1>9. LebRule(flash, l, o, n)
  <2>1. LebRule(flash, l, op[l], ebaTbl[l]) BY Facts
  <2>2. /\ flash[n].vid \notin {NoVid, TornVid} /\ flash[n].vid.lnum = l
        /\ flash[n].vid.sqnum = op[l].sqnum /\ flash[n].data = op[l].val
    BY <1>1, <1>3, <2>1 DEF LebRule
  <2> QED BY <2>2, <1>5 DEF LebRule
<1>10. CurStep(l, o, n)
  <2>1. Between(o) BY <1>5 DEF Between
  <2> QED BY <1>1, <1>5, <2>1, CurSame
<1>11. ~SafeFaults BY KeepFacts
<1>12. sqnum \in 0 .. MaxSq /\ sqnum <= sqnum /\ roMode \in BOOLEAN BY Facts, EbaBounds
<1> HIDE DEF n
<1>13. op[l].new = n /\ op[l].at # "vid" BY <1>1 DEF n
<1>14. Quiet(l, o, n)
  BY <1>1, <1>3, <1>4, <1>5, <1>6, <1>7, <1>8, <1>9, <1>10, <1>11, <1>12, <1>13 DEF Quiet
<1> QED BY <1>14, QuietDone

(***************************************************************************)
(* PEBs are put, moved and got.                                            *)
(***************************************************************************)
\* A call ends; the LEB stays where it is.
Ends(l) ==
    /\ op' = [op EXCEPT ![l] = Idle]
    /\ UNCHANGED <<ebaTbl, sqnum>> /\ ~Stale(l)
    /\ StOk(l, Idle, ebaTbl[l]) /\ FlOk(l) /\ HeadsStay
    /\ LebRule(flash', l, Idle, ebaTbl[l])
    /\ CurStep(l, Idle, ebaTbl[l])
    /\ roMode' \in BOOLEAN
    /\ SafeFaults => ~roMode' /\ KeepRule(flash', st', l, Idle, ebaTbl[l])

\* A LEB whose lock is free has no PEB beside the one it is mapped to.
LEMMA IdleParts ==
    /\ Idle.kind = "idle" /\ Idle.at = "start" /\ Idle.new = None /\ Idle.old = None
    /\ ~HasNew(Idle) /\ ~HasSqnum(Idle) /\ OpShape(Idle) /\ \A p : OpPebs(Idle, p)
    /\ \A p : Kept(Idle, p) = {q \in PEBs : q = p}
<1>1. /\ Idle.kind = "idle" /\ Idle.at = "start" /\ Idle.new = None /\ Idle.old = None
  BY TypeOfIdle
<1>2. ~HasNew(Idle) /\ ~HasSqnum(Idle) BY <1>1 DEF HasNew, HasSqnum
<1>3. OpShape(Idle) /\ \A p : OpPebs(Idle, p) BY <1>1, <1>2 DEF OpShape, OpPebs
<1>4. \A p : Kept(Idle, p) = {q \in PEBs : q = p} BY <1>1, NoneNotPeb DEF Kept
<1> QED BY <1>1, <1>2, <1>3, <1>4

\* A call that ends keeps the invariants if its LEB follows the rules.
LEMMA EndsDone ==
    ASSUME EbaAll, NEW l \in LEBs, Ends(l)
    PROVE  \E o, p : Done(l, o, p)
<1>1. Sets(l, Idle, ebaTbl[l]) BY EndDoes, MovesSets DEF EbaAll, Ends
<1>2. sqnum \in 0 .. MaxSq /\ sqnum <= sqnum /\ sqnum \in Int BY Facts, EbaBounds
<1>3. SqStep(l, Idle) BY <1>2, IdleParts DEF SqStep, Ends
<1>4. Done(l, Idle, ebaTbl[l]) BY <1>1, <1>2, <1>3, IdleParts DEF Done, Ends
<1> QED BY <1>4

\* The rules of a LEB without an operation are part of the rules with one.
LEMMA IdleRule ==
    ASSUME NEW f, NEW l, NEW o, NEW p, LebRule(f, l, o, p), ~(o.kind = "change" /\ o.at = "map")
    PROVE  LebRule(f, l, Idle, p)
BY IdleParts DEF LebRule

\* A call ends by putting a PEB its LEB no longer keeps.
LEMMA PutEnds ==
    ASSUME EbaAll, NEW l \in LEBs, op' = [op EXCEPT ![l] = Idle],
           UNCHANGED <<flash, ebaTbl, sqnum>>, ~Stale(l),
           NEW q \in Holds(l), Put(q), q # ebaTbl[l],
           CurStep(l, Idle, ebaTbl[l]), roMode' \in BOOLEAN,
           SafeFaults => ~roMode' /\ ebaTbl[l] = None
    PROVE  \E o, p : Done(l, o, p)
<1>1. Kept(Idle, ebaTbl[l]) \subseteq Holds(l) /\ q \notin Kept(Idle, ebaTbl[l])
  BY IdleParts DEF Holds
<1>2. StOk(l, Idle, ebaTbl[l]) BY <1>1, StPut, IdleParts
<1>3. HeadsStay BY <1>2, HeadsSame
<1>4. LebRule(flash', l, Idle, ebaTbl[l]) BY Facts, IdleRule DEF Stale
<1>5. SafeFaults => KeepRule(flash', st', l, Idle, ebaTbl[l]) BY IdleParts DEF KeepRule
<1>6. Ends(l) BY <1>2, <1>3, <1>4, <1>5 DEF Ends, FlOk
<1> QED BY <1>6, EndsDone

\* A recovery ends because the device has become read-only.
LEMMA RecoverReadOnlyDone ==
    ASSUME EbaAll, NEW l \in LEBs, WriteReadOnly(l), op[l].kind = "recover"
    PROVE  \E o, p : Done(l, o, p)
<1>1. /\ op[l].at \in {"vid", "data"} /\ roMode /\ ReturnErr(l) /\ Put(op[l].new)
      /\ UNCHANGED <<flash, ebaTbl, sqnum, roMode>>
  BY DEF WriteReadOnly, PutPeb
<1>2. op' = [op EXCEPT ![l] = Idle] BY <1>1 DEF ReturnErr
<1>3. ~Stale(l) /\ roMode' \in BOOLEAN BY <1>1, Facts DEF Stale
<1>4. CurStep(l, Idle, ebaTbl[l]) BY <1>1, ErrIsCurrent
<1>5. ~SafeFaults BY <1>1, KeepFacts
<1>6. op[l].new \in PEBs /\ op[l].new # ebaTbl[l]
  BY <1>1, Facts, NoneNotPeb DEF OpShape, OpPebs, HasNew
<1>7. op[l].new \in Holds(l) BY <1>6 DEF Holds
<1> QED BY <1>1, <1>2, <1>3, <1>4, <1>5, <1>6, <1>7, PutEnds

\* A recovery ends because it cannot read the old PEB.
LEMMA RecoverFatalDone ==
    ASSUME EbaAll, NEW l \in LEBs, WriteFatal(l), op[l].kind = "recover"
    PROVE  \E o, p : Done(l, o, p)
<1>1. /\ op[l].at \in {"vid", "data"} /\ "fatal" \in Faults /\ Put(op[l].new)
      /\ op' = [op EXCEPT ![l] = Idle] /\ roMode' = TRUE
      /\ UNCHANGED <<flash, ebaTbl, sqnum>>
  BY DEF WriteFatal, PutPeb, Writing
<1>3. ~Stale(l) /\ roMode' \in BOOLEAN BY <1>1, Facts DEF Stale
<1>4. CurStep(l, Idle, ebaTbl[l])
  <2> DEFINE v == Contents(l)
  <2>1. want' = [want EXCEPT ![l] = v] /\ Cont(flash', ebaTbl[l]) = v
    BY <1>1 DEF WriteFatal, Contents, Cont
  <2>2. v \in Pages \cup {Unmapped} BY ContentsType
  <2> HIDE DEF v
  <2> QED BY <1>1, <2>1, <2>2, CurSets, IdleParts
<1>5. ~SafeFaults BY <1>1 DEF SafeFaults
<1>6. op[l].new \in PEBs /\ op[l].new # ebaTbl[l]
  BY <1>1, Facts, NoneNotPeb DEF OpShape, OpPebs, HasNew
<1>7. op[l].new \in Holds(l) BY <1>6 DEF Holds
<1> QED BY <1>1, <1>3, <1>4, <1>5, <1>6, <1>7, PutEnds

\* The PEB to be put.
LEMMA OldHeld ==
    ASSUME EbaAll, NEW l \in LEBs, op[l].at = "put"
    PROVE  op[l].old \in PEBs /\ op[l].old \in Holds(l) /\ op[l].kind \in {"unmap", "change", "recover"}
<1>1. op[l].old \in PEBs \cup {None} /\ op[l].kind \in Kinds BY Facts DEF OpType
<1>2. OpShape(op[l]) BY Facts
<1>3. op[l].kind \notin {"idle", "write", "append", "move"}
  BY <1>2, IdleParts DEF OpShape
<1>4. op[l].old # None BY Facts DEF OpPebs
<1> QED BY <1>1, <1>3, <1>4 DEF Holds, Kinds

\* The PEB of an unmapped LEB is put.
LEMMA PutUnmappedDone ==
    ASSUME EbaAll, NEW l \in LEBs, PutOld(l), op[l].kind = "unmap"
    PROVE  \E o, p : Done(l, o, p)
<1>1. /\ op[l].at = "put" /\ Put(op[l].old) /\ ReturnOk(l, Unmapped)
      /\ UNCHANGED <<flash, ebaTbl, sqnum, roMode>>
  BY DEF PutOld, PutPeb
<1>2. op' = [op EXCEPT ![l] = Idle] /\ want' = [want EXCEPT ![l] = Unmapped] BY <1>1 DEF ReturnOk
<1>3. ebaTbl[l] = None /\ op[l].old \in Holds(l) /\ op[l].old # None
  BY <1>1, Facts, OldHeld, NoneNotPeb DEF OpPebs
<1>4. ~Stale(l) /\ roMode' \in BOOLEAN BY <1>1, Facts DEF Stale
<1>5. CurStep(l, Idle, ebaTbl[l])
  <2>1. Cont(flash', ebaTbl[l]) = Unmapped BY <1>3 DEF Cont
  <2> QED BY <1>1, <1>2, <2>1, CurSets, IdleParts
<1>6. SafeFaults => ~roMode' BY <1>1, KeepFacts
<1> QED BY <1>1, <1>2, <1>3, <1>4, <1>5, <1>6, PutEnds

\* The PEB a recovery has replaced is put.
LEMMA PutRecoveredDone ==
    ASSUME EbaAll, NEW l \in LEBs, PutOld(l), op[l].kind = "recover"
    PROVE  \E o, p : Done(l, o, p)
<1>1. /\ op[l].at = "put" /\ Put(op[l].old) /\ ReturnOk(l, op[l].val)
      /\ UNCHANGED <<flash, ebaTbl, sqnum, roMode>>
  BY DEF PutOld, PutPeb
<1>2. op' = [op EXCEPT ![l] = Idle] /\ want' = [want EXCEPT ![l] = op[l].val] BY <1>1 DEF ReturnOk
<1>3. /\ ebaTbl[l] = op[l].new /\ op[l].old \in Holds(l) /\ HasNew(op[l]) /\ op[l].new # None
      /\ op[l].old # ebaTbl[l]
  BY <1>1, Facts, OldHeld, NoneNotPeb DEF OpPebs, OpShape, HasNew
<1>4. ~Stale(l) /\ roMode' \in BOOLEAN BY <1>1, Facts DEF Stale
<1>5. CurStep(l, Idle, ebaTbl[l])
  <2>1. flash[op[l].new].data = op[l].val BY <1>1, <1>3, Facts DEF LebRule
  <2>2. Cont(flash', ebaTbl[l]) = op[l].val BY <1>1, <1>3, <2>1 DEF Cont
  <2>3. op[l].val \in Pages BY Facts DEF OpType
  <2> QED BY <1>1, <1>2, <2>2, <2>3, CurSets, IdleParts
<1>6. ~SafeFaults BY KeepFacts
<1> QED BY <1>1, <1>2, <1>3, <1>4, <1>5, <1>6, PutEnds

\* An atomic change puts the old PEB before it sets eba_tbl.
LEMMA PutChangedDone ==
    ASSUME EbaAll, NEW l \in LEBs, PutOld(l), op[l].kind = "change"
    PROVE  \E o, p : Done(l, o, p)
<1>1. /\ op[l].at = "put" /\ Put(op[l].old) /\ At(l, "map")
      /\ UNCHANGED <<flash, ebaTbl, sqnum, roMode, want>>
  BY DEF PutOld, PutPeb
<1>2. PICK o : /\ op' = [op EXCEPT ![l] = o] /\ o \in OpType
               /\ Becomes(o, op[l].kind, "map", op[l].new, op[l].old, op[l].val, op[l].sqnum)
  BY <1>1, AtDoes DEF EbaAll
<1>3. /\ o.kind = "change" /\ o.at = "map" /\ o.new = op[l].new /\ o.old = op[l].old
      /\ o.val = op[l].val /\ o.sqnum = op[l].sqnum
  BY <1>2 DEF Becomes
<1>4. HasNew(o) /\ ~HasSqnum(o) /\ HasNew(op[l]) BY <1>1, <1>3 DEF HasNew, HasSqnum
<1>5. op[l].old = ebaTbl[l] /\ op[l].new \in PEBs /\ op[l].new # op[l].old
  BY <1>1, <1>4, Facts, NoneNotPeb DEF OpPebs, OpShape
<1>6. Sets(l, o, ebaTbl[l])
  <2>1. Moves(l, o) BY <1>1, <1>2 DEF Moves
  <2> QED BY <2>1, MovesSets DEF EbaAll
<1>7. OpShape(o) /\ OpPebs(o, ebaTbl[l])
  BY <1>3, <1>4, <1>5, Facts, OldHeld, NoneNotPeb, <1>1 DEF OpShape, OpPebs
<1>8. Kept(o, ebaTbl[l]) = {op[l].new} BY <1>3, <1>5, <1>7 DEF Kept
<1>9. op[l].new \in Holds(l) BY <1>5 DEF Holds
<1>10. StOk(l, o, ebaTbl[l])
  <2>1. op[l].old \in Holds(l) BY <1>1, OldHeld
  <2> QED BY <1>1, <1>3, <1>5, <1>8, <1>9, <2>1, StPut
<1>11. LebRule(flash', l, o, ebaTbl[l])
  <2>1. LebRule(flash, l, op[l], ebaTbl[l]) BY Facts
  <2>2. LebRule(flash, l, o, ebaTbl[l]) BY <1>1, <1>3, <1>4, <2>1 DEF LebRule
  <2> QED BY <1>1, <2>2 DEF LebRule
<1>12. CurStep(l, o, ebaTbl[l])
  <2>1. Between(o) BY <1>3 DEF Between
  <2> QED BY <1>1, <1>3, <2>1, CurSame
<1>13. HeadsStay BY <1>1, <1>10, HeadsSame
<1>14. sqnum \in 0 .. MaxSq /\ sqnum <= sqnum /\ sqnum \in Int /\ roMode \in BOOLEAN BY Facts, EbaBounds
<1>15. SqStep(l, o) BY <1>1, <1>3, <1>4, <1>13, <1>14 DEF SqStep
<1>16. ASSUME SafeFaults
       PROVE  ~roMode /\ flash[o.new].ec /\ KeepRule(flash', st', l, o, ebaTbl[l])
  <2>1. KeepRule(flash, st, l, op[l], ebaTbl[l]) /\ ~roMode /\ flash[op[l].new].ec
    BY <1>16, <1>4, KeepFacts
  <2> HIDE DEF Good
  <2> QED BY <2>1, <1>1, <1>3, <1>4 DEF KeepRule
<1>17. Done(l, o, ebaTbl[l])
  BY <1>1, <1>3, <1>6, <1>7, <1>10, <1>11, <1>12, <1>14, <1>15, <1>16 DEF Done, FlOk
<1> QED BY <1>17

\* A free PEB is erased and nobody keeps it.
LEMMA FreeIs ==
    ASSUME EbaAll, NEW q \in PEBs, st[q] = "free", NEW l \in LEBs
    PROVE  /\ flash[q] = Erased /\ flash[q].vid = NoVid /\ flash[q].data = <<>> /\ flash[q].ec
           /\ flash[q].vid.lnum \notin LEBs /\ q \notin Holds(l)
<1>1. flash[q] = Erased BY DEF EbaAll, FlashInv
<1>2. NoVid.lnum \notin LEBs BY NoneNotLeb DEF NoVid
<1>3. q \notin Holds(l) BY Facts
<1> QED BY <1>1, <1>2, <1>3, FlashFacts

\* The PEB a LEB is mapped to is one of its own.
LEMMA TableHeld ==
    ASSUME EbaAll, NEW l \in LEBs, ebaTbl[l] # None, ~Stale(l)
    PROVE  /\ ebaTbl[l] \in Holds(l) /\ ebaTbl[l] \in PEBs /\ st[ebaTbl[l]] = "held"
           /\ flash[ebaTbl[l]].vid \notin {NoVid, TornVid} /\ flash[ebaTbl[l]].vid.lnum = l
<1>1. ebaTbl[l] \in PEBs BY Facts
<1>2. ebaTbl[l] \in Holds(l) BY <1>1 DEF Holds
<1>3. LebRule(flash, l, op[l], ebaTbl[l]) /\ st[ebaTbl[l]] = "held" BY <1>2, Facts
<1> QED BY <1>1, <1>2, <1>3 DEF LebRule, Stale

\* eba_tbl is set to the copy the wear-leveling worker made.
LEMMA MapMovedDone ==
    ASSUME EbaAll, NEW l \in LEBs, MapNew(l), op[l].kind = "move"
    PROVE  \E o, p : Done(l, o, p)
<1> DEFINE n == op[l].new
<1>1. /\ op[l].at = "map" /\ ebaTbl' = [ebaTbl EXCEPT ![l] = n]
      /\ Move(op[l].old, n) /\ ReturnOk(l, want[l])
      /\ UNCHANGED <<flash, sqnum, roMode>>
  BY DEF MapNew
<1>2. HasNew(op[l]) /\ n \in PEBs /\ n # None /\ n # op[l].old
  BY <1>1, Facts, NoneNotPeb DEF OpShape, OpPebs, HasNew
<1>3. op[l].old = ebaTbl[l] /\ op[l].old # None /\ op[l].old \in PEBs
  <2>1. op[l].old = ebaTbl[l] /\ op[l].old # None BY Facts DEF OpPebs
  <2> QED BY <2>1, Facts
<1>4. Sets(l, Idle, n)
  <2>1. op' = [op EXCEPT ![l] = Idle] BY <1>1 DEF ReturnOk
  <2> QED BY <1>1, <1>2, <2>1, TypeOfIdle DEF Sets
<1>5. StOk(l, Idle, n) BY <1>1, <1>2, <1>3, StMove
<1>6. /\ flash[n].vid \notin {NoVid, TornVid} /\ flash[n].vid.lnum = l
      /\ flash[n].data = op[l].val
  BY <1>1, <1>2, Facts DEF LebRule
<1>7. LebRule(flash', l, Idle, n) BY <1>1, <1>6, IdleParts DEF LebRule
<1>8. CurStep(l, Idle, n)
  <2>1. (roMode /\ "last_try" \in Faults) \/ Cont(flash, ebaTbl[l]) = want[l]
    BY CurFacts DEF Between
  <2>2. op[l].val = Cont(flash, ebaTbl[l]) BY CurFacts
  <2>3. Cont(flash', n) = op[l].val BY <1>1, <1>2, <1>6 DEF Cont
  <2>4. want[l] \in Pages \cup {Unmapped} /\ want' = [want EXCEPT ![l] = want[l]]
    BY <1>1, Facts DEF ReturnOk
  <2> DEFINE v == want[l]
  <2>5. v \in Pages \cup {Unmapped} /\ want' = [want EXCEPT ![l] = v]
        /\ ((roMode /\ "last_try" \in Faults) \/ Cont(flash', n) = v)
    BY <2>1, <2>2, <2>3, <2>4
  <2> HIDE DEF v, n
  <2> QED BY <1>1, <2>5, CurSets, IdleParts
<1>9. ASSUME SafeFaults PROVE ~roMode /\ KeepRule(flash', st', l, Idle, n)
  <2>1. KeepRule(flash, st, l, op[l], ebaTbl[l]) /\ ~roMode BY <1>9, KeepFacts
  <2>2. flash[n].vid.sum = op[l].val BY <1>1, <1>2, <2>1 DEF KeepRule
  <2>3. Good(flash, n)
    <3>1. op[l].val \in Pages BY Facts DEF OpType
    <3> QED BY <2>2, <3>1, <1>6, GoodCopy
  <2>4. \A q \in PEBs \ {n} :
          flash[q].ec /\ st[q] # "bad" /\ flash[q].vid \notin {NoVid, TornVid} /\ flash[q].vid.lnum = l
            => flash[q].vid.sqnum < flash[n].vid.sqnum
    BY <1>1, <1>2, NewHighest
  <2>5. \A q \in PEBs : st'[q] # "bad" => st[q] # "bad" BY <1>5 DEF StOk
  <2> HIDE DEF Good, n
  <2> QED BY <1>1, <2>1, <2>3, <2>4, <2>5, IdleParts DEF KeepRule
<1>10. sqnum \in 0 .. MaxSq /\ sqnum <= sqnum /\ sqnum \in Int /\ roMode \in BOOLEAN BY Facts, EbaBounds
<1>11. HeadsStay BY <1>1, <1>5, HeadsSame
<1> HIDE DEF n
<1>12. SqStep(l, Idle) BY <1>1, <1>10, <1>11, IdleParts DEF SqStep
<1>13. Done(l, Idle, n)
  BY <1>1, <1>4, <1>5, <1>7, <1>8, <1>9, <1>10, <1>12, IdleParts DEF Done, FlOk
<1> QED BY <1>13

\* A move copies to the PEB selected for it.
LEMMA StartMoveDone ==
    ASSUME EbaAll, MoveInv, NEW l \in LEBs, StartMove(l)
    PROVE  \E o, p : Done(l, o, p)
<1>1. PICK q \in PEBs, o \in OpType :
              /\ Moves(l, o) /\ Becomes(o, "move", "vid", q, ebaTbl[l], Contents(l), 0)
              /\ op[l] = Idle /\ ~roMode /\ ebaTbl[l] # None
              /\ st[q] = "dirty" /\ flash[q] = Erased
              /\ \A m \in LEBs : op[m].kind # "move"
              /\ UNCHANGED <<st, flash, sqnum, roMode, want>>
  BY StartMoveDoes DEF EbaAll
<1> DEFINE p == ebaTbl[l]
<1>2. Sets(l, o, p) BY <1>1, MovesSets DEF EbaAll
<1>3. /\ o.kind = "move" /\ o.at = "vid" /\ o.new = q /\ o.old = p /\ o.val = Contents(l)
      /\ HasNew(o) /\ ~HasSqnum(o) /\ p # None
  BY <1>1 DEF Becomes, HasNew, HasSqnum
<1>4. ~Stale(l) BY <1>1, IdleParts DEF Stale
<1>5. p \in Holds(l) /\ p \in PEBs /\ flash[p].vid \notin {NoVid, TornVid} /\ flash[p].vid.lnum = l
      /\ st[p] = "held"
  BY <1>1, <1>4, TableHeld
<1>6. flash[q].vid = NoVid /\ flash[q].data = <<>> /\ flash[q].ec /\ q # p
  BY <1>1, <1>5, FlashFacts
<1>c. Contents(l) = Cont(flash, p) BY ContentsType
<1> HIDE DEF p
<1>7. OpShape(o) /\ OpPebs(o, p) BY <1>3, <1>6 DEF OpShape, OpPebs
<1>8. Kept(o, p) \subseteq Holds(l) BY <1>3, <1>5 DEF Kept
<1>9. StOk(l, o, p) BY <1>1, <1>3, <1>8, StTarget
<1>10. LebRule(flash', l, o, p) BY <1>1, <1>3, <1>5, <1>6 DEF LebRule
<1>11. CurStep(l, o, p)
  <2>1. (roMode /\ "last_try" \in Faults) \/ Cont(flash, p) = want[l] BY <1>1, IdleFacts DEF p
  <2>2. Cont(flash', p) = Cont(flash, p) BY <1>1 DEF Cont
  <2>3. o.val = Cont(flash, p) BY <1>c, <1>3
  <2>4. want \in [LEBs -> Pages \cup {Unmapped}] BY Facts
  <2> QED BY <1>1, <2>1, <2>2, <2>3, <2>4 DEF CurStep
<1>12. sqnum \in 0 .. MaxSq /\ sqnum <= sqnum /\ sqnum \in Int /\ roMode \in BOOLEAN BY Facts, EbaBounds
<1>13. HeadsStay BY <1>1, <1>9, HeadsSame
<1>14. SqStep(l, o) BY <1>1, <1>3, <1>12, <1>13 DEF SqStep
<1>15. ASSUME SafeFaults PROVE KeepRule(flash', st', l, o, p)
  <2>1. KeepRule(flash, st, l, op[l], p) BY <1>15, KeepFacts DEF p
  <2>2. op[l].kind = "idle" /\ op[l].new = None /\ ~HasNew(op[l]) BY <1>1, IdleParts
  <2>3. \A r \in PEBs : r # None BY NoneNotPeb
  <2> HIDE DEF Good
  <2> QED BY <1>1, <1>3, <2>1, <2>2, <2>3 DEF KeepRule
<1>16. Done(l, o, p)
  BY <1>1, <1>2, <1>3, <1>6, <1>7, <1>9, <1>10, <1>11, <1>12, <1>14, <1>15 DEF Done, FlOk
<1> QED BY <1>16

\* The PEB ubi_wl_get_peb() returns belongs to nobody else.
LEMMA GetDone ==
    ASSUME EbaAll, NEW l \in LEBs, GetPeb(l)
    PROVE  \E o, p : Done(l, o, p)
<1>1. PICK q \in PEBs, ec \in BOOLEAN, o \in OpType :
              /\ Moves(l, o)
              /\ Becomes(o, op[l].kind, "vid", q, op[l].old, op[l].val, op[l].sqnum)
              /\ op[l].at = "get" /\ Get(q) /\ (~ec => "ec_header" \in Faults)
              /\ flash' = [flash EXCEPT ![q] = [Erased EXCEPT !.ec = ec]]
              /\ UNCHANGED <<sqnum, roMode, want>>
  BY GetDoes DEF EbaAll
<1> DEFINE p == ebaTbl[l]
           x == [Erased EXCEPT !.ec = ec]
<1>2. Sets(l, o, p) BY <1>1, MovesSets DEF EbaAll
<1>3. op[l].kind \in {"write", "change", "recover"}
  <2>1. op[l].kind \in Kinds /\ OpShape(op[l]) BY Facts DEF OpType
  <2> QED BY <1>1, <2>1, IdleParts DEF Kinds, OpShape
<1>4. /\ o.kind = op[l].kind /\ o.at = "vid" /\ o.new = q /\ o.old = op[l].old
      /\ o.sqnum = op[l].sqnum /\ HasNew(o) /\ ~HasNew(op[l]) /\ op[l].new = None
  <2>1. OpShape(op[l]) BY Facts
  <2> QED BY <1>1, <1>3, <2>1 DEF Becomes, HasNew, OpShape
<1>5. ~Stale(l) BY <1>1 DEF Stale
<1>6. p # None => /\ p \in Holds(l) /\ p \in PEBs /\ st[p] = "held"
                  /\ flash[p].vid \notin {NoVid, TornVid} /\ flash[p].vid.lnum = l
  BY <1>5, TableHeld
<1>7. st[q] = "free" /\ flash[q].vid.lnum \notin LEBs /\ flash[q].ec
  BY <1>1, FreeIs DEF Get
<1>8. x \in FlashType /\ x.vid = NoVid /\ x.data = <<>> /\ x.ec = ec /\ x.vid.lnum \notin LEBs
  BY FlashFacts, NoneNotLeb DEF Erased, FlashType, NoVid
<1>9. flash' = [flash EXCEPT ![q] = x] BY <1>1
<1> HIDE DEF x
<1>10. flash'[q] = x /\ \A r \in PEBs \ {q} : flash'[r] = flash[r] BY <1>9, Facts
<1>11. q # p /\ q # op[l].old
  <2>1. op[l].old \in {None, p} BY <1>1, <1>3, Facts DEF OpPebs
  <2> QED BY <1>6, <1>7, <2>1, NoneNotPeb
<1>12. OpShape(o)
  BY <1>3, <1>4 DEF OpShape
<1>13. OpPebs(o, p)
  <2>1. OpPebs(op[l], p) BY Facts
  <2> HIDE DEF p
  <2> QED BY <2>1, <1>1, <1>3, <1>4, <1>11 DEF OpPebs
<1>14. Kept(o, p) \subseteq Holds(l) \cup {q} /\ o.kind # "move"
  <2> HIDE DEF p
  <2> QED BY <1>3, <1>4, <1>6, NoneNotPeb DEF Kept
<1>15. StOk(l, o, p) /\ st' = [st EXCEPT ![q] = "held"] BY <1>1, <1>4, <1>14, StGet
<1>16. st' [q] = "held" /\ \A r \in PEBs \ {q} : st'[r] = st[r] BY <1>15, Facts
<1>17. FlOne(l, q, x)
  <2>1. q \in Mine(l) BY <1>7 DEF Mine
  <2>2. SafeFaults => x.ec BY <1>1, <1>8 DEF SafeFaults
  <2> QED BY <1>7, <1>8, <1>9, <1>16, <2>1, <2>2 DEF FlOne
<1>18. FlOk(l) BY <1>17 DEF FlOk
<1> HIDE DEF p
<1>19. LebRule(flash', l, o, p) BY <1>3, <1>4, <1>6, <1>8, <1>10, <1>11 DEF LebRule
<1>20. CurStep(l, o, p)
  <2>1. (roMode /\ "last_try" \in Faults) \/ Between(op[l]) \/ Cont(flash, p) = want[l]
    BY CurFacts DEF p
  <2>2. Between(op[l]) <=> Between(o) BY <1>1, <1>3, <1>4 DEF Between
  <2>3. Cont(flash', p) = Cont(flash, p) BY <1>6, <1>10, <1>11 DEF Cont
  <2> QED BY <1>1, <1>14, <2>1, <2>2, <2>3, CurSame
<1>21. sqnum \in 0 .. MaxSq /\ sqnum <= sqnum /\ sqnum \in Int /\ roMode \in BOOLEAN BY Facts, EbaBounds
<1>22. HeadsStay BY <1>8, <1>15, <1>17, HeadsOne
<1>23. HasSqnum(o) => HasSqnum(op[l]) BY <1>1, <1>4 DEF HasSqnum
<1>24. SqStep(l, o) BY <1>1, <1>4, <1>21, <1>22, <1>23 DEF SqStep
<1>25. ASSUME SafeFaults
       PROVE  ~roMode /\ o.kind # "recover" /\ flash'[o.new].ec /\ KeepRule(flash', st', l, o, p)
  <2>1. KeepRule(flash, st, l, op[l], p) /\ ~roMode /\ op[l].kind # "recover" BY <1>25, KeepFacts DEF p
  <2>2. \A r \in PEBs : r # None BY NoneNotPeb
  <2>3. flash'[q].ec BY <1>1, <1>8, <1>10, <1>25 DEF SafeFaults
  <2>4. o.val = op[l].val BY <1>1 DEF Becomes
  <2>5. KeepRule(flash', st', l, o, p)
    <3>1. ASSUME p # None,
                 NEW r \in PEBs \ {p, o.new}, flash'[r].ec, st'[r] # "bad",
                 flash'[r].vid \notin {NoVid, TornVid}, flash'[r].vid.lnum = l
          PROVE  IF flash'[r].vid.sqnum < flash'[p].vid.sqnum THEN Good(flash', p)
                 ELSE Good(flash', r) => o.kind = "change" /\ st'[r] = "dirty" /\ flash'[r].data = o.val
      <4>1. r # q /\ flash'[r] = flash[r] /\ st'[r] = st[r] /\ flash'[p] = flash[p]
        BY <3>1, <1>4, <1>6, <1>10, <1>11, <1>16
      <4>2. (Good(flash', p) <=> Good(flash, p)) /\ (Good(flash', r) <=> Good(flash, r))
        BY <4>1 DEF Good, CrcOk
      <4>3. IF flash[r].vid.sqnum < flash[p].vid.sqnum THEN Good(flash, p)
            ELSE Good(flash, r) => op[l].kind = "change" /\ st[r] = "dirty" /\ flash[r].data = op[l].val
        BY <2>1, <2>2, <3>1, <4>1, <1>1, <1>4 DEF KeepRule
      <4> QED BY <4>1, <4>2, <4>3, <1>4, <2>4
    <3> QED BY <3>1, <1>4 DEF KeepRule
  <2> QED BY <1>4, <2>1, <2>3, <2>5
<1>26. Done(l, o, p)
  BY <1>1, <1>2, <1>4, <1>12, <1>13, <1>15, <1>18, <1>19, <1>20, <1>21, <1>24, <1>25 DEF Done
<1> QED BY <1>26

(***************************************************************************)
(* Writes to the new PEB, complete and interrupted.                        *)
(***************************************************************************)
\* What is known of the new PEB of an operation.
LEMMA NewFacts ==
    ASSUME EbaAll, NEW l \in LEBs, HasNew(op[l])
    PROVE  /\ op[l].new \in PEBs /\ op[l].new \in Mine(l)
           /\ flash[op[l].new].vid.lnum \notin LEBs \ {l}
           /\ op[l].at \in {"vid", "data"} => op[l].new # ebaTbl[l] /\ flash[op[l].new].data = <<>>
           /\ op[l].at = "vid" => flash[op[l].new].vid = NoVid
           /\ op[l].at # "vid" => /\ flash[op[l].new].vid \notin {NoVid, TornVid}
                                  /\ flash[op[l].new].vid.lnum = l
           /\ st[op[l].new] # "free"
           /\ op[l].kind # "move" => op[l].new \in Holds(l) /\ st[op[l].new] = "held"
<1>1. op[l].new \in PEBs BY Facts DEF OpShape
<1>2. op[l].new \in Mine(l) BY <1>1 DEF Mine, Uses
<1>3. LebRule(flash, l, op[l], ebaTbl[l]) BY Facts
<1>4. flash[op[l].new].vid.lnum \notin LEBs \ {l} BY <1>3, NoneNotLeb DEF LebRule, NoVid
<1>5. op[l].at \in {"vid", "data"} => op[l].new # ebaTbl[l]
  <2>1. OpPebs(op[l], ebaTbl[l]) BY Facts
  <2> QED BY <1>1, <2>1, NoneNotPeb DEF OpPebs, HasNew
<1>6. op[l].kind # "move" => op[l].new \in Holds(l) /\ st[op[l].new] = "held"
  <2>1. op[l].kind # "move" => op[l].new \in Holds(l) BY <1>1 DEF Holds
  <2> QED BY <2>1, Facts
<1>7. st[op[l].new] # "free" BY <1>6, Facts
<1> QED BY <1>1, <1>2, <1>3, <1>4, <1>5, <1>6, <1>7 DEF LebRule

\* What an interrupted write leaves fits on the PEB.
LEMMA InterruptedPages ==
    ASSUME NEW s \in Pages, NEW t \in Interrupted(s)
    PROVE  /\ t \in Pages /\ Len(t) \in Nat /\ Len(s) \in Nat /\ Len(t) <= Len(s)
           /\ t \in Seq(Cells) /\ s \in Seq(Cells) /\ Len(s) <= MaxPages
<1>1. s \in Seq(Cells) /\ Len(s) <= MaxPages BY PagesAre
<1>2. t \in Seq(Cells) /\ Len(t) <= Len(s) BY <1>1, InterruptedIs
<1>3. Len(t) <= MaxPages BY <1>1, <1>2, EbaBounds
<1> QED BY <1>1, <1>2, <1>3, PagesAre

\* What may be left of a write to the new PEB.
LEMMA LeftoverNew ==
    ASSUME EbaAll, NEW l \in LEBs, HasNew(op[l]), NEW x \in Leftovers(l)
    PROVE  /\ x \in FlashType /\ x.ec = flash[op[l].new].ec
           /\ op[l].at \in {"vid", "data"}
           /\ op[l].at = "data" => x.vid = flash[op[l].new].vid /\ x.data \in Interrupted(op[l].val)
           /\ op[l].at = "vid" => x.vid \in {NoVid, TornVid} /\ x.data = <<>>
<1> DEFINE r == flash[op[l].new]
<1>1. op[l].kind # "append" /\ op[l].new # None BY NewFacts, NoneNotPeb DEF HasNew
<1>2. r \in FlashType BY NewFacts, Facts
<1>3. op[l].val \in Pages BY Facts DEF OpType
<1>4. op[l].at \in {"vid", "data"} BY <1>1 DEF Leftovers
<1>5. CASE op[l].at = "data"
  <2>1. PICK t \in Interrupted(op[l].val) : x = [r EXCEPT !.data = t] BY <1>1, <1>5 DEF Leftovers
  <2>2. t \in Pages BY <1>3, InterruptedPages
  <2> HIDE DEF r
  <2>3. x \in FlashType /\ x.ec = r.ec /\ x.vid = r.vid /\ x.data = t
    BY <1>2, <2>1, <2>2 DEF FlashType
  <2> QED BY <1>4, <1>5, <2>3 DEF r
<1>6. CASE op[l].at = "vid"
  <2>1. x \in {r, [r EXCEPT !.vid = TornVid]} BY <1>1, <1>6 DEF Leftovers
  <2>2. r.vid = NoVid /\ r.data = <<>> BY <1>6, NewFacts
  <2> HIDE DEF r
  <2>3. x \in FlashType /\ x.ec = r.ec /\ x.vid \in {NoVid, TornVid} /\ x.data = <<>>
    BY <1>2, <2>1, <2>2, VidFacts DEF FlashType
  <2> QED BY <1>4, <1>6, <2>3 DEF r
<1> QED BY <1>4, <1>5, <1>6

\* It is one write, and adds no header.
LEMMA LeftoverWrite ==
    ASSUME EbaAll, NEW l \in LEBs, HasNew(op[l]), NEW x \in Leftovers(l),
           flash' = [flash EXCEPT ![op[l].new] = x], st'[op[l].new] # "free",
           NEW o, NEW p, StOk(l, o, p)
    PROVE  /\ FlOk(l) /\ HeadsStay
           /\ flash'[op[l].new] = x /\ \A r \in PEBs \ {op[l].new} : flash'[r] = flash[r]
<1> DEFINE n == op[l].new
<1>1. n \in PEBs /\ n \in Mine(l) /\ flash[n].vid.lnum \notin LEBs \ {l} BY NewFacts
<1>2. /\ x \in FlashType /\ x.ec = flash[n].ec
      /\ op[l].at \in {"vid", "data"}
      /\ op[l].at = "data" => x.vid = flash[n].vid
      /\ op[l].at = "vid" => x.vid \in {NoVid, TornVid} /\ x.data = <<>>
  BY LeftoverNew
<1>3. NoVid.lnum \notin LEBs /\ TornVid.lnum \notin LEBs BY NoneNotLeb DEF NoVid, TornVid
<1>4. op[l].at = "data" => flash[n].vid \notin {NoVid, TornVid} BY NewFacts
<1>5. flash' = [flash EXCEPT ![n] = x] /\ st'[n] # "free" OBVIOUS
<1> HIDE DEF n
<1>6. FlOne(l, n, x) BY <1>1, <1>2, <1>3, <1>4, <1>5 DEF FlOne
<1>7. HeadsStay BY <1>2, <1>6, HeadsOne
<1>8. flash'[n] = x /\ \A r \in PEBs \ {n} : flash'[r] = flash[r] BY <1>1, <1>5, Facts
<1> QED BY <1>6, <1>7, <1>8 DEF FlOk, n

\* A write to the new PEB fails and ends the call.
LEMMA WriteEnds ==
    ASSUME EbaAll, NEW l \in LEBs, op' = [op EXCEPT ![l] = Idle], UNCHANGED <<ebaTbl, sqnum>>,
           HasNew(op[l]), NEW x \in Leftovers(l),
           flash' = [flash EXCEPT ![op[l].new] = x],
           UNCHANGED st \/ (Put(op[l].new) /\ op[l].kind # "move"),
           CurStep(l, Idle, ebaTbl[l]), roMode' \in BOOLEAN,
           SafeFaults => ~roMode' /\ KeepRule(flash', st', l, Idle, ebaTbl[l])
    PROVE  \E o, p : Done(l, o, p)
<1>1. op[l].at \in {"vid", "data"} BY LeftoverNew
<1>2. ~Stale(l) BY <1>1 DEF Stale
<1>3. /\ op[l].new \in PEBs /\ op[l].new # ebaTbl[l] /\ st[op[l].new] # "free"
      /\ op[l].kind # "move" => op[l].new \in Holds(l)
  BY <1>1, NewFacts
<1>4. Kept(Idle, ebaTbl[l]) \subseteq Holds(l) BY <1>2, IdleParts DEF Holds
<1>5. StOk(l, Idle, ebaTbl[l]) /\ st'[op[l].new] # "free"
  <2>1. CASE UNCHANGED st BY <2>1, <1>3, <1>4, StSame, IdleParts
  <2>2. CASE Put(op[l].new) /\ op[l].kind # "move"
    <3>1. op[l].new \notin Kept(Idle, ebaTbl[l]) BY <1>3, IdleParts
    <3>2. StOk(l, Idle, ebaTbl[l]) /\ st' = [st EXCEPT ![op[l].new] = "dirty"]
      BY <2>2, <1>3, <1>4, <3>1, StPut, IdleParts
    <3> QED BY <3>2, <1>3, Facts
  <2> QED BY <2>1, <2>2
<1>6. FlOk(l) /\ HeadsStay /\ \A r \in PEBs \ {op[l].new} : flash'[r] = flash[r]
  BY <1>5, LeftoverWrite
<1>7. LebRule(flash', l, Idle, ebaTbl[l])
  <2>1. ebaTbl[l] # None =>
           flash[ebaTbl[l]].vid \notin {NoVid, TornVid} /\ flash[ebaTbl[l]].vid.lnum = l /\ ebaTbl[l] \in PEBs
    BY <1>2, TableHeld
  <2> QED BY <2>1, <1>3, <1>6, IdleParts DEF LebRule
<1>8. Ends(l) BY <1>2, <1>5, <1>6, <1>7 DEF Ends
<1> QED BY <1>8, EndsDone

\* The PEB the LEB is mapped to is not the one that is written.
LEMMA ContKept ==
    ASSUME EbaAll, NEW l \in LEBs, HasNew(op[l]), op[l].at \in {"vid", "data"},
           NEW x, flash' = [flash EXCEPT ![op[l].new] = x]
    PROVE  Cont(flash', ebaTbl[l]) = Contents(l)
<1>1. op[l].new # ebaTbl[l] BY NewFacts
<1>2. ebaTbl[l] # None => ebaTbl[l] \in PEBs BY Facts
<1>3. ebaTbl[l] # None => flash'[ebaTbl[l]] = flash[ebaTbl[l]] BY <1>1, <1>2, Facts
<1>4. Cont(flash', ebaTbl[l]) = Cont(flash, ebaTbl[l]) BY <1>3 DEF Cont
<1> QED BY <1>4, ContentsType

\* Too many tries: the device becomes read-only.
LEMMA GiveUpDone ==
    ASSUME EbaAll, NEW l \in LEBs, GiveUp(l)
    PROVE  \E o, p : Done(l, o, p)
<1>1. /\ op[l].at \in {"vid", "data"} /\ op[l].kind \in {"write", "change", "recover"}
      /\ UNCHANGED <<ebaTbl, sqnum>> /\ roMode' = TRUE
  BY DEF GiveUp, Writing
<1>2. HasNew(op[l]) BY <1>1 DEF HasNew
<1>3. PICK x \in Leftovers(l) : flash' = [flash EXCEPT ![op[l].new] = x] BY DEF GiveUp
<1>4. \/ /\ "last_try" \in Faults /\ Put(op[l].new)
         /\ IF op[l].kind = "recover" THEN ReturnErr(l) ELSE ReturnOk(l, op[l].val)
      \/ "put_nomem" \in Faults /\ ReturnErr(l) /\ UNCHANGED st
  BY DEF GiveUp, PutPeb
<1>5. op' = [op EXCEPT ![l] = Idle] BY <1>4 DEF ReturnErr, ReturnOk
<1>6. ~SafeFaults BY <1>4 DEF SafeFaults
<1>7. CurStep(l, Idle, ebaTbl[l])
  <2> DEFINE v == IF ReturnErr(l) THEN Contents(l) ELSE op[l].val
  <2>1. want' = [want EXCEPT ![l] = v] BY <1>4 DEF ReturnErr, ReturnOk
  <2>2. v \in Pages \cup {Unmapped} BY ContentsType, Facts DEF OpType
  <2>3. (roMode' /\ "last_try" \in Faults) \/ Cont(flash', ebaTbl[l]) = v
    BY <1>1, <1>2, <1>3, <1>4, ContKept
  <2> HIDE DEF v
  <2> QED BY <1>1, <2>1, <2>2, <2>3, CurSets, IdleParts
<1> QED BY <1>1, <1>2, <1>3, <1>4, <1>5, <1>6, <1>7, WriteEnds

\* Another error on a new PEB: the device becomes read-only.
LEMMA NewFatalDone ==
    ASSUME EbaAll, NEW l \in LEBs, WriteFatal(l), op[l].kind \notin {"recover", "append"}
    PROVE  \E o, p : Done(l, o, p)
<1>1. /\ op[l].at \in {"vid", "data"} /\ "fatal" \in Faults /\ UNCHANGED st
      /\ op' = [op EXCEPT ![l] = Idle] /\ roMode' = TRUE
      /\ UNCHANGED <<ebaTbl, sqnum>>
  BY DEF WriteFatal, Writing
<1>2. HasNew(op[l])
  <2>1. op[l].kind \in Kinds /\ OpShape(op[l]) BY Facts DEF OpType
  <2> QED BY <1>1, <2>1, IdleParts DEF Kinds, OpShape, HasNew
<1>3. PICK x \in Leftovers(l) : flash' = [flash EXCEPT ![op[l].new] = x] BY DEF WriteFatal, Target
<1>4. CurStep(l, Idle, ebaTbl[l])
  <2> DEFINE v == Contents(l)
  <2>1. Cont(flash', ebaTbl[l]) = v BY <1>1, <1>2, <1>3, ContKept
  <2>2. want' = [want EXCEPT ![l] = v]
    <3>1. want' = [want EXCEPT ![l] = Cont(flash', ebaTbl[l])] BY <1>1 DEF WriteFatal, Cont
    <3> QED BY <2>1, <3>1
  <2>3. v \in Pages \cup {Unmapped} BY ContentsType
  <2> HIDE DEF v
  <2> QED BY <1>1, <2>1, <2>2, <2>3, CurSets, IdleParts
<1>5. ~SafeFaults BY <1>1 DEF SafeFaults
<1> QED BY <1>1, <1>2, <1>3, <1>4, <1>5, WriteEnds

\* An interrupted write of all of s has written s.
LEMMA GoodLeftover ==
    ASSUME NEW s \in Pages, NEW f, NEW q, f[q].vid.sum = s, f[q].data \in Interrupted(s), Good(f, q)
    PROVE  f[q].data = s
<1> DEFINE d == f[q].data
<1>1. d \in Seq(Cells) /\ s \in Seq(Cells) /\ Len(d) \in Nat /\ Len(s) \in Nat /\ Len(d) <= Len(s)
  BY InterruptedPages
<1>2. CASE s = <<>>
  <2>1. Len(d) = 0 BY <1>1, <1>2
  <2> QED BY <1>1, <1>2, <2>1
<1>3. CASE CrcOk(f, q)
  <2>1. Len(s) <= Len(d) /\ SubSeq(d, 1, Len(s)) = s BY <1>3 DEF CrcOk
  <2>2. Len(s) = Len(d) BY <1>1, <2>1
  <2>3. SubSeq(d, 1, Len(d)) = d BY <1>1, SubSeqAll
  <2> HIDE DEF d
  <2>4. d = s BY <2>1, <2>2, <2>3
  <2> QED BY <2>4 DEF d
<1> QED BY <1>2, <1>3 DEF Good

\* An operation goes on; what the LEB contains is as before.
LEMMA CurGoesOn ==
    ASSUME EbaAll, NEW l \in LEBs, NEW o, o.kind = op[l].kind, o.val = op[l].val,
           Between(op[l]) => Between(o), Cont(flash', ebaTbl[l]) = Contents(l),
           UNCHANGED want, roMode => roMode'
    PROVE  CurStep(l, o, ebaTbl[l])
<1>1. Contents(l) = Cont(flash, ebaTbl[l]) BY ContentsType
<1> DEFINE c == Cont(flash, ebaTbl[l])
<1>2. /\ (roMode /\ "last_try" \in Faults) \/ Between(op[l]) \/ c = want[l]
      /\ op[l].kind = "move" => op[l].val = c
  BY CurFacts
<1>3. Cont(flash', ebaTbl[l]) = c BY <1>1
<1>4. want \in [LEBs -> Pages \cup {Unmapped}] BY Facts
<1> HIDE DEF c
<1> QED BY <1>2, <1>3, <1>4 DEF CurStep

\* What a power cut would find after a write to the new PEB failed.
LEMMA KeepLeftover ==
    ASSUME EbaAll, SafeFaults, NEW l \in LEBs, HasNew(op[l]), NEW x \in Leftovers(l),
           flash' = [flash EXCEPT ![op[l].new] = x], st' \in [PEBs -> Status],
           \A r \in PEBs \ {op[l].new} : st'[r] = st[r],
           NEW o, ~HasNew(o), o.new = None,
           op[l].kind = "change" => o.kind = "change" /\ o.val = op[l].val,
           op[l].at = "data" /\ x.data = op[l].val /\ ebaTbl[l] # None =>
               o.kind = "change" /\ o.val = op[l].val /\ st'[op[l].new] = "dirty"
    PROVE  KeepRule(flash', st', l, o, ebaTbl[l])
<1> DEFINE n == op[l].new
           p == ebaTbl[l]
<1>1. KeepRule(flash, st, l, op[l], p) /\ flash[n].ec BY KeepFacts
<1>2. /\ op[l].at \in {"vid", "data"}
      /\ op[l].at = "data" => x.vid = flash[n].vid /\ x.data \in Interrupted(op[l].val)
      /\ op[l].at = "vid" => x.vid \in {NoVid, TornVid}
  BY LeftoverNew
<1>3. n \in PEBs /\ n # p BY <1>2, NewFacts
<1>4. flash'[n] = x /\ \A r \in PEBs \ {n} : flash'[r] = flash[r] BY <1>3, Facts
<1>5. ~Stale(l) BY <1>2 DEF Stale
<1>6. p # None => /\ p \in PEBs /\ st[p] = "held"
                  /\ flash[p].vid \notin {NoVid, TornVid} /\ flash[p].vid.lnum = l /\ flash[p].ec
  BY <1>5, TableHeld, KeepFacts
<1>7. ~(op[l].kind = "change" /\ op[l].at = "map") BY <1>2
<1>8. op[l].at = "data" /\ p # None => flash[p].vid.sqnum < flash[n].vid.sqnum
  BY <1>3, <1>6, NewHighest
<1>9. op[l].at = "data" /\ p # None => flash[n].vid.sum = op[l].val
  <2>1. op[l].kind = "write" => p = None BY Facts DEF OpPebs
  <2> QED BY <1>1, <2>1 DEF KeepRule
<1>10. op[l].val \in Pages BY Facts DEF OpType
<1>11. ASSUME op[l].at = "data", p # None, Good(flash', n) PROVE x.data = op[l].val
  <2>1. flash'[n].vid.sum = op[l].val /\ flash'[n].data \in Interrupted(op[l].val)
    BY <1>2, <1>4, <1>9, <1>11
  <2> DEFINE f == flash'
  <2>2. f[n].vid.sum = op[l].val /\ f[n].data \in Interrupted(op[l].val) /\ Good(f, n)
    BY <2>1, <1>11
  <2> HIDE DEF f, n
  <2>3. f[n].data = op[l].val BY <1>10, <2>2, GoodLeftover
  <2> QED BY <2>3, <1>4 DEF f
<1>12. \A r \in PEBs : r # None BY NoneNotPeb
<1>13. (flash[p].vid.sqnum \in Int /\ flash[n].vid.sqnum \in Int) \/ op[l].at # "data" \/ p = None
  <2>1. op[l].at = "data" => IsUsed(flash, n) BY <1>1, <1>3, NewFacts, Facts DEF IsUsed, EbaAll, KeepInv
  <2>2. ASSUME op[l].at = "data", p # None PROVE flash[p].vid.sqnum \in Int /\ flash[n].vid.sqnum \in Int
    <3>1. IsUsed(flash, p) BY <1>6, <2>2 DEF IsUsed
    <3>2. op[l].sqnum \in Int BY UsedTypes DEF EbaAll
    <3>3. LebRule(flash, l, op[l], ebaTbl[l]) BY Facts
    <3>4. flash[n].vid.sqnum = op[l].sqnum BY <2>2, <3>3 DEF LebRule
    <3> QED BY <3>1, <3>2, <3>4, <1>6, <2>2, UsedTypes DEF EbaAll
  <2> QED BY <2>2
<1> HIDE DEF n, p
<1>14. ASSUME p # None, NEW r \in PEBs \ {p, o.new}, flash'[r].ec, st'[r] # "bad",
              flash'[r].vid \notin {NoVid, TornVid}, flash'[r].vid.lnum = l
       PROVE  IF flash'[r].vid.sqnum < flash'[p].vid.sqnum THEN Good(flash', p)
              ELSE Good(flash', r) => o.kind = "change" /\ st'[r] = "dirty" /\ flash'[r].data = o.val
  <2>1. CASE r = n
    <3>1. op[l].at = "data" BY <1>2, <1>4, <1>14, <2>1
    <3>2. flash'[p] = flash[p] BY <1>3, <1>4, <1>6, <1>14
    <3>3. ~(flash'[n].vid.sqnum < flash'[p].vid.sqnum)
      BY <1>2, <1>4, <1>8, <1>13, <1>14, <3>1, <3>2
    <3>4. Good(flash', n) => x.data = op[l].val BY <1>11, <1>14, <3>1
    <3> HIDE DEF Good
    <3>5. Good(flash', n) => o.kind = "change" /\ o.val = op[l].val /\ st'[n] = "dirty"
      BY <1>14, <3>1, <3>4 DEF n, p
    <3> QED BY <2>1, <1>4, <3>3, <3>4, <3>5
  <2>2. CASE r # n
    <3>1. flash'[r] = flash[r] /\ st'[r] = st[r] /\ flash'[p] = flash[p]
      BY <2>2, <1>3, <1>4, <1>6, <1>14 DEF n
    <3>2. (Good(flash', p) <=> Good(flash, p)) /\ (Good(flash', r) <=> Good(flash, r))
      BY <3>1 DEF Good, CrcOk
    <3>3. IF flash[r].vid.sqnum < flash[p].vid.sqnum THEN Good(flash, p)
          ELSE Good(flash, r) => op[l].kind = "change" /\ st[r] = "dirty" /\ flash[r].data = op[l].val
      BY <1>1, <1>7, <1>14, <2>2, <3>1 DEF KeepRule, n
    <3> QED BY <3>1, <3>2, <3>3
  <2> QED BY <2>1, <2>2
<1>15. KeepRule(flash', st', l, o, p) BY <1>14 DEF KeepRule
<1> QED BY <1>15 DEF p

\* The LEB stays where it is when its copy cannot be written.
LEMMA MoveFailsDone ==
    ASSUME EbaAll, NEW l \in LEBs, MoveFails(l)
    PROVE  \E o, p : Done(l, o, p)
<1>1. /\ op[l].at \in {"vid", "data"} /\ ~roMode /\ op[l].kind = "move"
      /\ ReturnOk(l, want[l]) /\ UNCHANGED <<st, ebaTbl, sqnum, roMode>>
  BY DEF MoveFails, Writing
<1>2. HasNew(op[l]) BY <1>1 DEF HasNew
<1>3. PICK x \in Leftovers(l) :
        /\ (IF op[l].at = "data" /\ x.data = op[l].val THEN "copy_readback" ELSE "copy_target") \in Faults
        /\ flash' = [flash EXCEPT ![op[l].new] = x]
  BY DEF MoveFails
<1>4. op' = [op EXCEPT ![l] = Idle] BY <1>1 DEF ReturnOk
<1>5. CurStep(l, Idle, ebaTbl[l])
  <2> DEFINE v == want[l]
  <2>1. want' = [want EXCEPT ![l] = v] BY <1>1 DEF ReturnOk
  <2>2. v \in Pages \cup {Unmapped} BY Facts
  <2>3. Cont(flash', ebaTbl[l]) = Contents(l) BY <1>1, <1>2, <1>3, ContKept
  <2>4. Contents(l) = v BY <1>1, CurFacts, ContentsType DEF Between
  <2> HIDE DEF v
  <2> QED BY <1>1, <2>1, <2>2, <2>3, <2>4, CurSets, IdleParts
<1>6. ASSUME SafeFaults PROVE ~roMode' /\ KeepRule(flash', st', l, Idle, ebaTbl[l])
  <2>1. ~(op[l].at = "data" /\ x.data = op[l].val) BY <1>3, <1>6 DEF SafeFaults
  <2>2. st' \in [PEBs -> Status] /\ \A r \in PEBs \ {op[l].new} : st'[r] = st[r] BY <1>1, Facts
  <2>3. KeepRule(flash', st', l, Idle, ebaTbl[l])
    BY <1>1, <1>2, <1>3, <1>6, <2>1, <2>2, KeepLeftover, IdleParts
  <2> QED BY <1>1, <2>3
<1>7. roMode' \in BOOLEAN BY <1>1, Facts
<1> QED BY <1>1, <1>2, <1>3, <1>4, <1>5, <1>6, <1>7, WriteEnds

\* What a failed try leaves is out-dated by the next try.
LEMMA RetryDone ==
    ASSUME EbaAll, NEW l \in LEBs, RetryWrite(l)
    PROVE  \E o, p : Done(l, o, p)
<1>1. PICK o : /\ Moves(l, o)
               /\ Becomes(o, op[l].kind, "get", None, op[l].old, op[l].val,
                             IF op[l].kind = "recover" THEN op[l].sqnum ELSE sqnum)
               /\ op[l].at \in {"vid", "data"} /\ ~roMode
               /\ op[l].kind \in {"write", "change", "recover"}
               /\ \E x \in Leftovers(l) : flash' = [flash EXCEPT ![op[l].new] = x]
               /\ Put(op[l].new)
               /\ sqnum < MaxSq
               /\ sqnum' = IF op[l].kind = "recover" THEN sqnum ELSE sqnum + 1
               /\ UNCHANGED <<roMode, want>>
  BY RetryDoes DEF EbaAll
<1> DEFINE p == ebaTbl[l]
<1>2. PICK x \in Leftovers(l) : flash' = [flash EXCEPT ![op[l].new] = x] BY <1>1
<1>3. HasNew(op[l]) BY <1>1 DEF HasNew
<1>4. /\ o.kind = op[l].kind /\ o.at = "get" /\ o.new = None /\ o.old = op[l].old /\ o.val = op[l].val
      /\ ~HasNew(o)
  BY <1>1 DEF Becomes, HasNew
<1>5. o.kind # "recover" => o.sqnum = sqnum /\ sqnum' = sqnum + 1 BY <1>1, <1>4 DEF Becomes
<1>6. Sets(l, o, p) BY <1>1, MovesSets DEF EbaAll
<1>7. OpShape(o) BY <1>1, <1>4 DEF OpShape
<1>8. OpPebs(o, p)
  <2>1. OpPebs(op[l], p) BY Facts
  <2> HIDE DEF p
  <2> QED BY <2>1, <1>1, <1>4 DEF OpPebs
<1>9. /\ op[l].new \in PEBs /\ op[l].new # p /\ op[l].new \in Holds(l)
  BY <1>1, <1>3, NewFacts
<1>10. ~Stale(l) BY <1>1 DEF Stale
<1>11. p # None => /\ p \in Holds(l) /\ p \in PEBs
                   /\ flash[p].vid \notin {NoVid, TornVid} /\ flash[p].vid.lnum = l
  BY <1>10, TableHeld
<1> HIDE DEF p
<1>12. Kept(o, p) \subseteq Holds(l) /\ op[l].new \notin Kept(o, p)
  BY <1>4, <1>9, <1>11, NoneNotPeb DEF Kept
<1>13. StOk(l, o, p) /\ st' = [st EXCEPT ![op[l].new] = "dirty"]
  BY <1>1, <1>4, <1>9, <1>12, StPut
<1>14. /\ st'[op[l].new] = "dirty" /\ \A r \in PEBs \ {op[l].new} : st'[r] = st[r]
       /\ st' \in [PEBs -> Status]
  BY <1>9, <1>13, Facts DEF StOk, StatusStep
<1>15. FlOk(l) /\ HeadsStay /\ \A r \in PEBs \ {op[l].new} : flash'[r] = flash[r]
  BY <1>2, <1>3, <1>13, <1>14, LeftoverWrite
<1>16. LebRule(flash', l, o, p) BY <1>1, <1>4, <1>9, <1>11, <1>15 DEF LebRule
<1>17. CurStep(l, o, p)
  <2>1. Between(op[l]) => Between(o) BY <1>1, <1>4 DEF Between
  <2>2. Cont(flash', ebaTbl[l]) = Contents(l) BY <1>1, <1>2, <1>3, ContKept
  <2>3. CurStep(l, o, ebaTbl[l]) BY <1>1, <1>4, <2>1, <2>2, CurGoesOn
  <2> QED BY <2>3 DEF p
<1>18. sqnum' \in 0 .. MaxSq /\ sqnum <= sqnum' /\ sqnum' \in Int /\ roMode \in BOOLEAN
  BY <1>1, Facts, EbaBounds
<1>19. HasSqnum(o) => o.sqnum = sqnum /\ sqnum < sqnum'
  <2>1. sqnum \in Int BY Facts
  <2> QED BY <2>1, <1>5 DEF HasSqnum
<1>20. SqStep(l, o) BY <1>4, <1>15, <1>18, <1>19 DEF SqStep
<1>21. ASSUME SafeFaults PROVE ~roMode /\ o.kind # "recover" /\ KeepRule(flash', st', l, o, p)
  <2>1. ~roMode /\ op[l].kind # "recover" BY <1>21, KeepFacts
  <2>2. op[l].kind = "write" => p = None BY Facts DEF OpPebs, p
  <2>3. KeepRule(flash', st', l, o, ebaTbl[l])
    BY <1>1, <1>2, <1>3, <1>4, <1>14, <1>21, <2>1, <2>2, KeepLeftover DEF p
  <2> QED BY <1>4, <2>1, <2>3 DEF p
<1>22. Done(l, o, p)
  BY <1>1, <1>4, <1>6, <1>7, <1>8, <1>13, <1>15, <1>16, <1>17, <1>18, <1>20, <1>21 DEF Done
<1> QED BY <1>22

\* The header of the new PEB is the newest of its LEB.
LEMMA WriteVidDone ==
    ASSUME EbaAll, NEW l \in LEBs, WriteVid(l)
    PROVE  \E o, p : Done(l, o, p)
<1> DEFINE p == ebaTbl[l]
           n == op[l].new
           s == VidSqnum(op[l])
           sum == VidSum(op[l])
<1>1. PICK o : /\ Moves(l, o)
               /\ Becomes(o, op[l].kind, "data", n, op[l].old, op[l].val, s)
               /\ op[l].at = "vid" /\ ~roMode
               /\ flash' = [flash EXCEPT ![n].vid = Vid(l, s, sum)]
               /\ IF op[l].kind \in {"recover", "move"}
                  THEN sqnum < MaxSq /\ sqnum' = sqnum + 1 ELSE sqnum' = sqnum
               /\ UNCHANGED <<st, roMode, want>>
  BY WriteVidDoes DEF EbaAll
<1>2. op[l].kind \in {"write", "change", "recover", "move"}
  <2>1. op[l].kind \in Kinds /\ OpShape(op[l]) BY Facts DEF OpType
  <2> QED BY <1>1, <2>1, IdleParts DEF Kinds, OpShape
<1>3. HasNew(op[l]) BY <1>1, <1>2 DEF HasNew
<1>4. /\ n \in PEBs /\ n \in Mine(l) /\ flash[n].vid.lnum \notin LEBs \ {l} /\ n # p
      /\ flash[n].vid = NoVid /\ flash[n].data = <<>> /\ st[n] # "free"
      /\ op[l].kind # "move" => n \in Holds(l)
  BY <1>1, <1>3, NewFacts
<1>5. /\ o.kind = op[l].kind /\ o.at = "data" /\ o.new = n /\ o.old = op[l].old /\ o.val = op[l].val
      /\ o.sqnum = s /\ HasNew(o)
  BY <1>1, <1>2 DEF Becomes, HasNew
<1>6. ~Stale(l) BY <1>1 DEF Stale
<1>7. p # None => /\ p \in Holds(l) /\ p \in PEBs
                  /\ flash[p].vid \notin {NoVid, TornVid} /\ flash[p].vid.lnum = l
  BY <1>6, TableHeld
<1>8. op[l].kind = "recover" => op[l].old = p /\ p # None
  <2>1. OpPebs(op[l], p) BY Facts
  <2> HIDE DEF p
  <2> QED BY <2>1, <1>1 DEF OpPebs
<1>9. sum \in Pages
  <2>1. op[l].val \in Pages BY Facts DEF OpType
  <2>2. ASSUME op[l].kind = "recover" PROVE flash[op[l].old].vid.sum \in Pages
    <3>1. flash[p].vid \in VidType \ {NoVid, TornVid} BY <1>7, <1>8, <2>2, Facts DEF FlashType
    <3>2. flash[p].vid \in [lnum : LEBs, sqnum : 0 .. MaxSq, sum : Pages] BY <3>1 DEF VidType
    <3> QED BY <3>2, <1>8, <2>2
  <2> QED BY <1>2, <2>1, <2>2, SmallPages DEF VidSum
<1>10. s \in 0 .. MaxSq BY Facts DEF VidSqnum, OpType
<1> DEFINE x == [flash[n] EXCEPT !.vid = Vid(l, s, sum)]
<1>11. flash' = [flash EXCEPT ![n] = x] BY <1>1, <1>4, Facts
<1>12. op[l].kind # "recover" => sum = IF op[l].kind = "write" THEN <<>> ELSE op[l].val
  BY <1>2 DEF VidSum
<1>13. \/ HasSqnum(op[l]) /\ s = op[l].sqnum /\ op[l].sqnum < sqnum /\ sqnum' = sqnum
       \/ s = sqnum /\ sqnum' = sqnum + 1 /\ sqnum < MaxSq
  <2>1. HasSqnum(op[l]) => op[l].sqnum < sqnum BY DEF EbaAll, SqInv
  <2>2. op[l].kind \in {"write", "change"} => HasSqnum(op[l]) BY <1>1 DEF HasSqnum
  <2> QED BY <1>1, <1>2, <2>1, <2>2 DEF VidSqnum
<1>14. Sets(l, o, p) BY <1>1, MovesSets DEF EbaAll
<1>c. Contents(l) = Cont(flash, p) BY ContentsType
<1> HIDE DEF s, sum
<1>15. /\ x \in FlashType /\ x.vid = Vid(l, s, sum) /\ x.data = <<>> /\ x.ec = flash[n].ec
  <2>1. flash[n] \in FlashType BY <1>4, Facts
  <2>2. Vid(l, s, sum) \in VidType BY <1>9, <1>10, VidFacts
  <2> HIDE DEF n
  <2> QED BY <1>4, <2>1, <2>2 DEF FlashType
<1>16. x.vid \notin {NoVid, TornVid} /\ x.vid.lnum = l /\ x.vid.sqnum = s /\ x.vid.sum = sum
  <2> HIDE DEF x
  <2> QED BY <1>15, VidFacts
<1> HIDE DEF x, n
<1>17. flash'[n] = x /\ \A r \in PEBs \ {n} : flash'[r] = flash[r] BY <1>4, <1>11, Facts
<1>18. FlOne(l, n, x) BY <1>1, <1>4, <1>11, <1>15, <1>16 DEF FlOne
<1>19. OpShape(o) BY <1>2, <1>3, <1>4, <1>5 DEF OpShape
<1>20. OpPebs(o, p)
  <2>1. OpPebs(op[l], p) BY Facts
  <2>2. op[l].new = n BY DEF n
  <2> HIDE DEF p
  <2> QED BY <2>1, <2>2, <1>1, <1>2, <1>5 DEF OpPebs
<1> HIDE DEF p
<1>21. Kept(o, p) \subseteq Holds(l) BY <1>2, <1>4, <1>5, <1>7, NoneNotPeb DEF Kept
<1>22. StOk(l, o, p) BY <1>1, <1>5, <1>21, StSame DEF n
<1>23. LebRule(flash', l, o, p) BY <1>2, <1>4, <1>5, <1>7, <1>15, <1>16, <1>17 DEF LebRule
<1>24. HeadStep(l, o)
  <2>1. sqnum \in Int /\ s \in Int /\ sqnum' \in Int /\ sqnum <= sqnum' /\ s < sqnum'
    BY <1>10, <1>13, Facts
  <2>2. o.new = op[l].new BY <1>5 DEF n
  <2> QED BY <2>1, <2>2, <1>1, <1>4, <1>5, <1>13, <1>16, <1>17 DEF HeadStep
<1>25. CurStep(l, o, p)
  <2>1. Between(op[l]) => Between(o) BY <1>1, <1>5 DEF Between
  <2>2. Cont(flash', p) = Contents(l) BY <1>c, <1>4, <1>7, <1>17 DEF Cont
  <2>3. CurStep(l, o, ebaTbl[l]) BY <1>1, <1>5, <2>1, <2>2, CurGoesOn DEF p
  <2> QED BY <2>3 DEF p
<1>26. sqnum' \in 0 .. MaxSq BY <1>13, Facts, EbaBounds
<1>27. ASSUME SafeFaults
       PROVE  ~roMode /\ o.kind # "recover" /\ flash'[o.new].ec /\ KeepRule(flash', st', l, o, p)
  <2>1. KeepRule(flash, st, l, op[l], p) /\ ~roMode /\ op[l].kind # "recover" /\ flash[n].ec
    BY <1>3, <1>27, KeepFacts DEF p, n
  <2>2. flash'[n].vid.sum = IF op[l].kind = "write" THEN <<>> ELSE op[l].val
    BY <1>12, <1>16, <1>17, <2>1
  <2>3. ASSUME p # None, NEW r \in PEBs \ {p, o.new}, flash'[r].ec, st'[r] # "bad",
              flash'[r].vid \notin {NoVid, TornVid}, flash'[r].vid.lnum = l
       PROVE  IF flash'[r].vid.sqnum < flash'[p].vid.sqnum THEN Good(flash', p)
              ELSE Good(flash', r) => o.kind = "change" /\ st'[r] = "dirty" /\ flash'[r].data = o.val
    <3>1. flash'[r] = flash[r] /\ st'[r] = st[r] /\ flash'[p] = flash[p]
      BY <1>1, <1>4, <1>5, <1>7, <1>17, <2>3
    <3>2. (Good(flash', p) <=> Good(flash, p)) /\ (Good(flash', r) <=> Good(flash, r))
      BY <3>1 DEF Good, CrcOk
    <3>3. op[l].new = n BY DEF n
    <3>4. IF flash[r].vid.sqnum < flash[p].vid.sqnum THEN Good(flash, p)
          ELSE Good(flash, r) => op[l].kind = "change" /\ st[r] = "dirty" /\ flash[r].data = op[l].val
      BY <1>1, <1>5, <2>1, <2>3, <3>1, <3>3 DEF KeepRule
    <3> QED BY <3>1, <3>2, <3>4, <1>5
  <2> QED BY <2>1, <2>2, <2>3, <1>5, <1>15, <1>17 DEF KeepRule
<1>28. FlOk(l) BY <1>18 DEF FlOk
<1>29. roMode' \in BOOLEAN BY <1>1, Facts
<1>30. Done(l, o, p)
  BY <1>1, <1>14, <1>19, <1>20, <1>22, <1>23, <1>24, <1>25, <1>26, <1>27, <1>28, <1>29 DEF Done
<1> QED BY <1>30

\* The copy is complete before eba_tbl leads to it.
LEMMA WriteDataDone ==
    ASSUME EbaAll, NEW l \in LEBs, WriteData(l)
    PROVE  \E o, p : Done(l, o, p)
<1> DEFINE p == ebaTbl[l]
           n == op[l].new
           a == IF op[l].kind = "change" /\ op[l].old # None THEN "put" ELSE "map"
<1>1. PICK o : /\ Moves(l, o)
               /\ Becomes(o, op[l].kind, a, n, op[l].old, op[l].val, op[l].sqnum)
               /\ op[l].at = "data" /\ op[l].kind # "append" /\ ~roMode
               /\ flash' = [flash EXCEPT ![n].data = op[l].val]
               /\ UNCHANGED <<st, sqnum, roMode, want>>
  BY WriteDataDoes DEF EbaAll
<1>2. op[l].kind \in {"write", "change", "recover", "move"}
  <2>1. op[l].kind \in Kinds /\ OpShape(op[l]) BY Facts DEF OpType
  <2> QED BY <1>1, <2>1, IdleParts DEF Kinds, OpShape
<1>3. HasNew(op[l]) BY <1>1, <1>2 DEF HasNew
<1>4. /\ n \in PEBs /\ n \in Mine(l) /\ flash[n].vid.lnum = l /\ n # p
      /\ flash[n].vid \notin {NoVid, TornVid} /\ st[n] # "free"
      /\ op[l].kind # "move" => n \in Holds(l)
  BY <1>1, <1>3, NewFacts
<1>5. /\ o.kind = op[l].kind /\ o.at = a /\ o.new = n /\ o.old = op[l].old /\ o.val = op[l].val
      /\ o.sqnum = op[l].sqnum
  BY <1>1 DEF Becomes
<1>6. o.at \in {"put", "map"} /\ (o.at = "put" <=> op[l].kind = "change" /\ op[l].old # None)
  BY <1>5
<1>7. HasNew(o) /\ ~HasSqnum(o) BY <1>2, <1>5, <1>6 DEF HasNew, HasSqnum
<1>8. ~Stale(l) BY <1>1 DEF Stale
<1>9. p # None => /\ p \in Holds(l) /\ p \in PEBs
                  /\ flash[p].vid \notin {NoVid, TornVid} /\ flash[p].vid.lnum = l
  BY <1>8, TableHeld
<1>10. op[l].kind = "change" => op[l].old = p
  BY Facts DEF OpPebs
<1> DEFINE x == [flash[n] EXCEPT !.data = op[l].val]
<1>11. flash' = [flash EXCEPT ![n] = x] BY <1>1, <1>4, Facts
<1>14. Sets(l, o, p) BY <1>1, MovesSets DEF EbaAll
<1>c. Contents(l) = Cont(flash, p) BY ContentsType
<1>15. /\ x \in FlashType /\ x.vid = flash[n].vid /\ x.data = op[l].val /\ x.ec = flash[n].ec
  <2>1. flash[n] \in FlashType BY <1>4, Facts
  <2>2. op[l].val \in Pages BY Facts DEF OpType
  <2> HIDE DEF n
  <2> QED BY <1>4, <2>1, <2>2 DEF FlashType
<1>s. flash[n].vid.sqnum = op[l].sqnum BY <1>1, <1>3, Facts DEF LebRule
<1> HIDE DEF x, n, a
<1>17. flash'[n] = x /\ \A r \in PEBs \ {n} : flash'[r] = flash[r] BY <1>4, <1>11, Facts
<1>18. FlOne(l, n, x) BY <1>1, <1>4, <1>11, <1>15 DEF FlOne
<1>19. OpShape(o) BY <1>2, <1>4, <1>5, <1>6, <1>7 DEF OpShape
<1>20. OpPebs(o, p)
  <2>1. OpPebs(op[l], p) BY Facts
  <2>2. op[l].new = n BY DEF n
  <2> HIDE DEF p
  <2> QED BY <2>1, <2>2, <1>1, <1>2, <1>5, <1>6 DEF OpPebs
<1> HIDE DEF p
<1>21. Kept(o, p) \subseteq Holds(l) BY <1>2, <1>4, <1>5, <1>6, <1>9, <1>10, NoneNotPeb DEF Kept
<1>22. StOk(l, o, p) BY <1>1, <1>5, <1>21, StSame DEF n
<1>23. LebRule(flash', l, o, p) BY <1>2, <1>s, <1>4, <1>5, <1>6, <1>9, <1>15, <1>17 DEF LebRule
<1>24. HeadsStay BY <1>15, <1>18, <1>22, HeadsOne
<1>25. CurStep(l, o, p)
  <2>1. Between(op[l]) => Between(o) BY <1>1, <1>5 DEF Between
  <2>2. Cont(flash', p) = Contents(l) BY <1>c, <1>4, <1>9, <1>17 DEF Cont
  <2>3. CurStep(l, o, ebaTbl[l]) BY <1>1, <1>5, <2>1, <2>2, CurGoesOn DEF p
  <2> QED BY <2>3 DEF p
<1>26. sqnum \in 0 .. MaxSq /\ sqnum <= sqnum /\ sqnum \in Int /\ roMode \in BOOLEAN BY Facts, EbaBounds
<1>27. SqStep(l, o)
  <2>1. o.new = op[l].new BY <1>5 DEF n
  <2> QED BY <2>1, <1>1, <1>3, <1>5, <1>7, <1>24, <1>26 DEF SqStep
<1>28. ASSUME SafeFaults
       PROVE  ~roMode /\ o.kind # "recover" /\ flash'[o.new].ec /\ KeepRule(flash', st', l, o, p)
  <2>1. KeepRule(flash, st, l, op[l], p) /\ ~roMode /\ op[l].kind # "recover" /\ flash[n].ec
    BY <1>3, <1>28, KeepFacts DEF p, n
  <2>0. op[l].new = n BY DEF n
  <2>2. flash'[n].vid.sum = IF op[l].kind = "write" THEN <<>> ELSE op[l].val
    BY <1>1, <1>3, <1>15, <1>17, <2>0, <2>1 DEF KeepRule
  <2>3. ASSUME p # None, NEW r \in PEBs \ {p, o.new}, flash'[r].ec, st'[r] # "bad",
              flash'[r].vid \notin {NoVid, TornVid}, flash'[r].vid.lnum = l
       PROVE  IF flash'[r].vid.sqnum < flash'[p].vid.sqnum THEN Good(flash', p)
              ELSE Good(flash', r) => o.kind = "change" /\ st'[r] = "dirty" /\ flash'[r].data = o.val
    <3>1. flash'[r] = flash[r] /\ st'[r] = st[r] /\ flash'[p] = flash[p]
      BY <1>1, <1>4, <1>5, <1>9, <1>17, <2>3
    <3>2. (Good(flash', p) <=> Good(flash, p)) /\ (Good(flash', r) <=> Good(flash, r))
      BY <3>1 DEF Good, CrcOk
    <3>4. IF flash[r].vid.sqnum < flash[p].vid.sqnum THEN Good(flash, p)
          ELSE Good(flash, r) => op[l].kind = "change" /\ st[r] = "dirty" /\ flash[r].data = op[l].val
      BY <1>1, <1>5, <2>0, <2>1, <2>3, <3>1 DEF KeepRule
    <3> QED BY <3>1, <3>2, <3>4, <1>5
  <2> QED BY <2>1, <2>2, <2>3, <1>5, <1>15, <1>17 DEF KeepRule
<1>29. FlOk(l) BY <1>18 DEF FlOk
<1>30. Done(l, o, p)
  BY <1>1, <1>14, <1>19, <1>20, <1>22, <1>23, <1>25, <1>26, <1>27, <1>28, <1>29 DEF Done
<1> QED BY <1>30

(***************************************************************************)
(* Writes to the PEB of a mapped LEB.                                      *)
(***************************************************************************)
\* Pages written after others leave those as they are.
LEMMA ConcatPages ==
    ASSUME NEW s \in Pages, NEW t \in Pages, Len(s) + Len(t) <= MaxPages
    PROVE  /\ s \o t \in Pages
           /\ \A n \in 0 .. Len(s) : n <= Len(s \o t) /\ SubSeq(s \o t, 1, n) = SubSeq(s, 1, n)
<1>1. s \in Seq(Cells) /\ t \in Seq(Cells) /\ Len(s) \in Nat /\ Len(t) \in Nat BY PagesAre
<1>2. s \o t \in Seq(Cells) /\ Len(s \o t) = Len(s) + Len(t) BY <1>1
<1>3. s \o t \in Pages BY <1>2, PagesAre
<1>4. \A i \in 1 .. Len(s) : (s \o t)[i] = s[i] BY <1>1
<1>5. ASSUME NEW n \in 0 .. Len(s) PROVE n <= Len(s \o t) /\ SubSeq(s \o t, 1, n) = SubSeq(s, 1, n)
  <2>1. n \in 0 .. Len(s \o t) BY <1>1, <1>2
  <2>2. SubSeq(s, 1, n) \in Seq(Cells) /\ Len(SubSeq(s, 1, n)) = n /\ \A i \in 1 .. n : SubSeq(s, 1, n)[i] = s[i]
    BY <1>1, PrefixIs
  <2> DEFINE u == s \o t
  <2>3. u \in Seq(Cells) /\ n \in 0 .. Len(u) BY <1>2, <2>1
  <2> HIDE DEF u
  <2>4. SubSeq(u, 1, n) \in Seq(Cells) /\ Len(SubSeq(u, 1, n)) = n /\ \A i \in 1 .. n : SubSeq(u, 1, n)[i] = u[i]
    BY <2>3, PrefixIs
  <2>5. \A i \in 1 .. n : u[i] = s[i] BY <1>4, <1>1 DEF u
  <2>6. SubSeq(u, 1, n) = SubSeq(s, 1, n) BY <2>2, <2>4, <2>5
  <2>7. n <= Len(s \o t) BY <1>1, <1>2
  <2> QED BY <2>6, <2>7 DEF u
<1> QED BY <1>3, <1>5

\* What is known of a LEB that is written in place.
LEMMA AppendFacts ==
    ASSUME EbaAll, NEW l \in LEBs, op[l].kind = "append"
    PROVE  /\ op[l].old = ebaTbl[l] /\ ebaTbl[l] # None /\ ebaTbl[l] \in PEBs
           /\ ebaTbl[l] \in Holds(l) /\ ebaTbl[l] \in Mine(l) /\ st[ebaTbl[l]] = "held"
           /\ flash[ebaTbl[l]].vid \notin {NoVid, TornVid} /\ flash[ebaTbl[l]].vid.lnum = l
           /\ flash[ebaTbl[l]].data \in Pages /\ op[l].val \in Pages
           /\ Len(flash[ebaTbl[l]].data) + Len(op[l].val) <= MaxPages
           /\ op[l].at = "data" /\ ~HasNew(op[l]) /\ op[l].new = None /\ ~Stale(l)
<1>1. op[l].old = ebaTbl[l] /\ op[l].old # None BY Facts DEF OpPebs
<1>2. ~HasNew(op[l]) /\ ~Stale(l) BY DEF HasNew, Stale
<1>3. op[l].at = "data" /\ op[l].new = None BY <1>2, Facts DEF OpShape
<1>4. /\ ebaTbl[l] \in PEBs /\ ebaTbl[l] \in Holds(l) /\ st[ebaTbl[l]] = "held"
      /\ flash[ebaTbl[l]].vid \notin {NoVid, TornVid} /\ flash[ebaTbl[l]].vid.lnum = l
  BY <1>1, <1>2, TableHeld
<1>5. ebaTbl[l] \in Mine(l) BY <1>4 DEF Mine, Uses
<1>6. flash[ebaTbl[l]].data \in Pages /\ op[l].val \in Pages BY <1>4, Facts DEF FlashType, OpType
<1>7. Len(flash[ebaTbl[l]].data) + Len(op[l].val) <= MaxPages BY Facts DEF LebRule
<1> QED BY <1>1, <1>2, <1>3, <1>4, <1>5, <1>6, <1>7

\* The data d is added to the PEB.
Appended(l, d, x) ==
    /\ x = [flash[ebaTbl[l]] EXCEPT !.data = flash[ebaTbl[l]].data \o d]
    /\ flash' = [flash EXCEPT ![ebaTbl[l]] = x]
    /\ UNCHANGED st
    /\ d \in Pages /\ Len(d) <= Len(op[l].val)

Resting(o) == o.kind # "move" /\ ~HasNew(o) /\ o.new = None /\ o.at # "put" /\ o.kind # "append"

\* A free lock keeps no PEB.
LEMMA IdleRests == Resting(Idle)
<1> QED BY IdleParts DEF Resting

\* Such a write changes the data of that one PEB only.
LEMMA AppendWrites ==
    ASSUME EbaAll, NEW l \in LEBs, op[l].kind = "append",
           NEW d, NEW x, Appended(l, d, x), NEW o, Resting(o)
    PROVE  /\ StOk(l, o, ebaTbl[l]) /\ FlOk(l) /\ HeadsStay /\ LebRule(flash', l, o, ebaTbl[l])
           /\ x.data = flash[ebaTbl[l]].data \o d /\ x.data \in Pages
           /\ x.vid = flash[ebaTbl[l]].vid /\ x.ec = flash[ebaTbl[l]].ec
           /\ flash'[ebaTbl[l]] = x /\ \A r \in PEBs \ {ebaTbl[l]} : flash'[r] = flash[r]
<1> DEFINE p == ebaTbl[l]
           e == flash[p].data \o d
<1>d. d \in Pages /\ Len(d) <= Len(op[l].val) BY DEF Appended
<1>1. /\ p # None /\ p \in PEBs /\ p \in Holds(l) /\ p \in Mine(l) /\ st[p] = "held"
      /\ flash[p].vid \notin {NoVid, TornVid} /\ flash[p].vid.lnum = l
      /\ flash[p].data \in Pages /\ op[l].val \in Pages
      /\ Len(flash[p].data) + Len(op[l].val) <= MaxPages
  BY AppendFacts
<1>2. flash[p] \in FlashType BY <1>1, Facts
<1>3. e \in Pages
  <2> DEFINE i == Len(flash[p].data)
             j == Len(op[l].val)
             k == Len(d)
  <2>1. i \in Nat /\ j \in Nat /\ k \in Nat BY <1>1, <1>d, PagesAre
  <2>2. i + j <= MaxPages /\ k <= j /\ MaxPages \in Nat BY <1>1, <1>d, EbaBounds
  <2> HIDE DEF i, j, k
  <2>3. i + k <= MaxPages BY <2>1, <2>2
  <2>4. Len(flash[p].data) + Len(d) <= MaxPages BY <2>3 DEF i, k
  <2> QED BY <1>1, <1>d, <2>4, ConcatPages
<1>4. x = [flash[p] EXCEPT !.data = e] BY DEF Appended
<1>f. flash' = [flash EXCEPT ![p] = x] /\ UNCHANGED st BY DEF Appended
<1>r. o.kind # "move" /\ ~HasNew(o) /\ o.new = None /\ o.at # "put" /\ o.kind # "append" BY DEF Resting
<1> HIDE DEF p, e
<1>5. x \in FlashType /\ x.data = e /\ x.vid = flash[p].vid /\ x.ec = flash[p].ec
  BY <1>2, <1>3, <1>4 DEF FlashType
<1>6. StOk(l, o, p)
  <2>1. Kept(o, p) \subseteq Holds(l) BY <1>1, <1>r, NoneNotPeb DEF Kept
  <2> QED BY <2>1, <1>f, <1>r, StSame
<1>7. FlOne(l, p, x) BY <1>1, <1>5, <1>f DEF FlOne
<1>8. HeadsStay BY <1>5, <1>6, <1>7, HeadsOne
<1>9. flash'[p] = x /\ \A r \in PEBs \ {p} : flash'[r] = flash[r] BY <1>1, <1>f, Facts
<1>10. LebRule(flash', l, o, p) BY <1>1, <1>5, <1>9, <1>r DEF LebRule
<1>11. FlOk(l) BY <1>7 DEF FlOk
<1> QED BY <1>3, <1>5, <1>6, <1>8, <1>9, <1>10, <1>11 DEF p, e

\* What may be left of it.
LEMMA LeftoverOld ==
    ASSUME EbaAll, NEW l \in LEBs, op[l].kind = "append", NEW x \in Leftovers(l)
    PROVE  \E t \in Pages : /\ Len(t) <= Len(op[l].val)
                            /\ x = [flash[ebaTbl[l]] EXCEPT !.data = flash[ebaTbl[l]].data \o t]
<1>1. op[l].at = "data" /\ op[l].old = ebaTbl[l] /\ op[l].val \in Pages BY AppendFacts
<1>2. PICK t \in Interrupted(op[l].val) : x = [flash[op[l].old] EXCEPT !.data = @ \o t]
  BY <1>1 DEF Leftovers
<1>3. t \in Pages /\ Len(t) <= Len(op[l].val) BY <1>1, InterruptedPages
<1> QED BY <1>1, <1>2, <1>3

\* It fails and the device becomes read-only.
LEMMA OldFatalDone ==
    ASSUME EbaAll, NEW l \in LEBs, WriteFatal(l), op[l].kind = "append"
    PROVE  \E o, p : Done(l, o, p)
<1>1. /\ "fatal" \in Faults /\ UNCHANGED st
      /\ op' = [op EXCEPT ![l] = Idle] /\ roMode' = TRUE
      /\ UNCHANGED <<ebaTbl, sqnum>>
  BY DEF WriteFatal, Writing
<1>2. op[l].old = ebaTbl[l] /\ ebaTbl[l] # None /\ ~Stale(l) BY AppendFacts
<1>3. PICK x \in Leftovers(l) : flash' = [flash EXCEPT ![ebaTbl[l]] = x]
  BY <1>2 DEF WriteFatal, Target
<1>4. PICK t \in Pages : /\ Len(t) <= Len(op[l].val)
                         /\ x = [flash[ebaTbl[l]] EXCEPT !.data = flash[ebaTbl[l]].data \o t]
  BY LeftoverOld
<1>5. /\ StOk(l, Idle, ebaTbl[l]) /\ FlOk(l) /\ HeadsStay /\ LebRule(flash', l, Idle, ebaTbl[l])
      /\ x.data \in Pages /\ flash'[ebaTbl[l]] = x
  <2>1. Appended(l, t, x) BY <1>1, <1>3, <1>4 DEF Appended
  <2> QED BY <2>1, AppendWrites, IdleRests
<1>6. CurStep(l, Idle, ebaTbl[l])
  <2> DEFINE v == flash'[ebaTbl[l]].data
  <2>1. want' = [want EXCEPT ![l] = v] BY <1>2 DEF WriteFatal
  <2>2. v \in Pages \cup {Unmapped} /\ Cont(flash', ebaTbl[l]) = v BY <1>2, <1>5 DEF Cont
  <2> HIDE DEF v
  <2> QED BY <1>1, <2>1, <2>2, CurSets, IdleParts
<1>7. ~SafeFaults BY <1>1 DEF SafeFaults
<1>8. Ends(l) BY <1>1, <1>2, <1>5, <1>6, <1>7 DEF Ends
<1> QED BY <1>8, EndsDone

\* It fails and the PEB is to be recovered.
LEMMA AppendFailsDone ==
    ASSUME EbaAll, NEW l \in LEBs, AppendFails(l)
    PROVE  \E o, p : Done(l, o, p)
<1>0. op[l].kind = "append" BY DEF AppendFails
<1>1. /\ op[l].old = ebaTbl[l] /\ ebaTbl[l] # None /\ ~Stale(l) /\ op[l].new = None
      /\ flash[ebaTbl[l]].data \in Pages /\ op[l].val \in Pages
      /\ Len(flash[ebaTbl[l]].data) + Len(op[l].val) <= MaxPages
      /\ ebaTbl[l] \in PEBs
  BY <1>0, AppendFacts
<1>2. flash[op[l].old].data \o op[l].val \in Pages BY <1>1, ConcatPages
<1>3. PICK o : /\ Moves(l, o)
               /\ Becomes(o, "recover", "get", op[l].new, op[l].old,
                             flash[op[l].old].data \o op[l].val, op[l].sqnum)
               /\ op[l].at \in {"vid", "data"} /\ ~roMode
               /\ op[l].kind = "append" /\ "append" \in Faults
               /\ \E x \in Leftovers(l) : flash' = [flash EXCEPT ![op[l].old] = x]
               /\ UNCHANGED <<st, sqnum, roMode, want>>
  BY <1>2, AppendFailsDoes DEF EbaAll
<1>4. PICK x \in Leftovers(l) : flash' = [flash EXCEPT ![ebaTbl[l]] = x] BY <1>1, <1>3
<1>5. PICK t \in Pages : /\ Len(t) <= Len(op[l].val)
                         /\ x = [flash[ebaTbl[l]] EXCEPT !.data = flash[ebaTbl[l]].data \o t]
  BY <1>0, LeftoverOld
<1>6. o.kind = "recover" /\ o.at = "get" /\ o.new = None /\ o.old = ebaTbl[l] /\ ~HasNew(o) /\ ~HasSqnum(o)
  BY <1>1, <1>3 DEF Becomes, HasNew, HasSqnum
<1>7. StOk(l, o, ebaTbl[l]) /\ FlOk(l) /\ HeadsStay /\ LebRule(flash', l, o, ebaTbl[l])
  <2>1. Appended(l, t, x) BY <1>3, <1>4, <1>5 DEF Appended
  <2>2. Resting(o) BY <1>6 DEF Resting
  <2> QED BY <1>0, <2>1, <2>2, AppendWrites
<1>8. Sets(l, o, ebaTbl[l]) BY <1>3, MovesSets DEF EbaAll
<1>9. OpShape(o) /\ OpPebs(o, ebaTbl[l]) BY <1>1, <1>6, NoneNotPeb DEF OpShape, OpPebs
<1>10. CurStep(l, o, ebaTbl[l])
  <2>1. Between(o) BY <1>6 DEF Between
  <2> QED BY <1>3, <1>6, <2>1, CurSame
<1>11. sqnum \in 0 .. MaxSq /\ sqnum <= sqnum /\ sqnum \in Int /\ roMode \in BOOLEAN BY Facts, EbaBounds
<1>12. SqStep(l, o) BY <1>3, <1>6, <1>7, <1>11 DEF SqStep
<1>13. ~SafeFaults BY <1>3 DEF SafeFaults
<1>14. Done(l, o, ebaTbl[l])
  BY <1>3, <1>7, <1>8, <1>9, <1>10, <1>11, <1>12, <1>13 DEF Done
<1> QED BY <1>14

\* It succeeds.
LEMMA InPlaceDone ==
    ASSUME EbaAll, NEW l \in LEBs, WriteInPlace(l)
    PROVE  \E o, p : Done(l, o, p)
<1> DEFINE p == ebaTbl[l]
           x == [flash[p] EXCEPT !.data = flash[p].data \o op[l].val]
<1>1. /\ op[l].kind = "append" /\ ~roMode /\ flash' = [flash EXCEPT ![op[l].old].data = @ \o op[l].val]
      /\ ReturnOk(l, want[l] \o op[l].val)
      /\ UNCHANGED <<st, ebaTbl, sqnum, roMode>>
  BY DEF WriteInPlace
<1>2. /\ op[l].old = p /\ p # None /\ p \in PEBs /\ ~Stale(l) /\ op[l].new = None
      /\ flash[p].data \in Pages /\ op[l].val \in Pages
      /\ Len(flash[p].data) + Len(op[l].val) <= MaxPages
  BY <1>1, AppendFacts
<1>3. flash' = [flash EXCEPT ![p] = x] BY <1>1, <1>2, Facts
<1>4. Len(op[l].val) <= Len(op[l].val)
  <2>1. Len(op[l].val) \in Nat BY <1>2, PagesAre
  <2> QED BY <2>1
<1>5. /\ StOk(l, Idle, p) /\ FlOk(l) /\ HeadsStay /\ LebRule(flash', l, Idle, p)
      /\ x.data = flash[p].data \o op[l].val /\ x.data \in Pages
      /\ x.vid = flash[p].vid /\ x.ec = flash[p].ec
      /\ flash'[p] = x /\ \A r \in PEBs \ {p} : flash'[r] = flash[r]
  <2>1. Appended(l, op[l].val, x) BY <1>1, <1>2, <1>3, <1>4 DEF Appended
  <2> HIDE DEF x
  <2> QED BY <1>1, <2>1, AppendWrites, IdleRests
<1> HIDE DEF x
<1>6. CurStep(l, Idle, p)
  <2> DEFINE v == want[l] \o op[l].val
  <2>1. Cont(flash, p) = want[l] BY <1>1, CurFacts DEF Between
  <2>2. want[l] = flash[p].data BY <1>2, <2>1 DEF Cont
  <2>3. want' = [want EXCEPT ![l] = v] BY <1>1 DEF ReturnOk
  <2>4. v = x.data BY <1>5, <2>2
  <2>5. v \in Pages \cup {Unmapped} /\ Cont(flash', p) = v BY <1>2, <1>5, <2>4 DEF Cont
  <2> HIDE DEF v, p
  <2> QED BY <1>1, <2>3, <2>5, CurSets, IdleParts
<1>7. ASSUME SafeFaults PROVE ~roMode' /\ KeepRule(flash', st', l, Idle, p)
  <2>1. KeepRule(flash, st, l, op[l], p) /\ ~roMode BY <1>7, KeepFacts
  <2>2. Good(flash, p) => Good(flash', p)
    <3>1. ASSUME flash[p].vid.sum # <<>>, CrcOk(flash, p) PROVE CrcOk(flash', p)
      <4> DEFINE s == flash[p].vid.sum
                 d == flash[p].data
                 e == d \o op[l].val
      <4>1. Len(s) <= Len(d) /\ SubSeq(d, 1, Len(s)) = s BY <3>1 DEF CrcOk
      <4>2. s \in Pages
        <5>1. flash[p].vid \in VidType \ {NoVid, TornVid}
          BY <1>1, <1>2, AppendFacts, Facts DEF FlashType
        <5>2. flash[p].vid \in [lnum : LEBs, sqnum : 0 .. MaxSq, sum : Pages] BY <5>1 DEF VidType
        <5> QED BY <5>2
      <4>3. Len(s) \in Nat /\ Len(d) \in Nat BY <1>2, <4>2, PagesAre
      <4>4. Len(s) \in 0 .. Len(d) BY <4>1, <4>3
      <4>5. flash'[p].vid.sum = s /\ flash'[p].data = e BY <1>5
      <4>6. d \in Pages /\ op[l].val \in Pages /\ Len(d) + Len(op[l].val) <= MaxPages BY <1>2
      <4> HIDE DEF s, d
      <4>7. Len(s) <= Len(e) /\ SubSeq(e, 1, Len(s)) = s BY <4>1, <4>4, <4>6, ConcatPages
      <4> HIDE DEF e
      <4> QED BY <4>5, <4>7 DEF CrcOk
    <3> QED BY <3>1, <1>5 DEF Good
  <2>3. ASSUME NEW r \in PEBs \ {p, None}, flash'[r].ec, st'[r] # "bad",
               flash'[r].vid \notin {NoVid, TornVid}, flash'[r].vid.lnum = l
        PROVE  IF flash'[r].vid.sqnum < flash'[p].vid.sqnum THEN Good(flash', p)
               ELSE ~Good(flash', r)
    <3>1. flash'[r] = flash[r] /\ st'[r] = st[r] /\ flash'[p].vid = flash[p].vid BY <1>1, <1>5, <2>3
    <3>2. Good(flash', r) <=> Good(flash, r) BY <3>1 DEF Good, CrcOk
    <3>3. IF flash[r].vid.sqnum < flash[p].vid.sqnum THEN Good(flash, p) ELSE ~Good(flash, r)
      BY <1>1, <1>2, <2>1, <2>3, <3>1 DEF KeepRule
    <3> QED BY <2>2, <3>1, <3>2, <3>3
  <2>4. KeepRule(flash', st', l, Idle, p) BY <2>3, IdleParts DEF KeepRule
  <2> QED BY <1>1, <2>1, <2>4
<1>8. op' = [op EXCEPT ![l] = Idle] BY <1>1 DEF ReturnOk
<1>9. roMode' \in BOOLEAN BY <1>1, Facts
<1>10. Ends(l) BY <1>1, <1>2, <1>5, <1>6, <1>7, <1>8, <1>9 DEF Ends
<1> QED BY <1>10, EndsDone

(***************************************************************************)
(* Every step on a LEB keeps the invariants.                               *)
(***************************************************************************)
\* All steps of eba.c, one by one.
LEMMA LebStepDone ==
    ASSUME EbaAll, MoveInv, NEW l \in LEBs, LebStep(l)
    PROVE  \E o, p : Done(l, o, p)
<1>1. CASE Unmap(l) BY <1>1, UnmapDone
<1>2. CASE \E v \in {<<>>} \cup {<<x>> : x \in Vals} : Write(l, v)
  <2>1. PICK v \in {<<>>} \cup {<<x>> : x \in Vals} : Write(l, v) BY <1>2
  <2>2. v \in Pages BY SmallPages DEF Cells
  <2> QED BY <2>1, <2>2, WriteDone
<1>3. CASE \E v \in Vals : AppendPage(l, v) \/ Change(l, v)
  <2>1. PICK v \in Vals : AppendPage(l, v) \/ Change(l, v) BY <1>3
  <2>2. CASE AppendPage(l, v) BY <2>2, AppendDone
  <2>3. CASE Change(l, v) BY <2>3, ChangeDone
  <2> QED BY <2>1, <2>2, <2>3
<1>4. CASE StartMove(l) BY <1>4, StartMoveDone
<1>5. CASE GetPeb(l) BY <1>5, GetDone
<1>6. CASE GetFails(l) BY <1>6, GetFailsDone
<1>7. CASE WriteVid(l) BY <1>7, WriteVidDone
<1>8. CASE WriteData(l) BY <1>8, WriteDataDone
<1>9. CASE WriteInPlace(l) BY <1>9, InPlaceDone
<1>10. CASE MapNew(l)
  <2>1. CASE op[l].kind = "move" BY <1>10, <2>1, MapMovedDone
  <2>2. CASE op[l].kind = "recover" BY <1>10, <2>2, MapRecoveredDone
  <2>3. CASE op[l].kind \notin {"move", "recover"} BY <1>10, <2>3, MapFirstDone
  <2> QED BY <2>1, <2>2, <2>3
<1>11. CASE PutOld(l)
  <2>1. op[l].at = "put" BY <1>11 DEF PutOld
  <2>2. op[l].kind \in {"unmap", "change", "recover"} BY <2>1, OldHeld
  <2>3. CASE op[l].kind = "unmap" BY <1>11, <2>3, PutUnmappedDone
  <2>4. CASE op[l].kind = "recover" BY <1>11, <2>4, PutRecoveredDone
  <2>5. CASE op[l].kind = "change" BY <1>11, <2>5, PutChangedDone
  <2> QED BY <2>2, <2>3, <2>4, <2>5
<1>12. CASE PutFails(l) BY <1>12, PutFailsDone
<1>13. CASE RetryWrite(l) BY <1>13, RetryDone
<1>14. CASE GiveUp(l) BY <1>14, GiveUpDone
<1>15. CASE AppendFails(l) BY <1>15, AppendFailsDone
<1>16. CASE MoveFails(l) BY <1>16, MoveFailsDone
<1>17. CASE WriteFatal(l)
  <2>1. CASE op[l].kind = "recover" BY <1>17, <2>1, RecoverFatalDone
  <2>2. CASE op[l].kind = "append" BY <1>17, <2>2, OldFatalDone
  <2>3. CASE op[l].kind \notin {"recover", "append"} BY <1>17, <2>3, NewFatalDone
  <2> QED BY <2>1, <2>2, <2>3
<1>18. CASE WriteReadOnly(l)
  <2>1. CASE op[l].kind = "recover" BY <1>18, <2>1, RecoverReadOnlyDone
  <2>2. CASE op[l].kind # "recover" BY <1>18, <2>2, ReadOnlyDone
  <2> QED BY <2>1, <2>2
<1> QED BY <1>1, <1>2, <1>3, <1>4, <1>5, <1>6, <1>7, <1>8, <1>9, <1>10, <1>11, <1>12, <1>13,
           <1>14, <1>15, <1>16, <1>17, <1>18 DEF LebStep

\* No other step selects or begins a move.
LEMMA MoveStays ==
    ASSUME EbaAll, NEW l \in LEBs, LebStep(l), ~StartMove(l)
    PROVE  mv' = mv /\ (op'[l].kind = "move" => op[l].kind = "move")
<1>0. op \in [LEBs -> OpType] /\ Idle.kind # "move" BY IdleParts, TypeOfIdle DEF EbaAll, TypeInv
<1>1. CASE Unmap(l) BY <1>0, <1>1 DEF Unmap
<1>2. CASE \E v \in {<<>>} \cup {<<x>> : x \in Vals} : Write(l, v) BY <1>0, <1>2 DEF Write
<1>3. CASE \E v \in Vals : AppendPage(l, v) BY <1>0, <1>3 DEF AppendPage
<1>4. CASE \E v \in Vals : Change(l, v) BY <1>0, <1>4 DEF Change
<1>5. CASE GetPeb(l) BY <1>0, <1>5 DEF GetPeb, OpType
<1>6. CASE GetFails(l) BY <1>0, <1>6 DEF GetFails, ReturnErr
<1>7. CASE WriteVid(l)
  <2>1. mv' = mv BY <1>7 DEF WriteVid
  <2>2. PICK sq : op' = [op EXCEPT ![l].at = "data", ![l].sqnum = sq] BY <1>7 DEF WriteVid
  <2> QED BY <1>0, <2>1, <2>2 DEF OpType
<1>8. CASE WriteData(l)
  <2>1. mv' = mv BY <1>8 DEF WriteData
  <2>2. PICK w : op' = [op EXCEPT ![l].at = w] BY <1>8 DEF WriteData, At
  <2> QED BY <1>0, <2>1, <2>2 DEF OpType
<1>9. CASE WriteInPlace(l) BY <1>0, <1>9 DEF WriteInPlace, ReturnOk
<1>10. CASE MapNew(l) BY <1>0, <1>10 DEF MapNew, ReturnOk, At, OpType
<1>11. CASE PutOld(l)
  <2>1. op[l].at = "put" BY <1>11 DEF PutOld
  <2>2. op[l].kind \in {"unmap", "change", "recover"} BY <2>1, OldHeld
  <2> QED BY <1>0, <1>11, <2>2 DEF PutOld, ReturnOk, At, OpType
<1>12. CASE PutFails(l) BY <1>0, <1>12 DEF PutFails, ReturnOk, ReturnErr
<1>13. CASE RetryWrite(l)
  <2>1. mv' = mv BY <1>13 DEF RetryWrite
  <2>2. PICK sq : op' = [op EXCEPT ![l].at = "get", ![l].new = None, ![l].tries = @ + 1, ![l].sqnum = sq]
    BY <1>13 DEF RetryWrite
  <2> QED BY <1>0, <2>1, <2>2 DEF OpType
<1>14. CASE GiveUp(l) BY <1>0, <1>14 DEF GiveUp, ReturnOk, ReturnErr
<1>15. CASE AppendFails(l) BY <1>0, <1>15 DEF AppendFails, OpType
<1>16. CASE MoveFails(l) BY <1>0, <1>16 DEF MoveFails, ReturnOk
<1>17. CASE WriteFatal(l) BY <1>0, <1>17 DEF WriteFatal
<1>18. CASE WriteReadOnly(l) BY <1>0, <1>18 DEF WriteReadOnly, ReturnErr
<1> QED BY <1>1, <1>2, <1>3, <1>4, <1>5, <1>6, <1>7, <1>8, <1>9, <1>10, <1>11, <1>12, <1>13,
           <1>14, <1>15, <1>16, <1>17, <1>18 DEF LebStep

\* A step on a LEB keeps the invariants, and leaves the target alone.
LEMMA LebStepKeeps ==
    ASSUME EbaAll, MoveInv, NEW l \in LEBs, LebStep(l)
    PROVE  EbaAll' /\ MoveInv'
<1>1. PICK o, p : Done(l, o, p) BY LebStepDone
<1>2. EbaAll' BY <1>1, DoneKeeps
<1>3. CASE StartMove(l)
  <2>1. mv' = NoMove BY <1>3 DEF StartMove
  <2> QED BY <1>2, <2>1 DEF MoveInv, NoMove
<1>4. ASSUME ~StartMove(l), mv # NoMove PROVE MoveInv'
  <2>1. mv' = mv /\ (op'[l].kind = "move" => op[l].kind = "move") BY <1>4, MoveStays
  <2>2. /\ mv \in [from : PEBs, to : PEBs] /\ st[mv.to] = "dirty" /\ flash[mv.to] = Erased
        /\ \A m \in LEBs : op[m].kind # "move"
    BY <1>4 DEF MoveInv
  <2>3. mv.to \notin Mine(l)
    <3>1. mv.to \notin Holds(l) BY <2>2, Facts
    <3>2. mv.to # op[l].new BY <2>2, <3>1 DEF Holds
    <3> QED BY <2>2, <3>1, <3>2 DEF Mine, Uses
  <2>4. TypeInv /\ FlOk(l) /\ Sets(l, o, p) BY <1>1 DEF EbaAll, Done
  <2>5. flash'[mv.to] = flash[mv.to] BY <2>2, <2>3, <2>4, FlIs
  <2>6. st'[mv.to] = st[mv.to] BY <1>1, <2>2, <2>3 DEF Done, StOk
  <2>7. \A m \in LEBs : op'[m].kind # "move" BY <2>1, <2>2, <2>4, SetsOnly DEF Only
  <2> QED BY <2>1, <2>2, <2>5, <2>6, <2>7 DEF MoveInv
<1>5. ASSUME ~StartMove(l), mv = NoMove PROVE MoveInv'
  <2>1. mv' = NoMove BY <1>5, MoveStays
  <2> QED BY <2>1 DEF MoveInv, NoMove
<1> QED BY <1>2, <1>3, <1>4, <1>5

(***************************************************************************)
(* Erasures.                                                               *)
(***************************************************************************)
\* PEB p, which no LEB uses, is wiped, cleaned, retired or selected.
PoolStep(p) ==
    /\ st[p] \in {"free", "dirty"} /\ \A l \in LEBs : op[l].new # p
    /\ UNCHANGED <<ebaTbl, op, sqnum, roMode, want>>
    /\ flash' \in [PEBs -> FlashType] /\ st' \in [PEBs -> Status]
    /\ \A q \in PEBs \ {p} : flash'[q] = flash[q] /\ st'[q] = st[q]
    /\ st'[p] # "held" /\ PebRule(st'[p], flash'[p])
    /\ st'[p] = "bad" \/ flash'[p].vid = NoVid

\* An erasure touches a PEB that is waiting for it and no move writes to.
LEMMA PoolSteps ==
    ASSUME EbaAll, NEW p \in PEBs, WipePeb(p) \/ CleanPeb(p) \/ RetirePeb(p)
    PROVE  PoolStep(p)
<1>0. /\ flash \in [PEBs -> FlashType] /\ st \in [PEBs -> Status]
      /\ PebRule(st[p], flash[p])
  BY FlashRules DEF EbaAll, TypeInv, FlashType, PoolTypeOK
<1>1. CASE WipePeb(p)
  <2>1. Waiting(p) /\ flash' = [flash EXCEPT ![p] = Blank] /\ UNCHANGED <<st, ebaTbl, op, sqnum, roMode, want>>
    BY <1>1 DEF WipePeb
  <2>2. /\ flash' \in [PEBs -> FlashType] /\ flash'[p] = Blank
        /\ \A q \in PEBs \ {p} : flash'[q] = flash[q]
    BY <2>1, <1>0, FlashFacts
  <2>3. st[p] = "dirty" BY <2>1 DEF Waiting
  <2> QED BY <2>1, <2>2, <2>3, <1>0, FlashFacts DEF PoolStep, PebRule, Waiting
<1>2. CASE CleanPeb(p)
  <2>1. /\ Waiting(p) /\ flash' = [flash EXCEPT ![p] = Erased] /\ Clean(p)
        /\ UNCHANGED <<ebaTbl, op, sqnum, roMode, want>>
    BY <1>2 DEF CleanPeb
  <2>2. /\ flash' \in [PEBs -> FlashType] /\ flash'[p] = Erased
        /\ \A q \in PEBs \ {p} : flash'[q] = flash[q]
    BY <2>1, <1>0, FlashFacts
  <2>3. st' = [st EXCEPT ![p] = "free"] BY <2>1 DEF Clean
  <2>4. st' \in [PEBs -> Status] /\ st'[p] = "free" /\ \A q \in PEBs \ {p} : st'[q] = st[q]
    BY <2>3, <1>0 DEF Status
  <2> QED BY <2>1, <2>2, <2>4, FlashFacts DEF PoolStep, PebRule, Waiting
<1>3. CASE RetirePeb(p)
  <2>1. Waiting(p) /\ Retire(p) /\ UNCHANGED <<flash, ebaTbl, op, sqnum, roMode, want>>
    BY <1>3 DEF RetirePeb
  <2>3. st' = [st EXCEPT ![p] = "bad"] BY <2>1 DEF Retire
  <2>4. st' \in [PEBs -> Status] /\ st'[p] = "bad" /\ \A q \in PEBs \ {p} : st'[q] = st[q]
    BY <2>3, <1>0 DEF Status
  <2> QED BY <2>1, <2>4, <1>0 DEF PoolStep, PebRule, Waiting
<1> QED BY <1>1, <1>2, <1>3

\* The target of a move comes from the free PEBs.
LEMMA SelectSteps ==
    ASSUME EbaAll, NEW p \in PEBs, NEW q \in PEBs, SelectMove(p, q)
    PROVE  PoolStep(q) /\ MoveInv'
<1>1. /\ st[q] = "free" /\ st' = [st EXCEPT ![q] = "dirty"] /\ mv' = [from |-> p, to |-> q]
      /\ \A l \in LEBs : op[l].kind # "move"
      /\ UNCHANGED <<flash, ebaTbl, op, sqnum, roMode, want>>
  BY DEF SelectMove, Reserve
<1>2. flash \in [PEBs -> FlashType] /\ st \in [PEBs -> Status]
  BY DEF EbaAll, TypeInv, FlashType, PoolTypeOK
<1>3. flash[q] = Erased BY <1>1 DEF EbaAll, FlashInv
<1>4. st' \in [PEBs -> Status] /\ st'[q] = "dirty" /\ \A r \in PEBs \ {q} : st'[r] = st[r]
  BY <1>1, <1>2 DEF Status
<1>5. ASSUME NEW l \in LEBs PROVE op[l].new # q
  <2>1. op[l].new = q => q \in Holds(l) BY <1>1 DEF Holds
  <2> QED BY <1>1, <2>1, Facts
<1>6. PoolStep(q) BY <1>1, <1>2, <1>3, <1>4, <1>5, FlashFacts DEF PoolStep, PebRule
<1>7. MoveInv' BY <1>1, <1>3, <1>4 DEF MoveInv
<1> QED BY <1>6, <1>7

\* No erasure touches the target of a move.
LEMMA PoolKeepsMove ==
    ASSUME EbaAll, MoveInv, NEW p \in PEBs, WipePeb(p) \/ CleanPeb(p) \/ RetirePeb(p)
    PROVE  MoveInv'
<1>1. PoolStep(p) /\ p # mv.to /\ mv' = mv
  BY PoolSteps DEF WipePeb, CleanPeb, RetirePeb, Waiting
<1>2. CASE mv = NoMove BY <1>1, <1>2 DEF MoveInv, NoMove
<1>3. CASE mv # NoMove
  <2>1. /\ mv \in [from : PEBs, to : PEBs] /\ st[mv.to] = "dirty" /\ flash[mv.to] = Erased
        /\ \A m \in LEBs : op[m].kind # "move"
    BY <1>3 DEF MoveInv
  <2> QED BY <1>1, <2>1 DEF MoveInv, PoolStep
<1> QED BY <1>2, <1>3

\* No LEB uses such a PEB, and no header is added.
LEMMA PoolKeeps ==
    ASSUME EbaAll, NEW p \in PEBs, PoolStep(p)
    PROVE  EbaAll'
<1>1. TypeInv /\ OwnInv /\ FlashInv /\ SqInv /\ CurInv /\ KeepInv BY DEF EbaAll
<1>2. /\ st[p] \in {"free", "dirty"} /\ \A l \in LEBs : op[l].new # p
      /\ UNCHANGED <<ebaTbl, op, sqnum, roMode, want>>
      /\ flash' \in [PEBs -> FlashType] /\ st' \in [PEBs -> Status]
      /\ \A q \in PEBs \ {p} : flash'[q] = flash[q] /\ st'[q] = st[q]
      /\ st'[p] # "held" /\ PebRule(st'[p], flash'[p])
      /\ st'[p] = "bad" \/ flash'[p].vid = NoVid
  BY DEF PoolStep
<1>3. \A l \in LEBs : p \notin Uses(l) BY <1>1, <1>2 DEF Uses, OwnInv
<1>4. TypeInv' BY <1>1, <1>2 DEF TypeInv, PoolTypeOK, FlashType
<1>5. OwnInv'
  <2>1. \A l \in LEBs : OpShape(op[l])' /\ OpPebs(op[l], ebaTbl[l])'
    BY <1>1, <1>2 DEF OwnInv, OpShape, OpPebs, HasNew
  <2>2. \A l \in LEBs : Holds(l)' = Holds(l) BY <1>2 DEF Holds, Stale
  <2>3. \A l \in LEBs : \A q \in Holds(l) : st'[q] = "held"
    BY <1>1, <1>2, <1>3 DEF OwnInv, Uses, Holds
  <2>4. ASSUME NEW l \in LEBs, op[l].kind = "move" PROVE st'[op[l].new] = "dirty"
    <3>1. HasNew(op[l]) => op[l].new \in PEBs BY <1>1 DEF OwnInv, OpShape
    <3>2. HasNew(op[l]) BY <1>1, <2>4 DEF OwnInv, OpShape, HasNew
    <3> QED BY <3>1, <3>2, <1>1, <1>2, <2>4 DEF OwnInv
  <2> QED BY <1>1, <1>2, <2>1, <2>2, <2>3, <2>4 DEF OwnInv
<1> DEFINE f == flash'
           s == st'
<1>f. \A l \in LEBs : \A q \in Uses(l) : f[q] = flash[q] BY <1>2, <1>3 DEF Uses, Holds
<1>6. FlashInv'
  <2>1. \A q \in PEBs : PebRule(st[q], flash[q]) BY <1>1, FlashRules
  <2>2. \A l \in LEBs : LebRule(flash, l, op[l], ebaTbl[l]) BY <1>1, FlashRules
  <2>3. \A q \in PEBs : PebRule(st'[q], flash'[q]) BY <2>1, <1>2
  <2>4. ASSUME NEW l \in LEBs PROVE LebRule(f, l, op[l], ebaTbl[l])
    <3> HIDE DEF f
    <3> QED BY <1>1, <2>2, <1>f, RuleUses
  <2>5. \A l \in LEBs : LebRule(flash', l, op'[l], ebaTbl'[l]) BY <2>4, <1>2
  <2> QED BY <1>5, <2>3, <2>5, FlashRulesNext
<1>7. \A q \in PEBs : IsUsed(flash, q)' => IsUsed(flash, q) /\ flash'[q] = flash[q] /\ st'[q] = st[q] /\ q # p
  BY <1>2 DEF IsUsed
<1>8. \A l \in LEBs : \A q \in Found(flash, l)' : q \in Found(flash, l) /\ flash'[q] = flash[q]
  BY <1>7 DEF Found
<1>9. SqInv'
  <2>1. SqnumsUnique' BY <1>1, <1>2, <1>7 DEF SqInv, SqnumsUnique
  <2>2. ASSUME NEW l \in LEBs, HasSqnum(op[l])
        PROVE  /\ op[l].sqnum < sqnum
               /\ \A q \in PEBs : IsUsed(flash, q)' => flash'[q].vid.sqnum # op[l].sqnum
               /\ \A q \in Found(flash, l)' : flash'[q].vid.sqnum < op[l].sqnum
    BY <1>1, <1>7, <1>8, <2>2 DEF SqInv
  <2>3. ASSUME NEW l \in LEBs, HasNew(op[l]), op[l].at # "vid", NEW q \in Found(flash, l)' \ {op[l].new}
        PROVE  flash'[q].vid.sqnum < op[l].sqnum
    BY <1>1, <1>8, <2>3 DEF SqInv
  <2>4. \A l, m \in LEBs : HasSqnum(op[l]) /\ HasSqnum(op[m]) /\ l # m => op[l].sqnum # op[m].sqnum
    BY <1>1 DEF SqInv
  <2>5. \A l \in LEBs : (HasSqnum(op[l])' <=> HasSqnum(op[l])) /\ (HasNew(op[l])' <=> HasNew(op[l]))
    BY <1>2 DEF HasSqnum, HasNew
  <2> QED BY <1>2, <2>1, <2>2, <2>3, <2>4, <2>5 DEF SqInv
<1>10. CurInv'
  <2>1. \A l \in LEBs : ~Stale(l) => Contents(l)' = Contents(l)
    <3>1. \A l \in LEBs : ~Stale(l) /\ ebaTbl[l] # None => ebaTbl[l] \in Uses(l)
      BY <1>1 DEF TypeInv, Uses, Holds
    <3> QED BY <3>1, <1>f, <1>2 DEF Contents
  <2>2. \A l \in LEBs : op[l].kind = "move" => ~Stale(l) BY DEF Stale
  <2>3. \A l \in LEBs : Stale(l)' <=> Stale(l) BY <1>2 DEF Stale
  <2> QED BY <1>1, <1>2, <2>1, <2>2, <2>3 DEF CurInv
<1>11. KeepInv'
  <2> SUFFICES ASSUME SafeFaults
               PROVE  /\ ~roMode'
                      /\ \A m \in LEBs : op'[m].kind # "recover"
                      /\ \A q \in PEBs : st'[q] = "held" => flash'[q].ec
                      /\ \A m \in LEBs : HasNew(op'[m]) => flash'[op'[m].new].ec
                      /\ \A m \in LEBs : KeepLeb(m)'
    BY DEF KeepInv, SafeFaults, HasNew
  <2>0. \A m \in LEBs : HasNew(op[m]) => op[m].new \in Uses(m)
    BY <1>1 DEF OwnInv, OpShape, Uses
  <2>1. \A m \in LEBs : HasNew(op[m]) => flash'[op[m].new].ec
    BY <1>1, <2>0, <1>f DEF KeepInv
  <2>2. \A q \in PEBs : st'[q] = "held" => flash'[q].ec BY <1>1, <1>2 DEF KeepInv
  <2>3. ASSUME NEW m \in LEBs PROVE KeepRule(f, s, m, op[m], ebaTbl[m])
    <3> DEFINE o == op[m]
               t == ebaTbl[m]
    <3>1. KeepRule(flash, st, m, o, t) BY <1>1, KeepLebRule DEF KeepInv
    <3>2. t # None /\ ~(o.kind = "change" /\ o.at = "map") => t \in Uses(m)
      BY <1>1 DEF TypeInv, Uses, Holds, Stale
    <3>3. \A q \in PEBs : f[q].ec /\ s[q] # "bad" /\ f[q].vid \notin {NoVid, TornVid} =>
             f[q] = flash[q] /\ s[q] = st[q]
      BY <1>2
    <3>4. HasNew(o) => f[o.new] = flash[o.new] BY <2>0, <1>f
    <3>5. t # None /\ ~(o.kind = "change" /\ o.at = "map") => f[t] = flash[t] BY <3>2, <1>f
    <3> HIDE DEF f, s, o, t
    <3>6. ASSUME t # None, ~(o.kind = "change" /\ o.at = "map"), NEW q \in PEBs \ {t, o.new},
                 f[q].ec, s[q] # "bad", f[q].vid \notin {NoVid, TornVid}, f[q].vid.lnum = m
          PROVE  IF f[q].vid.sqnum < f[t].vid.sqnum THEN Good(f, t)
                 ELSE Good(f, q) => o.kind = "change" /\ s[q] = "dirty" /\ f[q].data = o.val
      <4>1. f[q] = flash[q] /\ s[q] = st[q] /\ f[t] = flash[t] BY <3>3, <3>5, <3>6
      <4>2. IF flash[q].vid.sqnum < flash[t].vid.sqnum THEN Good(flash, t)
            ELSE Good(flash, q) => o.kind = "change" /\ st[q] = "dirty" /\ flash[q].data = o.val
        BY <4>1, <3>1, <3>6 DEF KeepRule
      <4>3. (Good(f, t) <=> Good(flash, t)) /\ (Good(f, q) <=> Good(flash, q)) BY <4>1 DEF Good, CrcOk
      <4> QED BY <4>1, <4>2, <4>3
    <3>7. HasNew(o) /\ o.at # "vid" => f[o.new].vid.sum = IF o.kind = "write" THEN <<>> ELSE o.val
      BY <3>1, <3>4 DEF KeepRule
    <3>8. KeepRule(f, s, m, o, t)
      <4> HIDE DEF Good
      <4> QED BY <3>6, <3>7 DEF KeepRule
    <3> QED BY <3>8 DEF o, t
  <2>4. \A m \in LEBs : KeepRule(flash', st', m, op'[m], ebaTbl'[m]) BY <1>2, <2>3
  <2>5. \A m \in LEBs : KeepLeb(m)' BY <2>4, KeepLebRuleNext
  <2>6. ~roMode /\ \A m \in LEBs : op[m].kind # "recover" BY <1>1 DEF KeepInv
  <2> QED BY <1>2, <2>1, <2>2, <2>5, <2>6
<1> QED BY <1>4, <1>5, <1>6, <1>9, <1>10, <1>11 DEF EbaAll

(***************************************************************************)
(* The initial state.                                                      *)
(***************************************************************************)
\* The device is attached with all PEBs free.
LEMMA InitAll == Init => EbaAll /\ MoveInv
<1> SUFFICES ASSUME Init PROVE EbaAll /\ MoveInv OBVIOUS
<1>1. /\ st = [p \in PEBs |-> "free"] /\ flash = [p \in PEBs |-> Erased]
      /\ ebaTbl = [l \in LEBs |-> None] /\ op = [l \in LEBs |-> Idle]
      /\ sqnum = 1 /\ roMode = FALSE /\ want = [l \in LEBs |-> Unmapped]
  BY DEF Init
<1>2. TypeInv
  <2>1. 1 \in 0 .. MaxSq BY EbaBounds
  <2>2. flash \in [PEBs -> FlashType] BY <1>1, FlashFacts
  <2> QED BY <1>1, <2>1, <2>2, TypeOfIdle DEF TypeInv, PoolTypeOK, Status, FlashType
<1>3. \A l \in LEBs : op[l] = Idle /\ ebaTbl[l] = None /\ want[l] = Unmapped BY <1>1
<1>4. \A p \in PEBs : st[p] = "free" /\ flash[p] = Erased BY <1>1
<1>5. \A l \in LEBs : Holds(l) = {} BY <1>3, IdleParts, NoneNotPeb DEF Holds
<1>6. OwnInv
  <2>1. OpShape(Idle) /\ OpPebs(Idle, None) BY IdleParts DEF OpPebs
  <2> QED BY <1>3, <1>5, <2>1, IdleParts DEF OwnInv
<1>7. FlashInv
  <2>1. \A p \in PEBs : PebRule(st[p], flash[p]) BY <1>4, FlashFacts DEF PebRule
  <2>2. \A l \in LEBs : LebRule(flash, l, op[l], ebaTbl[l]) BY <1>3, IdleParts DEF LebRule
  <2> QED BY <1>6, <2>1, <2>2, FlashRules
<1>8. \A p \in PEBs : ~IsUsed(flash, p) BY <1>4, FlashFacts DEF IsUsed
<1>9. SqInv
  <2>1. SqnumsUnique BY <1>8 DEF SqnumsUnique
  <2>2. \A l \in LEBs : ~HasSqnum(op[l]) /\ ~HasNew(op[l]) BY <1>3, IdleParts
  <2> QED BY <2>1, <2>2 DEF SqInv
<1>10. CurInv
  <2>1. \A l \in LEBs : Contents(l) = want[l] /\ op[l].kind # "move" BY <1>3, IdleParts DEF Contents
  <2> QED BY <1>1, <2>1 DEF CurInv
<1>11. KeepInv
  <2>1. \A l \in LEBs : op[l].kind # "recover" /\ ~HasNew(op[l]) BY <1>3, IdleParts
  <2>2. \A l \in LEBs : KeepLeb(l) BY <1>3, <2>1 DEF KeepLeb
  <2> QED BY <1>1, <1>4, <2>1, <2>2 DEF KeepInv
<1>12. MoveInv BY DEF Init, MoveInv
<1> QED BY <1>2, <1>6, <1>7, <1>9, <1>10, <1>11, <1>12 DEF EbaAll

\* Nothing happens.
LEMMA StutterKeeps ==
    ASSUME EbaAll, UNCHANGED <<st, flash, ebaTbl, op, sqnum, roMode, want>>
    PROVE  EbaAll'
<1>1. UNCHANGED <<st, flash, ebaTbl, op, sqnum, roMode, want>> OBVIOUS
<1>2. TypeInv' BY <1>1 DEF EbaAll, TypeInv, PoolTypeOK
<1>3. OwnInv' BY <1>1 DEF EbaAll, OwnInv, OpShape, OpPebs, Holds, Stale, HasNew
<1>4. FlashInv' BY <1>1 DEF EbaAll, FlashInv, Headed, NewInv, HasNew, Stale
<1>5. SqInv' BY <1>1 DEF EbaAll, SqInv, SqnumsUnique, IsUsed, Found, HasSqnum, HasNew
<1>6. CurInv' BY <1>1 DEF EbaAll, CurInv, Contents, Stale
<1>7. KeepInv' BY <1>1 DEF EbaAll, KeepInv, KeepLeb, SafeFaults, HasNew, Stale, Found, IsUsed, Good, CrcOk, Retried
<1> QED BY <1>2, <1>3, <1>4, <1>5, <1>6, <1>7 DEF EbaAll

(***************************************************************************)
(* What a power cut leaves.                                                *)
(***************************************************************************)
\* A PEB has after a power cut what it had, or what is left of a write.
LEMMA CutIs ==
    ASSUME NEW f \in PowerCutFlash, NEW p \in PEBs
    PROVE  f[p] = flash[p] \/ \E l \in LEBs : Target(l) = p /\ f[p] \in Leftovers(l)
<1> DEFINE busy == {l \in LEBs : Leftovers(l) # {}}
<1>1. PICK c \in [busy -> UNION {Leftovers(l) : l \in busy}] :
         /\ \A l \in busy : c[l] \in Leftovers(l)
         /\ f = [q \in PEBs |-> IF \E l \in busy : Target(l) = q
                                THEN c[CHOOSE l \in busy : Target(l) = q]
                                ELSE flash[q]]
  BY DEF PowerCutFlash
<1> DEFINE k == CHOOSE l \in busy : Target(l) = p
<1>2. CASE \E l \in busy : Target(l) = p
  <2>1. k \in busy /\ Target(k) = p BY <1>2
  <2>2. f[p] = c[k] BY <1>1, <1>2
  <2> QED BY <1>1, <2>1, <2>2
<1>3. CASE ~\E l \in busy : Target(l) = p BY <1>1, <1>3
<1> QED BY <1>2, <1>3

\* A power cut changes the PEBs operations are writing to, and adds no header.
LEMMA LeftoverPeb ==
    ASSUME EbaAll, NEW l \in LEBs, NEW x \in Leftovers(l)
    PROVE  /\ Target(l) \in Uses(l) /\ x \in FlashType
           /\ x.ec = flash[Target(l)].ec
           /\ x.vid = flash[Target(l)].vid \/ x.vid = TornVid
           /\ x.vid \in {NoVid, TornVid} => x.data = <<>>
           /\ x.vid \notin {NoVid, TornVid} => x.vid.lnum = l
           /\ op[l].kind = "append" \/ (HasNew(op[l]) /\ op[l].at \in {"vid", "data"})
<1>1. CASE op[l].kind = "append"
  <2>1. Target(l) = ebaTbl[l] /\ ebaTbl[l] \in Mine(l) /\ st[ebaTbl[l]] = "held"
    BY <1>1, AppendFacts DEF Target
  <2>2. Target(l) \in Uses(l) BY <2>1 DEF Mine
  <2>3. PICK t \in Pages : /\ Len(t) <= Len(op[l].val)
                           /\ x = [flash[ebaTbl[l]] EXCEPT !.data = flash[ebaTbl[l]].data \o t]
    BY <1>1, LeftoverOld
  <2> DEFINE d == flash[ebaTbl[l]].data
             e == d \o t
             r == flash[ebaTbl[l]]
             j == Len(d)
             k == Len(t)
             n == Len(op[l].val)
  <2>4. /\ r \in FlashType /\ d \in Pages /\ r.vid \notin {NoVid, TornVid} /\ r.vid.lnum = l
        /\ op[l].val \in Pages
    BY <1>1, AppendFacts, Facts
  <2>a. j + n <= MaxPages BY <1>1, AppendFacts
  <2>b. j \in Nat /\ k \in Nat /\ n \in Nat BY <2>3, <2>4, PagesAre
  <2>5. j \in Nat /\ k \in Nat /\ n \in Nat /\ j + n <= MaxPages /\ k <= n /\ MaxPages \in Nat
    BY <2>3, <2>a, <2>b, EbaBounds
  <2> HIDE DEF j, k, n
  <2>6. j + k <= MaxPages BY <2>5
  <2>7. e \in Pages BY <2>3, <2>4, <2>6, ConcatPages DEF j, k
  <2>8. x = [r EXCEPT !.data = e] BY <2>3
  <2> HIDE DEF r, d, e
  <2>9. x \in FlashType /\ x.ec = r.ec /\ x.vid = r.vid /\ x.data = e BY <2>4, <2>7, <2>8 DEF FlashType
  <2> QED BY <1>1, <2>1, <2>2, <2>4, <2>9 DEF r
<1>2. CASE op[l].kind # "append"
  <2>1. op[l].new # None BY <1>2 DEF Leftovers
  <2>2. HasNew(op[l]) BY <2>1, Facts DEF OpShape
  <2>3. Target(l) = op[l].new BY <1>2 DEF Target
  <2>4. Target(l) \in Uses(l) BY <2>2, <2>3, NewFacts DEF Uses
  <2>5. /\ x \in FlashType /\ x.ec = flash[op[l].new].ec /\ op[l].at \in {"vid", "data"}
        /\ op[l].at = "data" => x.vid = flash[op[l].new].vid
        /\ op[l].at = "vid" => x.vid \in {NoVid, TornVid} /\ x.data = <<>>
    BY <2>2, LeftoverNew
  <2>6. /\ op[l].at = "vid" => flash[op[l].new].vid = NoVid
        /\ op[l].at = "data" => flash[op[l].new].vid \notin {NoVid, TornVid} /\ flash[op[l].new].vid.lnum = l
    BY <2>2, NewFacts
  <2> QED BY <2>2, <2>3, <2>4, <2>5, <2>6
<1> QED BY <1>1, <1>2

\* The EC headers stay, and a VID header stays or is torn.
LEMMA CutFacts ==
    ASSUME EbaAll, NEW f \in PowerCutFlash
    PROVE  /\ f \in [PEBs -> FlashType]
           /\ \A p \in PEBs : f[p].ec = flash[p].ec
           /\ \A p \in PEBs : f[p].vid = flash[p].vid \/ f[p].vid = TornVid
           /\ \A p \in PEBs : f[p].vid \in {NoVid, TornVid} => f[p].data = <<>>
<1>0. flash \in [PEBs -> FlashType] /\ \A p \in PEBs : PebRule(st[p], flash[p])
  BY FlashRules DEF EbaAll, TypeInv, FlashType
<1>1. ASSUME NEW p \in PEBs
      PROVE  /\ f[p] \in FlashType /\ f[p].ec = flash[p].ec
             /\ f[p].vid = flash[p].vid \/ f[p].vid = TornVid
             /\ f[p].vid \in {NoVid, TornVid} => f[p].data = <<>>
  <2>1. CASE f[p] = flash[p] BY <2>1, <1>0 DEF PebRule
  <2>2. CASE \E l \in LEBs : Target(l) = p /\ f[p] \in Leftovers(l)
    <3>1. PICK l \in LEBs : Target(l) = p /\ f[p] \in Leftovers(l) BY <2>2
    <3> DEFINE x == f[p]
    <3>2. x \in Leftovers(l) BY <3>1
    <3> HIDE DEF x
    <3>3. /\ x \in FlashType /\ x.ec = flash[Target(l)].ec
          /\ x.vid = flash[Target(l)].vid \/ x.vid = TornVid
          /\ x.vid \in {NoVid, TornVid} => x.data = <<>>
      BY <3>2, LeftoverPeb
    <3> QED BY <3>1, <3>3 DEF x
  <2> QED BY <2>1, <2>2, CutIs
<1>2. f = [p \in PEBs |-> f[p]] BY DEF PowerCutFlash
<1>3. f \in [PEBs -> FlashType] BY <1>1, <1>2
<1> QED BY <1>1, <1>3

\* The headers the scan finds are those that were there.
LEMMA CutUsed ==
    ASSUME EbaAll, NEW f \in PowerCutFlash, NEW p \in PEBs, IsUsed(f, p)
    PROVE  /\ IsUsed(flash, p) /\ f[p].vid = flash[p].vid
           /\ f[p].vid.sqnum \in 0 .. MaxSq /\ f[p].vid.lnum \in LEBs /\ f[p].vid.sum \in Pages
<1>1. f[p] \in FlashType /\ f[p].ec = flash[p].ec /\ (f[p].vid = flash[p].vid \/ f[p].vid = TornVid)
  BY CutFacts
<1>2. IsUsed(flash, p) /\ f[p].vid = flash[p].vid BY <1>1 DEF IsUsed
<1>3. f[p].vid \in VidType \ {NoVid, TornVid} BY <1>1 DEF IsUsed, FlashType
<1>4. f[p].vid \in [lnum : LEBs, sqnum : 0 .. MaxSq, sum : Pages] BY <1>3 DEF VidType
<1> QED BY <1>2, <1>4

\* A PEB of LEB l that another operation was writing to is none of the PEBs
\* the scan finds for l.
LEMMA CutSame ==
    ASSUME EbaAll, NEW f \in PowerCutFlash, NEW l \in LEBs, NEW p \in Found(f, l)
    PROVE  f[p] = flash[p] \/ (p = Target(l) /\ f[p] \in Leftovers(l))
<1>1. p \in PEBs /\ IsUsed(f, p) /\ f[p].vid.lnum = l BY DEF Found
<1>2. ASSUME NEW m \in LEBs, Target(m) = p, f[p] \in Leftovers(m) PROVE m = l
  <2> DEFINE x == f[p]
  <2>1. x \in Leftovers(m) BY <1>2
  <2>2. x.vid \notin {NoVid, TornVid} BY <1>1 DEF IsUsed
  <2> HIDE DEF x
  <2>3. x.vid.lnum = m BY <2>1, <2>2, LeftoverPeb
  <2> QED BY <1>1, <2>3 DEF x
<1> QED BY <1>1, <1>2, CutIs

(***************************************************************************)
(* The scan.                                                               *)
(***************************************************************************)
\* Flash f has a sequence number of its own in every header.
HeadsOf(f) ==
    /\ \A p \in PEBs : IsUsed(f, p) =>
          f[p].vid.sqnum \in 0 .. MaxSq /\ f[p].vid.lnum \in LEBs /\ f[p].vid.sum \in Pages
    /\ \A p, q \in PEBs : IsUsed(f, p) /\ IsUsed(f, q) /\ p # q => f[p].vid.sqnum # f[q].vid.sqnum

\* The headers a power cut leaves have sequence numbers of their own.
LEMMA CutHeads == ASSUME EbaAll, NEW f \in PowerCutFlash PROVE HeadsOf(f)
BY CutUsed DEF HeadsOf, EbaAll, SqInv, SqnumsUnique

\* compare_lebs(), in terms of which PEB is complete.
LEMMA BeatsIs ==
    ASSUME NEW f, NEW p, NEW q
    PROVE  Beats(f, p, q) <=> IF f[p].vid.sqnum > f[q].vid.sqnum THEN Good(f, p) ELSE ~Good(f, q)
BY DEF Beats, Good

\* The least and the greatest number of a set of bounded ones.
LEMMA Least ==
    ASSUME NEW n \in Nat, NEW S, S \subseteq 0 .. n, S # {}
    PROVE  \E m \in S : \A k \in S : m <= k
<1>1. S \subseteq Nat OBVIOUS
<1>2. PICK m \in S : \A k \in S : <<k, m>> \notin OpToRel(<, Nat) BY <1>1, NatLessThanWellFounded, WFMin
<1>3. \A k \in S : ~(k < m) BY <1>1, <1>2 DEF OpToRel
<1> QED BY <1>1, <1>3

\* A set of bounded numbers has a greatest one.
LEMMA Greatest ==
    ASSUME NEW n \in Nat, NEW S, S \subseteq 0 .. n, S # {}
    PROVE  \E m \in S : \A k \in S : k <= m
<1> DEFINE T == {n - k : k \in S}
<1>a. PICK e \in S : e \in 0 .. n OBVIOUS
<1>b. n - e \in T BY <1>a
<1>c. \A k \in S : n - k \in 0 .. n OBVIOUS
<1>1. T \subseteq 0 .. n /\ T # {} BY <1>b, <1>c
<1>2. PICK t \in T : \A k \in T : t <= k
  <2> HIDE DEF T
  <2> QED BY <1>1, Least
<1>3. PICK m \in S : t = n - m OBVIOUS
<1>4. ASSUME NEW k \in S PROVE k <= m
  <2>1. n - k \in T OBVIOUS
  <2>2. t <= n - k BY <1>2, <2>1
  <2> QED BY <1>3, <2>2
<1> QED BY <1>4

\* The PEB with the greatest number among those with nothing missing wins, or
\* else the one with the least number.
LEMMA WinnerExists ==
    ASSUME NEW f, HeadsOf(f), NEW l, Found(f, l) # {}
    PROVE  \E p \in Found(f, l) : \A q \in Found(f, l) \ {p} : Beats(f, p, q) /\ ~Beats(f, q, p)
<1> DEFINE F == Found(f, l)
           sq(p) == f[p].vid.sqnum
<1>1. \A p \in F : sq(p) \in 0 .. MaxSq BY DEF HeadsOf, Found
<1>2. \A p, q \in F : p # q => sq(p) # sq(q) BY DEF HeadsOf, Found
<1>3. MaxSq \in Nat BY EbaBounds
<1>4. ASSUME NEW p \in F,
             Good(f, p) /\ \A q \in F : Good(f, q) => sq(q) <= sq(p)
      PROVE  \A q \in F \ {p} : Beats(f, p, q) /\ ~Beats(f, q, p)
  <2> SUFFICES ASSUME NEW q \in F \ {p} PROVE Beats(f, p, q) /\ ~Beats(f, q, p) OBVIOUS
  <2>1. sq(p) \in Int /\ sq(q) \in Int /\ sq(p) # sq(q) BY <1>1, <1>2
  <2>2. sq(p) > sq(q) => ~(sq(q) > sq(p)) BY <2>1
  <2>3. ~(sq(p) > sq(q)) => sq(q) > sq(p) /\ ~(sq(q) <= sq(p)) BY <2>1
  <2> QED BY <1>4, <2>2, <2>3, BeatsIs
<1>5. ASSUME NEW p \in F,
             (\A q \in F : ~Good(f, q)) /\ \A q \in F : sq(p) <= sq(q)
      PROVE  \A q \in F \ {p} : Beats(f, p, q) /\ ~Beats(f, q, p)
  <2> SUFFICES ASSUME NEW q \in F \ {p} PROVE Beats(f, p, q) /\ ~Beats(f, q, p) OBVIOUS
  <2>1. sq(p) \in Int /\ sq(q) \in Int /\ sq(p) # sq(q) /\ sq(p) <= sq(q) BY <1>1, <1>2, <1>5
  <2>2. ~(sq(p) > sq(q)) /\ sq(q) > sq(p) BY <2>1
  <2> QED BY <1>5, <2>2, BeatsIs
<1>6. CASE \E p \in F : Good(f, p)
  <2> DEFINE G == {p \in F : Good(f, p)}
             S == {sq(p) : p \in G}
  <2>1. S # {} BY <1>6
  <2>2. S \subseteq 0 .. MaxSq BY <1>1
  <2>3. PICK m \in S : \A k \in S : k <= m
    <3> HIDE DEF S
    <3> QED BY <2>1, <2>2, <1>3, Greatest
  <2>4. PICK p \in G : m = sq(p) BY <2>3
  <2>5. \A q \in G : sq(q) <= sq(p) BY <2>3, <2>4
  <2>6. p \in F /\ Good(f, p) /\ \A q \in F : Good(f, q) => sq(q) <= sq(p) BY <2>4, <2>5
  <2> QED BY <2>6, <1>4
<1>7. CASE \A p \in F : ~Good(f, p)
  <2> DEFINE S == {sq(p) : p \in F}
  <2>1. S # {} OBVIOUS
  <2>2. S \subseteq 0 .. MaxSq BY <1>1
  <2>3. PICK m \in S : \A k \in S : m <= k
    <3> HIDE DEF S
    <3> QED BY <2>1, <2>2, <1>3, Least
  <2>4. PICK p \in F : m = sq(p) BY <2>3
  <2>5. \A q \in F : sq(p) <= sq(q) BY <2>3, <2>4
  <2> QED BY <2>4, <2>5, <1>5, <1>7
<1> QED BY <1>6, <1>7

\* The scan maps a LEB to the PEB that wins all comparisons, if it has any.
LEMMA ScanFacts ==
    ASSUME NEW f, HeadsOf(f), NEW l \in LEBs
    PROVE  IF Found(f, l) = {} THEN ScanTbl(f)[l] = None
           ELSE /\ ScanTbl(f)[l] \in Found(f, l)
                /\ \A q \in Found(f, l) \ {ScanTbl(f)[l]} : Beats(f, ScanTbl(f)[l], q)
<1> DEFINE Wins(p) == \A q \in Found(f, l) \ {p} : Beats(f, p, q)
           w == CHOOSE p \in Found(f, l) : Wins(p)
<1>1. ScanTbl(f)[l] = IF Found(f, l) = {} THEN None ELSE w BY DEF ScanTbl
<1>2. ASSUME Found(f, l) # {} PROVE w \in Found(f, l) /\ Wins(w)
  <2>1. \E p \in Found(f, l) : Wins(p) BY <1>2, WinnerExists
  <2> HIDE DEF Wins
  <2> QED BY <2>1
<1> HIDE DEF w
<1>3. CASE Found(f, l) = {} BY <1>1, <1>3
<1>4. CASE Found(f, l) # {} BY <1>1, <1>2, <1>4
<1> QED BY <1>3, <1>4

\* The scan sets global_sqnum above all sequence numbers it finds.
LEMMA ScanSqnumIs ==
    ASSUME NEW f, HeadsOf(f)
    PROVE  ScanSqnum(f) \in Nat /\ \A p \in PEBs : IsUsed(f, p) => f[p].vid.sqnum < ScanSqnum(f)
<1> DEFINE U == {f[p].vid.sqnum : p \in {q \in PEBs : IsUsed(f, q)}}
           sqs == {0} \cup U
           Top(m) == \A n \in sqs : n <= m
           t == CHOOSE m \in sqs : Top(m)
<1>1. MaxSq \in Nat BY EbaBounds
<1>2. U \subseteq 0 .. MaxSq BY DEF HeadsOf
<1>3. sqs \subseteq 0 .. MaxSq /\ sqs # {}
  <2> HIDE DEF U
  <2> QED BY <1>1, <1>2
<1>4. \E m \in sqs : Top(m)
  <2> HIDE DEF sqs
  <2> QED BY <1>1, <1>3, Greatest
<1>5. t \in sqs /\ Top(t)
  <2> HIDE DEF Top
  <2> QED BY <1>4
<1>6. ScanSqnum(f) = 1 + t BY DEF ScanSqnum
<1>7. t \in Nat BY <1>1, <1>3, <1>5
<1>8. ASSUME NEW p \in PEBs, IsUsed(f, p) PROVE f[p].vid.sqnum < 1 + t
  <2> DEFINE k == f[p].vid.sqnum
  <2>1. k \in sqs BY <1>8
  <2>2. k <= t /\ k \in 0 .. MaxSq BY <2>1, <1>3, <1>5
  <2> HIDE DEF k, t
  <2>3. k < 1 + t BY <2>2, <1>7, <1>1
  <2> QED BY <2>3 DEF k
<1> HIDE DEF t
<1> QED BY <1>6, <1>7, <1>8

\* Comparing the PEBs of a LEB in any order gives the same result.
LEMMA CutDecides == EbaAll => ScanDecides
BY CutHeads, WinnerExists DEF ScanDecides

(***************************************************************************)
(* After a power cut the invariants hold of what the scan finds.           *)
(***************************************************************************)
\* The tables the scan builds are in order, whatever it finds.
LEMMA PowerCutKeeps ==
    ASSUME EbaAll, PowerCut
    PROVE  EbaAll'
<1>1. PICK f \in PowerCutFlash :
        /\ ScanSqnum(f) <= MaxSq
        /\ flash' = f /\ ebaTbl' = ScanTbl(f) /\ st' = ScanStatus(f) /\ sqnum' = ScanSqnum(f)
        /\ want' = [l \in LEBs |-> ScanContents(f, l)]
        /\ op' = [l \in LEBs |-> Idle] /\ roMode' = FALSE
  BY DEF PowerCut
<1> DEFINE tbl == ScanTbl(f)
           s == ScanStatus(f)
<1>2. HeadsOf(f) BY CutHeads
<1>3. f \in [PEBs -> FlashType] /\ \A p \in PEBs : f[p].vid \in {NoVid, TornVid} => f[p].data = <<>>
  BY CutFacts
<1>4. ASSUME NEW l \in LEBs
      PROVE  tbl[l] = None \/ (tbl[l] \in Found(f, l) /\ \A q \in Found(f, l) \ {tbl[l]} : Beats(f, tbl[l], q))
  BY <1>2, ScanFacts
<1>5. \A l \in LEBs : Found(f, l) # {} => tbl[l] \in Found(f, l) BY <1>2, ScanFacts
<1>6. /\ \A p \in PEBs : s[p] \in Status /\ (s[p] = "bad" <=> st[p] = "bad")
      /\ s \in [PEBs -> Status]
      /\ \A p \in PEBs : s[p] = "held" => \E l \in LEBs : tbl[l] = p
      /\ \A p \in PEBs : s[p] = "free" => f[p].ec /\ f[p].vid = NoVid
      /\ \A l \in LEBs, p \in PEBs : tbl[l] = p /\ st[p] # "bad" => s[p] = "held"
  BY DEF ScanStatus, Status
<1>7. \A l \in LEBs : \A p \in Found(f, l) : p \in PEBs /\ IsUsed(f, p) /\ f[p].vid.lnum = l BY DEF Found
<1>8. \A l \in LEBs : tbl[l] = None \/ (tbl[l] \in PEBs /\ IsUsed(f, tbl[l]) /\ f[tbl[l]].vid.lnum = l /\ s[tbl[l]] = "held")
  BY <1>4, <1>6, <1>7 DEF IsUsed
<1>9. /\ \A l \in LEBs : op'[l] = Idle /\ want'[l] = ScanContents(f, l) /\ ebaTbl'[l] = tbl[l]
      /\ \A p \in PEBs : IsUsed(flash, p)' <=> IsUsed(f, p)
  <2>1. \A p \in PEBs : IsUsed(flash, p)' <=> IsUsed(f, p) BY <1>1, <1>6 DEF IsUsed
  <2> QED BY <1>1, <2>1
<1>10. \A l \in LEBs : Found(flash, l)' = Found(f, l) BY <1>1, <1>9 DEF Found
<1>t. flash' = f /\ ebaTbl' = tbl /\ st' = s BY <1>1
<1>u. tbl = [l \in LEBs |-> tbl[l]] BY DEF ScanTbl
<1> HIDE DEF tbl, s
<1>11. TypeInv'
  <2>1. ScanSqnum(f) \in 0 .. MaxSq BY <1>1, <1>2, ScanSqnumIs, EbaBounds
  <2>2. tbl \in [LEBs -> PEBs \cup {None}] BY <1>8, <1>u
  <2>3. op' \in [LEBs -> OpType] BY <1>1, TypeOfIdle
  <2> QED BY <1>1, <1>3, <1>6, <1>t, <2>1, <2>2, <2>3 DEF TypeInv, PoolTypeOK, FlashType
<1>12. ASSUME NEW l \in LEBs
       PROVE  Holds(l)' = {p \in PEBs : p = tbl[l]}
  <2>1. op'[l].kind = "idle" /\ op'[l].new = None /\ op'[l].at # "put" BY <1>9, IdleParts, TypeOfIdle
  <2> QED BY <2>1, <1>9, NoneNotPeb DEF Holds, Stale
<1>13. OwnInv'
  <2>1. \A l \in LEBs : OpShape(op'[l]) /\ OpPebs(op'[l], ebaTbl'[l])
    <3>1. \A p : OpShape(Idle) /\ OpPebs(Idle, p) BY IdleParts, TypeOfIdle DEF OpPebs
    <3> QED BY <1>9, <3>1
  <2>2. \A l \in LEBs : (OpShape(op[l])' <=> OpShape(op'[l])) /\ (OpPebs(op[l], ebaTbl[l])' <=> OpPebs(op'[l], ebaTbl'[l]))
    BY DEF OpShape, OpPebs, HasNew
  <2>3. \A l \in LEBs : \A p \in Holds(l)' : st'[p] = "held" BY <1>12, <1>8, <1>t, NoneNotPeb
  <2>4. \A l, m \in LEBs : l # m => Holds(l)' \cap Holds(m)' = {} BY <1>12, <1>8, NoneNotPeb
  <2>5. \A l \in LEBs : op'[l].kind # "move" BY <1>9, IdleParts
  <2> QED BY <2>1, <2>2, <2>3, <2>4, <2>5 DEF OwnInv
<1>14. \A l \in LEBs : ~HasNew(op'[l]) /\ ~HasSqnum(op'[l]) /\ op'[l].kind = "idle"
  BY <1>9, IdleParts, TypeOfIdle
<1>15. \A l \in LEBs : /\ HasNew(op[l])' <=> HasNew(op'[l])
                       /\ HasSqnum(op[l])' <=> HasSqnum(op'[l])
  BY DEF HasNew, HasSqnum
<1>16. FlashInv'
  <2>1. ASSUME NEW p \in PEBs PROVE PebRule(st'[p], flash'[p])
    <3>1. f[p].ec /\ f[p].vid = NoVid => f[p] = Erased
      <4>1. f[p] \in FlashType /\ (f[p].vid = NoVid => f[p].data = <<>>) BY <1>3
      <4> QED BY <4>1 DEF FlashType, Erased
    <3> QED BY <3>1, <1>3, <1>6, <1>t DEF PebRule
  <2>2. ASSUME NEW l \in LEBs PROVE LebRule(flash', l, op'[l], ebaTbl'[l])
    <3>1. tbl[l] # None => f[tbl[l]].vid \notin {NoVid, TornVid} /\ f[tbl[l]].vid.lnum = l
      BY <1>8 DEF IsUsed
    <3> QED BY <3>1, <1>9, <1>14, <1>t DEF LebRule
  <2> QED BY <1>13, <2>1, <2>2, FlashRulesNext
<1>17. SqInv'
  <2>1. SqnumsUnique'
    <3>1. \A p, q \in PEBs : IsUsed(flash, p)' /\ IsUsed(flash, q)' /\ p # q =>
             flash'[p].vid.sqnum # flash'[q].vid.sqnum
      BY <1>2, <1>9, <1>t DEF HeadsOf
    <3>2. \A p \in PEBs : IsUsed(flash, p)' => flash'[p].vid.sqnum < sqnum'
      BY <1>1, <1>2, <1>9, ScanSqnumIs
    <3> QED BY <3>1, <3>2 DEF SqnumsUnique
  <2> QED BY <2>1, <1>14, <1>15 DEF SqInv
<1>18. CurInv'
  <2>1. ASSUME NEW l \in LEBs PROVE ScanContents(f, l) = Cont(f, tbl[l]) /\ Cont(f, tbl[l]) \in Pages \cup {Unmapped}
    <3>1. ScanContents(f, l) = Cont(f, tbl[l]) BY DEF ScanContents, Cont, tbl
    <3>2. tbl[l] # None => f[tbl[l]].data \in Pages BY <1>8, <1>3 DEF FlashType
    <3> QED BY <3>1, <3>2 DEF Cont
  <2>2. want' \in [LEBs -> Pages \cup {Unmapped}] BY <1>1, <2>1
  <2>3. \A l \in LEBs : Cont(flash', ebaTbl'[l]) = want'[l] /\ op'[l].kind # "move" BY <2>1, <1>9, <1>14, <1>t
  <2> QED BY <2>2, <2>3, CurRulesNext
<1>19. KeepInv'
  <2>1. ~roMode' BY <1>1
  <2>2. \A p \in PEBs : st'[p] = "held" => flash'[p].ec BY <1>6, <1>8, <1>t, NoneNotPeb DEF IsUsed
  <2>3. ASSUME NEW l \in LEBs PROVE KeepRule(f, s, l, Idle, tbl[l])
    <3>1. ~HasNew(Idle) /\ Idle.new = None BY IdleParts
    <3>2. ASSUME tbl[l] # None, NEW q \in PEBs \ {tbl[l], None},
                 f[q].ec, s[q] # "bad", f[q].vid \notin {NoVid, TornVid}, f[q].vid.lnum = l
          PROVE  IF f[q].vid.sqnum < f[tbl[l]].vid.sqnum THEN Good(f, tbl[l]) ELSE ~Good(f, q)
      <4>1. q \in Found(f, l) BY <3>2, <1>6 DEF Found, IsUsed
      <4>2. Beats(f, tbl[l], q) /\ tbl[l] \in Found(f, l) BY <4>1, <3>2, <1>4
      <4>3. IF f[tbl[l]].vid.sqnum > f[q].vid.sqnum THEN Good(f, tbl[l]) ELSE ~Good(f, q)
        BY <4>2, BeatsIs
      <4>4. f[tbl[l]].vid.sqnum \in 0 .. MaxSq /\ f[q].vid.sqnum \in 0 .. MaxSq
        BY <4>1, <4>2, <1>2 DEF HeadsOf, Found
      <4> DEFINE a == f[tbl[l]].vid.sqnum
                 b == f[q].vid.sqnum
      <4>5. a \in 0 .. MaxSq /\ b \in 0 .. MaxSq BY <4>4
      <4> HIDE DEF a, b
      <4>6. a > b <=> b < a BY <4>5, EbaBounds
      <4> QED BY <4>3, <4>6 DEF a, b
    <3> QED BY <3>1, <3>2 DEF KeepRule
  <2>4. \A l \in LEBs : KeepRule(flash', st', l, op'[l], ebaTbl'[l]) BY <2>3, <1>9, <1>t
  <2>5. \A l \in LEBs : KeepLeb(l)' BY <2>4, KeepLebRuleNext
  <2> QED BY <1>14, <1>15, <2>1, <2>2, <2>5 DEF KeepInv
<1> QED BY <1>11, <1>13, <1>16, <1>17, <1>18, <1>19 DEF EbaAll

(***************************************************************************)
(* Which PEB of a LEB the scan finds, if the faults are ones that lose     *)
(* nothing.                                                                *)
(***************************************************************************)
\* The scan finds the PEB a LEB was mapped to, as it was or appended to.
LEMMA OldPeb ==
    ASSUME EbaAll, SafeFaults, NEW f \in PowerCutFlash, NEW l \in LEBs, NEW p, p = ebaTbl[l],
           p # None, ~Stale(l)
    PROVE  /\ p \in Found(f, l) /\ p \in Found(flash, l) /\ f[p].vid = flash[p].vid
           /\ f[p] = flash[p] \/ (op[l].kind = "append" /\ f[p] \in Leftovers(l))
<1>1. p \in PEBs /\ p \in Uses(l) /\ st[p] = "held" /\ flash[p].vid \notin {NoVid, TornVid} /\ flash[p].vid.lnum = l
  BY TableHeld DEF Uses
<1>2. flash[p].ec BY <1>1 DEF EbaAll, KeepInv
<1>3. p \in Found(flash, l) BY <1>1, <1>2 DEF Found, IsUsed
<1>4. f[p] = flash[p] \/ (op[l].kind = "append" /\ f[p] \in Leftovers(l))
  <2> SUFFICES ASSUME NEW m \in LEBs, Target(m) = p, f[p] \in Leftovers(m)
               PROVE  m = l /\ op[l].kind = "append"
    BY <1>1, CutIs
  <2> DEFINE x == f[p]
  <2>1. x \in Leftovers(m) OBVIOUS
  <2> HIDE DEF x
  <2>2. p \in Uses(m) /\ (op[m].kind = "append" \/ (HasNew(op[m]) /\ op[m].at \in {"vid", "data"}))
    BY <2>1, LeftoverPeb
  <2>3. m = l BY <2>2, <1>1, Apart DEF EbaAll, Mine
  <2>4. HasNew(op[l]) /\ op[l].at \in {"vid", "data"} => op[l].new # p BY NewFacts
  <2>5. op[l].kind # "append" => Target(l) = op[l].new BY DEF Target
  <2> QED BY <2>2, <2>3, <2>4, <2>5
<1>5. f[p].vid = flash[p].vid
  <2>1. CASE f[p] = flash[p] BY <2>1
  <2>2. CASE op[l].kind = "append" /\ f[p] \in Leftovers(l)
    <3> DEFINE x == f[p]
    <3>1. x \in Leftovers(l) BY <2>2
    <3> HIDE DEF x
    <3>2. PICK t \in Pages : /\ Len(t) <= Len(op[l].val)
                            /\ x = [flash[ebaTbl[l]] EXCEPT !.data = flash[ebaTbl[l]].data \o t]
      BY <2>2, <3>1, LeftoverOld
    <3> DEFINE r == flash[p]
               e == flash[p].data \o t
    <3>3. r \in FlashType BY <1>1, Facts
    <3>4. x = [r EXCEPT !.data = e] BY <3>2
    <3> HIDE DEF r, e
    <3>5. x.vid = r.vid BY <3>3, <3>4 DEF FlashType
    <3> QED BY <3>5 DEF r, x
  <2> QED BY <1>4, <2>1, <2>2
<1>6. p \in Found(f, l)
  <2>1. f[p].ec = flash[p].ec BY <1>1, CutFacts
  <2> QED BY <1>3, <1>5, <2>1 DEF Found, IsUsed
<1> QED BY <1>3, <1>4, <1>5, <1>6

\* What an append leaves begins with what was there.
LEMMA OldContents ==
    ASSUME EbaAll, NEW l \in LEBs, op[l].kind = "append", NEW x \in Leftovers(l)
    PROVE  LET d == flash[ebaTbl[l]].data IN
           /\ d \in Pages /\ x.data \in Pages /\ Len(d) \in Nat
           /\ \A n \in 0 .. Len(d) : n <= Len(x.data) /\ SubSeq(x.data, 1, n) = SubSeq(d, 1, n)
<1> DEFINE d == flash[ebaTbl[l]].data
           r == flash[ebaTbl[l]]
<1>1. PICK t \in Pages : Len(t) <= Len(op[l].val) /\ x = [flash[ebaTbl[l]] EXCEPT !.data = flash[ebaTbl[l]].data \o t]
  BY LeftoverOld
<1>2. d \in Pages /\ op[l].val \in Pages /\ r \in FlashType BY AppendFacts, Facts
<1> DEFINE i == Len(d)
           j == Len(op[l].val)
           k == Len(t)
           e == d \o t
<1>a. i + j <= MaxPages BY AppendFacts
<1>b. i \in Nat /\ j \in Nat /\ k \in Nat /\ k <= j BY <1>1, <1>2, PagesAre
<1>3. x = [r EXCEPT !.data = e] BY <1>1
<1> HIDE DEF d, e, r, i, j, k
<1>4. i + k <= MaxPages BY <1>a, <1>b, EbaBounds
<1>5. Len(d) + Len(t) <= MaxPages BY <1>4 DEF i, k
<1>6. e \in Pages /\ \A n \in 0 .. Len(d) : n <= Len(e) /\ SubSeq(e, 1, n) = SubSeq(d, 1, n)
  BY <1>1, <1>2, <1>5, ConcatPages DEF e
<1>7. x.data = e BY <1>2, <1>3 DEF FlashType
<1>8. Len(d) \in Nat BY <1>b DEF i
<1> QED BY <1>2, <1>6, <1>7, <1>8 DEF d

\* Appending to a PEB does not invalidate its CRC.
LEMMA OldGood ==
    ASSUME EbaAll, SafeFaults, NEW f \in PowerCutFlash, NEW l \in LEBs, NEW p, p = ebaTbl[l],
           p # None, ~Stale(l), Good(flash, p)
    PROVE  Good(f, p)
<1>1. /\ p \in Found(f, l) /\ p \in Found(flash, l) /\ f[p].vid = flash[p].vid
      /\ f[p] = flash[p] \/ (op[l].kind = "append" /\ f[p] \in Leftovers(l))
  BY OldPeb
<1>2. CASE f[p] = flash[p] BY <1>2 DEF Good, CrcOk
<1>3. CASE op[l].kind = "append" /\ f[p] \in Leftovers(l)
  <2> DEFINE x == f[p]
             d == flash[p].data
             s == flash[p].vid.sum
  <2>1. x \in Leftovers(l) BY <1>3
  <2>2. s \in Pages
    <3>1. IsUsed(f, p) /\ p \in PEBs BY <1>1 DEF Found
    <3> QED BY <3>1, <1>1, CutUsed
  <2> HIDE DEF x
  <2>3. /\ d \in Pages /\ x.data \in Pages /\ Len(d) \in Nat
        /\ \A n \in 0 .. Len(d) : n <= Len(x.data) /\ SubSeq(x.data, 1, n) = SubSeq(d, 1, n)
    BY <1>3, <2>1, OldContents
  <2>4. ASSUME s # <<>>, Len(s) <= Len(d), SubSeq(d, 1, Len(s)) = s
        PROVE  Len(s) <= Len(x.data) /\ SubSeq(x.data, 1, Len(s)) = s
    <3>1. Len(s) \in Nat BY <2>2, PagesAre
    <3> HIDE DEF s, d
    <3>2. Len(s) \in 0 .. Len(d) BY <3>1, <2>3, <2>4
    <3> QED BY <3>2, <2>3, <2>4
  <2>5. x.vid.sum = s BY <1>1 DEF x
  <2> QED BY <2>4, <2>5, <1>1 DEF Good, CrcOk, x
<1> QED BY <1>1, <1>2, <1>3

\* A copy that is complete as far as its CRC tells is complete.
LEMMA NewPeb ==
    ASSUME EbaAll, SafeFaults, NEW f \in PowerCutFlash, NEW l \in LEBs, HasNew(op[l]),
           op[l].kind \in {"change", "move"}, op[l].at # "vid",
           op[l].new \in Found(f, l), Good(f, op[l].new)
    PROVE  f[op[l].new].data = op[l].val
<1> DEFINE n == op[l].new
           v == op[l].val
           x == f[n]
<1>1. n \in PEBs /\ IsUsed(f, n) /\ f[n].vid = flash[n].vid BY CutUsed DEF Found
<1>2. flash[n].vid.sum = v
  <2>1. KeepRule(flash, st, l, op[l], ebaTbl[l]) BY KeepFacts
  <2> QED BY <2>1 DEF KeepRule
<1>3. v \in Pages /\ x \in FlashType
  <2>1. op[l] \in OpType BY Facts
  <2> QED BY <2>1, <1>1, CutFacts DEF OpType
<1>4. f[n] = flash[n] \/ f[n] \in Leftovers(l) BY CutSame
<1>5. CASE op[l].at = "data"
  <2>1. x.data \in Interrupted(v)
    <3>1. CASE x \in Leftovers(l)
      <4> HIDE DEF x
      <4> QED BY <3>1, <1>5, LeftoverNew
    <3>2. CASE f[n] = flash[n]
      <4>1. x.data = <<>> BY <3>2, <1>5, NewFacts
      <4>2. SubSeq(v, 1, 0) = <<>> /\ 0 \in 0 .. Len(v)
        <5>1. v \in Seq(Cells) BY <1>3, PagesAre
        <5> HIDE DEF v
        <5> QED BY <5>1
      <4> QED BY <4>1, <4>2 DEF Interrupted, Prefixes
    <3> QED BY <3>1, <3>2, <1>4
  <2>2. f[n].vid.sum = v /\ f[n].data \in Interrupted(v) /\ Good(f, n) BY <2>1, <1>1, <1>2
  <2> HIDE DEF v, n
  <2>3. f[n].data = v BY <2>2, <1>3, GoodLeftover
  <2> QED BY <2>3 DEF v, n
<1>6. CASE op[l].at # "data"
  <2>1. f[n] = flash[n]
    <3>1. x \notin Leftovers(l)
      <4> HIDE DEF x
      <4> QED BY <1>6, LeftoverNew
    <3> QED BY <3>1, <1>4
  <2>2. op[l].at \in {"map", "put"} BY <1>6, Facts DEF OpShape, HasNew
  <2>3. LebRule(flash, l, op[l], ebaTbl[l]) BY Facts
  <2> QED BY <2>1, <2>2, <2>3 DEF LebRule
<1> QED BY <1>5, <1>6

\* The PEB the scan finds holds what the LEB had, or what the call writes.
LEMMA WinnerIs ==
    ASSUME EbaAll, SafeFaults, NEW f \in PowerCutFlash, NEW l \in LEBs, NEW p, p = ebaTbl[l],
           p # None, ~Stale(l), NEW w, w = ScanTbl(f)[l]
    PROVE  /\ w \in Found(f, l)
           /\ \/ w = p
              \/ /\ w = op[l].new /\ HasNew(op[l]) /\ op[l].at # "vid" /\ Good(f, w)
                 /\ op[l].kind \in {"change", "move"}
              \/ op[l].kind = "change" /\ f[w].data = op[l].val
<1>1. /\ p \in Found(f, l) /\ p \in Found(flash, l) /\ f[p].vid = flash[p].vid
  BY OldPeb
<1>2. w \in Found(f, l) /\ \A q \in Found(f, l) \ {w} : Beats(f, w, q)
  BY <1>1, CutHeads, ScanFacts
<1>3. /\ w \in PEBs /\ IsUsed(f, w) /\ IsUsed(flash, w) /\ f[w].vid = flash[w].vid /\ w \in Found(flash, l)
      /\ f[w].vid.sqnum \in 0 .. MaxSq
  <2>1. w \in PEBs /\ IsUsed(f, w) /\ f[w].vid.lnum = l BY <1>2 DEF Found
  <2>2. IsUsed(flash, w) /\ f[w].vid = flash[w].vid /\ f[w].vid.sqnum \in 0 .. MaxSq BY <2>1, CutUsed
  <2> QED BY <2>1, <2>2 DEF Found
<1>4. p \in PEBs /\ IsUsed(f, p) /\ f[p].vid.sqnum \in 0 .. MaxSq
  <2>1. p \in PEBs /\ IsUsed(f, p) BY <1>1 DEF Found
  <2> QED BY <2>1, CutUsed
<1> DEFINE a == f[w].vid.sqnum
           b == f[p].vid.sqnum
<1>5. a \in 0 .. MaxSq /\ b \in 0 .. MaxSq /\ MaxSq \in Nat BY <1>3, <1>4, EbaBounds
<1>6. w # p => a # b
  <2>1. HeadsOf(f) BY CutHeads
  <2> QED BY <2>1, <1>3, <1>4 DEF HeadsOf
<1>7. w # p => IF a > b THEN Good(f, w) ELSE ~Good(f, p) BY <1>1, <1>2, BeatsIs
<1>8. OpShape(op[l]) /\ OpPebs(op[l], p) /\ op[l].kind # "recover" BY Facts, KeepFacts
<1>9. CASE w # p /\ w = op[l].new
  <2>1. HasNew(op[l]) BY <1>3, <1>8, <1>9, NoneNotPeb DEF OpShape
  <2>2. op[l].at # "vid"
    <3>1. op[l].at = "vid" => flash[w].vid = NoVid BY <2>1, <1>9, NewFacts
    <3> QED BY <3>1, <1>3 DEF IsUsed
  <2>3. op[l].kind \in {"change", "move"} BY <2>1, <1>8 DEF HasNew, OpPebs
  <2>4. p # op[l].new BY <1>9
  <2>5. flash[p].ec /\ st[p] # "bad" /\ flash[p].vid \notin {NoVid, TornVid} /\ flash[p].vid.lnum = l
    BY <1>1 DEF Found, IsUsed
  <2>6. flash[p].vid.sqnum < flash[w].vid.sqnum BY <1>4, <1>9, <2>1, <2>2, <2>4, <2>5, NewHighest
  <2>7. b < a BY <2>6, <1>1, <1>3
  <2> HIDE DEF a, b
  <2>8. a > b BY <2>7, <1>5
  <2> QED BY <2>1, <2>2, <2>3, <2>8, <1>2, <1>7, <1>9
<1>10. CASE w # p /\ w # op[l].new
  <2>1. f[w] = flash[w]
    <3>1. w # Target(l)
      <4>1. op[l].kind = "append" => op[l].old = p BY <1>8 DEF OpPebs
      <4> QED BY <4>1, <1>10 DEF Target
    <3> QED BY <3>1, <1>2, CutSame
  <2>2. Good(f, w) <=> Good(flash, w) BY <2>1 DEF Good, CrcOk
  <2>3. KeepRule(flash, st, l, op[l], p) BY KeepFacts
  <2>4. flash[w].ec /\ st[w] # "bad" /\ flash[w].vid \notin {NoVid, TornVid} /\ flash[w].vid.lnum = l
    BY <1>3 DEF Found, IsUsed
  <2>5. IF flash[w].vid.sqnum < flash[p].vid.sqnum THEN Good(flash, p)
        ELSE Good(flash, w) => op[l].kind = "change" /\ st[w] = "dirty" /\ flash[w].data = op[l].val
    <3> HIDE DEF Good
    <3> QED BY <2>3, <2>4, <1>3, <1>10 DEF KeepRule, Stale
  <2>6. IF a < b THEN Good(f, p) ELSE Good(f, w) => op[l].kind = "change" /\ f[w].data = op[l].val
    <3>1. Good(flash, p) => Good(f, p) BY OldGood
    <3>2. flash[w].vid.sqnum = a /\ flash[p].vid.sqnum = b BY <1>1, <1>3
    <3> QED BY <2>1, <2>2, <2>5, <3>1, <3>2
  <2> HIDE DEF a, b
  <2>7. a # b BY <1>6, <1>10
  <2>8. a > b \/ a < b BY <2>7, <1>5
  <2>9. ~(a > b /\ a < b) BY <1>5
  <2>10. op[l].kind = "change" /\ f[w].data = op[l].val BY <2>6, <2>8, <2>9, <1>7, <1>10
  <2> QED BY <2>10, <1>2
<1> QED BY <1>2, <1>9, <1>10

\* An atomic change about to map its new PEB, having put the old one.
LEMMA StaleWinner ==
    ASSUME EbaAll, SafeFaults, NEW f \in PowerCutFlash, NEW l \in LEBs, Stale(l)
    PROVE  ScanTbl(f)[l] \in PEBs /\ f[ScanTbl(f)[l]].data = op[l].val
<1> DEFINE n == op[l].new
           w == ScanTbl(f)[l]
<1>1. op[l].kind = "change" /\ op[l].at = "map" /\ HasNew(op[l]) BY DEF Stale, HasNew
<1>2. /\ n \in PEBs /\ flash[n].vid \notin {NoVid, TornVid} /\ flash[n].vid.lnum = l /\ st[n] = "held"
      /\ flash[n].ec
  BY <1>1, NewFacts, KeepFacts
<1>3. f[n] = flash[n]
  <2>1. f[n] = flash[n] \/ \E m \in LEBs : Target(m) = n /\ f[n] \in Leftovers(m) BY <1>2, CutIs
  <2>2. ASSUME NEW m \in LEBs, Target(m) = n, f[n] \in Leftovers(m) PROVE FALSE
    <3> DEFINE x == f[n]
    <3>1. x \in Leftovers(m) BY <2>2
    <3> HIDE DEF x
    <3>2. n \in Uses(m) /\ (op[m].kind = "append" \/ (HasNew(op[m]) /\ op[m].at \in {"vid", "data"}))
      BY <2>2, <3>1, LeftoverPeb
    <3>3. n \in Mine(l) BY <1>1, NewFacts
    <3>4. m = l BY <3>2, <3>3, Apart DEF EbaAll
    <3> QED BY <3>2, <3>4, <1>1
  <2> QED BY <2>1, <2>2
<1>4. n \in Found(f, l) BY <1>2, <1>3 DEF Found, IsUsed
<1>5. w \in Found(f, l) /\ \A q \in Found(f, l) \ {w} : Beats(f, w, q)
  BY <1>4, CutHeads, ScanFacts
<1>6. f[n].data = op[l].val
  <2>1. LebRule(flash, l, op[l], ebaTbl[l]) BY Facts
  <2> QED BY <1>1, <1>3, <2>1 DEF LebRule
<1>7. Good(f, n)
  <2>1. flash[n].vid.sum = op[l].val
    <3>1. KeepRule(flash, st, l, op[l], ebaTbl[l]) BY KeepFacts
    <3> QED BY <1>1, <3>1 DEF KeepRule
  <2>2. op[l].val \in Pages BY Facts DEF OpType
  <2> QED BY <1>3, <1>6, <2>1, <2>2, GoodCopy
<1>8. w = n
  <2> SUFFICES ASSUME w # n PROVE FALSE OBVIOUS
  <2>1. IF f[w].vid.sqnum > f[n].vid.sqnum THEN Good(f, w) ELSE ~Good(f, n) BY <1>4, <1>5, BeatsIs
  <2>2. w \in PEBs /\ IsUsed(f, w) /\ f[w].vid.lnum = l BY <1>5 DEF Found
  <2>3. IsUsed(flash, w) /\ f[w].vid = flash[w].vid /\ f[w].vid.sqnum \in 0 .. MaxSq BY <2>2, CutUsed
  <2>4. flash[w].vid.sqnum < flash[n].vid.sqnum
    <3> HIDE DEF w
    <3>1. w \in PEBs \ {op[l].new} /\ flash[w].ec /\ st[w] # "bad" /\ flash[w].vid \notin {NoVid, TornVid}
          /\ flash[w].vid.lnum = l
      BY <2>2, <2>3 DEF IsUsed
    <3> QED BY <1>1, <3>1, NewHighest
  <2>5. f[n].vid.sqnum \in 0 .. MaxSq
    <3>1. IsUsed(f, n) BY <1>4 DEF Found
    <3> QED BY <3>1, <1>2, CutUsed
  <2> DEFINE a == f[w].vid.sqnum
             b == f[n].vid.sqnum
  <2>6. a \in 0 .. MaxSq /\ b \in 0 .. MaxSq /\ a < b BY <2>3, <2>4, <2>5, <1>3
  <2>7. IF a > b THEN Good(f, w) ELSE ~Good(f, n) BY <2>1
  <2> HIDE DEF a, b
  <2>8. ~(a > b) BY <2>6, EbaBounds
  <2> QED BY <2>7, <2>8, <1>7
<1> QED BY <1>2, <1>6, <1>8

\* Whatever was being done, the scan finds what completed calls wrote.
LEMMA AllSurvives == ASSUME EbaAll, SafeFaults PROVE Durable
<1> SUFFICES ASSUME NEW f \in PowerCutFlash, NEW l \in LEBs, want[l] # Unmapped
             PROVE  LET found == ScanContents(f, l) IN
                    CASE op[l].kind \in {"idle", "move"} -> found = want[l]
                      [] op[l].kind \in {"append", "recover"} ->
                            Len(want[l]) <= Len(found) /\ SubSeq(found, 1, Len(want[l])) = want[l]
                      [] OTHER -> TRUE
  BY DEF Durable, Survives
<1> SUFFICES ASSUME op[l].kind \in {"idle", "move", "append"}
             PROVE  LET found == ScanContents(f, l) IN
                    IF op[l].kind \in {"idle", "move"} THEN found = want[l]
                    ELSE Len(want[l]) <= Len(found) /\ SubSeq(found, 1, Len(want[l])) = want[l]
  BY KeepFacts
<1> DEFINE p == ebaTbl[l]
           w == ScanTbl(f)[l]
<1>1. ~Stale(l) /\ ~Between(op[l]) BY DEF Stale, Between
<1>2. Cont(flash, p) = want[l] BY <1>1, CurFacts, KeepFacts
<1>3. p # None /\ want[l] = flash[p].data BY <1>2 DEF Cont
<1>4. /\ w \in Found(f, l)
      /\ \/ w = p
         \/ w = op[l].new /\ HasNew(op[l]) /\ op[l].at # "vid" /\ Good(f, w) /\ op[l].kind \in {"change", "move"}
         \/ op[l].kind = "change"
  <2> HIDE DEF p, w
  <2>1. p = ebaTbl[l] /\ w = ScanTbl(f)[l] BY DEF p, w
  <2> QED BY <2>1, <1>1, <1>3, WinnerIs
<1>5. ScanContents(f, l) = f[w].data
  <2>1. w # None BY <1>4, NoneNotPeb DEF Found
  <2> QED BY <2>1 DEF ScanContents
<1>6. f[p] = flash[p] \/ (op[l].kind = "append" /\ f[p] \in Leftovers(l)) BY <1>1, <1>3, OldPeb
<1>7. CASE op[l].kind \in {"idle", "move"}
  <2>1. CASE w = p
    <3>1. f[p] = flash[p] BY <1>6, <1>7
    <3> QED BY <2>1, <3>1, <1>3, <1>5, <1>7
  <2>2. CASE w # p
    <3>1. w = op[l].new /\ HasNew(op[l]) /\ op[l].at # "vid" /\ Good(f, w) /\ op[l].kind = "move"
      BY <1>4, <1>7, <2>2
    <3>2. f[w].data = op[l].val BY <3>1, <1>4, NewPeb
    <3>3. op[l].val = want[l] BY <3>1, <1>2, CurFacts
    <3> QED BY <3>2, <3>3, <1>5, <1>7
  <2> QED BY <2>1, <2>2
<1>8. CASE op[l].kind = "append"
  <2>1. w = p
    <3>1. ~HasNew(op[l]) BY <1>8, AppendFacts
    <3> QED BY <1>4, <1>8, <3>1
  <2> DEFINE d == flash[p].data
             x == f[p]
             e == f[p].data
  <2>2. d \in Pages BY <1>8, AppendFacts
  <2>3. Len(d) \in Nat /\ d \in Seq(Cells) BY <2>2, PagesAre
  <2>4. Len(d) <= Len(e) /\ SubSeq(e, 1, Len(d)) = d
    <3>1. SubSeq(d, 1, Len(d)) = d
      <4> HIDE DEF d
      <4> QED BY <2>3, SubSeqAll
    <3>2. CASE f[p] = flash[p] BY <3>1, <3>2, <2>3
    <3>3. CASE x \in Leftovers(l)
      <4> HIDE DEF x
      <4>1. \A n \in 0 .. Len(d) : n <= Len(x.data) /\ SubSeq(x.data, 1, n) = SubSeq(d, 1, n)
        BY <1>8, <3>3, OldContents
      <4>2. Len(d) \in 0 .. Len(d) BY <2>3
      <4>3. Len(d) <= Len(x.data) /\ SubSeq(x.data, 1, Len(d)) = SubSeq(d, 1, Len(d)) BY <4>1, <4>2
      <4> QED BY <4>3, <3>1 DEF x
    <3> QED BY <3>2, <3>3, <1>6
  <2>5. ScanContents(f, l) = e /\ want[l] = d BY <2>1, <1>3, <1>5
  <2> HIDE DEF d, e
  <2>6. op[l].kind \notin {"idle", "move"} BY <1>8
  <2> QED BY <2>4, <2>5, <2>6
<1> QED BY <1>7, <1>8

\* An atomic change is found done or not begun.
LEMMA AllAtomic == ASSUME EbaAll, SafeFaults PROVE ChangeAtomic
<1> SUFFICES ASSUME NEW f \in PowerCutFlash, NEW l \in LEBs, op[l].kind = "change", want[l] # Unmapped
             PROVE  ScanContents(f, l) \in {want[l], op[l].val}
  BY DEF ChangeAtomic
<1> DEFINE p == ebaTbl[l]
           w == ScanTbl(f)[l]
<1>1. CASE Stale(l)
  <2>1. w \in PEBs /\ f[w].data = op[l].val BY <1>1, StaleWinner
  <2>2. ScanContents(f, l) = f[w].data BY <2>1, NoneNotPeb DEF ScanContents
  <2> QED BY <2>1, <2>2
<1>2. CASE ~Stale(l)
  <2>1. ~Between(op[l]) BY <1>2 DEF Stale, Between
  <2>2. Cont(flash, p) = want[l] BY <2>1, CurFacts, KeepFacts
  <2>3. p # None /\ want[l] = flash[p].data BY <2>2 DEF Cont
  <2>4. /\ w \in Found(f, l)
        /\ \/ w = p
           \/ w = op[l].new /\ HasNew(op[l]) /\ op[l].at # "vid" /\ Good(f, w)
           \/ f[w].data = op[l].val
    <3> HIDE DEF p, w
    <3>1. p = ebaTbl[l] /\ w = ScanTbl(f)[l] BY DEF p, w
    <3> QED BY <3>1, <1>2, <2>3, WinnerIs
  <2>5. ScanContents(f, l) = f[w].data
    <3>1. w # None BY <2>4, NoneNotPeb DEF Found
    <3> QED BY <3>1 DEF ScanContents
  <2>6. f[p] = flash[p] BY <1>2, <2>3, OldPeb
  <2>7. CASE w = p BY <2>7, <2>3, <2>5, <2>6
  <2>8. CASE w = op[l].new /\ HasNew(op[l]) /\ op[l].at # "vid" /\ Good(f, w)
    <3>1. f[w].data = op[l].val BY <2>8, <2>4, NewPeb
    <3> QED BY <3>1, <2>5
  <2>9. CASE f[w].data = op[l].val BY <2>9, <2>5
  <2> QED BY <2>4, <2>7, <2>8, <2>9
<1> QED BY <1>1, <1>2

\* The tables and headers are in order.
LEMMA AllInOrder == EbaAll /\ MoveInv => EbaInv
<1> SUFFICES ASSUME EbaAll, MoveInv PROVE EbaInv OBVIOUS
<1>1. EbaTypeOK
  <2>1. mv \in MvType BY DEF MoveInv, MvType
  <2> QED BY <2>1 DEF EbaAll, TypeInv, CurInv, EbaTypeOK
<1>2. ASSUME NEW l \in LEBs, ebaTbl[l] # None, ~Stale(l)
      PROVE  ebaTbl[l] \in Holds(l) /\ st[ebaTbl[l]] = "held"
  BY <1>2, TableHeld
<1>3. TablesExclusive
  <2>1. ASSUME NEW l \in LEBs, NEW m \in LEBs, ebaTbl[l] = ebaTbl[m], ebaTbl[l] # None, ~Stale(l), ~Stale(m)
        PROVE  l = m
    BY <1>2, <2>1 DEF EbaAll, OwnInv
  <2> QED BY <1>2, <2>1 DEF TablesExclusive
<1> QED BY <1>1, <1>3, CutDecides DEF EbaInv, EbaAll, SqInv

\* Reads are current between the calls.
LEMMA AllCurrent == ASSUME EbaAll PROVE ReadsCurrent
BY DEF EbaAll, CurInv, ReadsCurrent, Stale

(***************************************************************************)
(* The theorems.                                                           *)
(***************************************************************************)
\* The invariants are inductive.
LEMMA NextKeeps == ASSUME EbaAll, MoveInv, [Next]_vars PROVE EbaAll' /\ MoveInv'
<1>1. CASE \E l \in LEBs : LebStep(l) BY <1>1, LebStepKeeps
<1>2. CASE \E p \in PEBs : WipePeb(p) \/ CleanPeb(p) \/ RetirePeb(p)
  <2>1. PICK p \in PEBs : WipePeb(p) \/ CleanPeb(p) \/ RetirePeb(p) BY <1>2
  <2> QED BY <2>1, PoolSteps, PoolKeeps, PoolKeepsMove
<1>3. CASE PowerCut
  <2>1. mv' = NoMove BY <1>3 DEF PowerCut
  <2> QED BY <1>3, <2>1, PowerCutKeeps DEF MoveInv, NoMove
<1>4. CASE \E p, q \in PEBs : SelectMove(p, q) BY <1>4, SelectSteps, PoolKeeps
<1>5. CASE CancelMove
  <2>1. mv' = NoMove /\ UNCHANGED <<st, flash, ebaTbl, op, sqnum, roMode, want>> BY <1>5 DEF CancelMove
  <2> QED BY <2>1, StutterKeeps DEF MoveInv, NoMove
<1>6. CASE UNCHANGED vars
  <2>1. UNCHANGED <<st, flash, ebaTbl, op, mv, sqnum, roMode, want>> BY <1>6 DEF vars
  <2> QED BY <2>1, StutterKeeps DEF MoveInv, NoMove
<1> QED BY <1>1, <1>2, <1>3, <1>4, <1>5, <1>6 DEF Next

\* The invariants hold in every reachable state, whatever fails: the tables
\* and the PEBs of the operations in eba.c are disjoint and held, the headers
\* on flash are those the operations wrote, their sequence numbers are unique,
\* and so on (see the definitions above).
THEOREM EbaAllInvariant == Spec => [](EbaAll /\ MoveInv)
<1>1. Init => EbaAll /\ MoveInv BY InitAll
<1>2. EbaAll /\ MoveInv /\ [Next]_vars => EbaAll' /\ MoveInv' BY NextKeeps
<1> QED BY <1>1, <1>2, PTL DEF Spec

\* The tables eba.c keeps have their types, no two LEBs share a PEB, every
\* VID header on flash has its own sequence number below global_sqnum, and
\* after a power cut at any moment ubi_scan_add_used() decides for one PEB of
\* each LEB whatever order it meets them in -- for any number of PEBs, LEBs,
\* pages and tries, and all faults.
THEOREM EbaInvariant == Spec => []EbaInv
BY EbaAllInvariant, AllInOrder, PTL

\* Whatever fails, eba_tbl never leads two LEBs to one PEB, nor any LEB to a
\* PEB the wear-leveling sub-system may hand out or erase.
THEOREM TablesStayExclusive == Spec => []TablesExclusive
<1>1. EbaInv => TablesExclusive BY DEF EbaInv
<1> QED BY EbaInvariant, <1>1, PTL

\* A read through eba_tbl returns what the completed calls wrote, however
\* calls, moves, retries and erasures interleave and whatever fails: only if a
\* writing call has returned 0 for its last, failed try (eba.c:690, fault
\* `last_try`), after which the device is read-only, nothing is claimed.
THEOREM ReadsStayCurrent == Spec => []ReadsCurrent
<1>1. EbaAll => ReadsCurrent BY AllCurrent
<1> QED BY EbaAllInvariant, <1>1, PTL

\* If only power cuts, failing first writes, failing move targets and failing
\* erasures happen, the scan after a power cut brings back what completed
\* calls wrote, however calls, moves and erasures interleave.
THEOREM StaysDurable == ASSUME SafeFaults PROVE Spec => []Durable
<1>1. EbaAll => Durable BY AllSurvives
<1> QED BY EbaAllInvariant, <1>1, PTL

\* Under the same faults ubi_eba_atomic_leb_change() leaves the old contents
\* or the new one wherever the power is cut.
THEOREM ChangesStayAtomic == ASSUME SafeFaults PROVE Spec => []ChangeAtomic
<1>1. EbaAll => ChangeAtomic BY AllAtomic
<1> QED BY EbaAllInvariant, <1>1, PTL
=============================================================================
