------------------------------- MODULE UbiVol -------------------------------
(***************************************************************************)
(* The volumes of a UBI device (src/modules/ubi: vmt.c, vtbl.c, upd.c, the *)
(* opens of kapi.c, the ioctls of cdev.c, the attach of eba.c).            *)
(*                                                                         *)
(* Processes open volumes, and create, remove, re-size, re-name and update *)
(* them.  The volume table describes every volume; it is kept in RAM and   *)
(* in the two LEBs of the layout volume, which are re-written one after    *)
(* the other.  Who changes the table holds device_mutex, who changes a     *)
(* volume holds it open in exclusive mode, and the rest is protected by    *)
(* volumes_lock, within one step.                                          *)
(*                                                                         *)
(* An unmapped LEB stays on flash until the background thread has erased   *)
(* its PEB: "pend" remembers the newest such contents of every LEB, and a  *)
(* power cut finds those not erased yet.  The volumes are dynamic.  An     *)
(* operation refused before it changed anything is not a step.             *)
(***************************************************************************)
EXTENDS Integers, FiniteSets, FiniteSetsExt, Functions

CONSTANTS
    Clients,    \* processes
    Vols,       \* volume IDs, the slots of the volume table
    Names,      \* volume names
    None,       \* no volume, no record, nothing mapped
    MaxSize,    \* largest volume size in LEBs
    DataLebs,   \* <<volume, LEB>> to which data is written
    GoodPebs,   \* good_peb_count at first
    MaxBad,     \* PEBs that may go bad
    Fixed,      \* PEBs of the layout volume, WL_RESERVED_PEBS, EBA_RESERVED_PEBS
    BebLevel,   \* beb_rsvd_level
    Ops,        \* operations the processes use
    Faults      \* whether the flash may fail, which makes the device read-only

ASSUME VolSizes ==
    /\ IsFiniteSet(Clients) /\ IsFiniteSet(Vols) /\ IsFiniteSet(Names)
    /\ Vols \subseteq Nat
    /\ MaxSize \in Nat \ {0} /\ BebLevel \in Nat \ {0} /\ MaxBad \in Nat
    /\ GoodPebs \in Nat /\ Fixed \in Nat /\ GoodPebs >= Fixed + BebLevel + MaxBad
    /\ DataLebs \subseteq Vols \X (0 .. MaxSize - 1)

ASSUME VolFaults == Faults \in BOOLEAN

VARIABLES
    dev,        \* "on", or "refused" when the attach failed
    ro,         \* ro_mode
    vols,       \* volumes[]
    vtbl,       \* vtbl[], the table in RAM
    lay,        \* contents of the LEBs of the layout volume
    layPend,    \* their newest contents waiting for erasure
    eba,        \* what the LEBs of a volume are mapped to
    pend,       \* their newest contents waiting for erasure
    avail,      \* avail_pebs
    beb,        \* beb_rsvd_pebs
    good,       \* good_peb_count
    mutex,      \* holder of device_mutex
    stage,      \* how far the table is written
    pc,         \* what a process does next
    desc,       \* desc[c][v]: the mode in which c has v open
    job,        \* the request a process executes
    done,       \* history: the table as last written to LEB 0
    torn        \* history: volumes of a re-name that broke off

flash == <<lay, layPend, eba, pend>>
pebs == <<avail, beb, good>>
hist == <<done, torn>>
vars == <<dev, ro, vols, vtbl, flash, pebs, mutex, stage, pc, desc, job, hist>>

Lebs == 0 .. MaxSize - 1
Modes == {"ro", "rw", "ex"}

\* "data" is what the volume holds now, "new" what a running update writes,
\* "stale" what was there before an update or a removal that is over.
Contents == {"data", "new", "stale"}

\* struct ubi_vtbl_record
Records == [size : 0 .. MaxSize, name : Names \cup {None}, mark : BOOLEAN]
Tables == [Vols -> Records]

empty_vtbl_record == [size |-> 0, name |-> None, mark |-> FALSE]
EmptyTable == [v \in Vols |-> empty_vtbl_record]

\* struct ubi_volume.  use counts readers, writers and exclusive; listed tells
\* whether volumes[] points to it.
Volumes == [size : 1 .. MaxSize, name : Names, mark : BOOLEAN, use : [Modes -> Nat],
            refs : Nat, updating : BOOLEAN, listed : BOOLEAN]

Unused == [m \in Modes |-> 0]
Only(m) == [Unused EXCEPT ![m] = 1]

Fresh(rec) == [size |-> rec.size, name |-> rec.name, mark |-> rec.mark, use |-> Unused,
               refs |-> 0, updating |-> FALSE, listed |-> TRUE]

RecordOf(vol) ==
    IF vol = None THEN empty_vtbl_record
    ELSE [size |-> vol.size, name |-> vol.name, mark |-> vol.mark]

ASSUME VolNone ==
    /\ None \notin Clients /\ None \notin Vols /\ None \notin Names
    /\ None \notin Modes /\ None \notin Contents
    /\ None \notin Records /\ None \notin Volumes /\ None \notin Tables

Closed == [v \in Vols |-> None]
Exists(v) == vols[v] # None /\ vols[v].listed
Holds(c, v, m) == desc[c][v] = m

\* Process c may begin something.  Bound: nothing begins after a re-name that
\* broke off, until the next attach.
Idle(c) == dev = "on" /\ pc[c] = "idle" /\ desc[c] = Closed /\ torn = {}

Nothing == [l \in Lebs |-> None]

\* A request: its volume and the record for it; of a re-name the new names,
\* the volumes whose new name is not looked up yet, and those to remove.
NoJob == [op |-> "none", vol |-> None, rec |-> None, names |-> <<>>, todo |-> {}, drop |-> {}]

\* Re-name requests: new names, each given to one volume only.
Renames == UNION {[S -> Names] : S \in SUBSET Vols}
Requests == {f \in Renames : DOMAIN f # {} /\ IsInjective(f)}

TotalSize(t) == SumFunctionOnSet([v \in Vols |-> t[v].size], Vols)

\* Mutant of Topped: the PEBs are given twice.
ToppedTwice(a, b, level) == [avail |-> a, beb |-> Max({b, level})]

\* remove, re-size and the death of a PEB top up the PEBs reserved for bad
\* PEB handling.
Topped(a, b, level) == LET n == Max({0, Min({level - b, a})}) IN [avail |-> a - n, beb |-> b + n]

Init ==
    /\ dev = "on" /\ ro = FALSE
    /\ vols = Closed /\ vtbl = EmptyTable /\ done = EmptyTable
    /\ lay = [i \in 0 .. 1 |-> EmptyTable] /\ layPend = [i \in 0 .. 1 |-> None]
    /\ eba = [v \in Vols |-> Nothing] /\ pend = [v \in Vols |-> Nothing]
    /\ good = GoodPebs /\ beb = BebLevel /\ avail = GoodPebs - Fixed - BebLevel
    /\ mutex = None /\ stage = 0
    /\ pc = [c \in Clients |-> "idle"] /\ job = [c \in Clients |-> NoJob]
    /\ desc = [c \in Clients |-> Closed]
    /\ torn = {}

-----------------------------------------------------------------------------
(***************************************************************************)
(* Opening and closing.                                                    *)
(***************************************************************************)

CanOpen(v, m) ==
    /\ Exists(v)
    /\ vols[v].use["ex"] = 0
    /\ m \in {"rw", "ex"} => vols[v].use["rw"] = 0
    /\ m = "ex" => vols[v].use["ro"] = 0

\* One more, and one less, descriptor of a volume.
Entered(vol, m) ==
    [vol EXCEPT !.use = [vol.use EXCEPT ![m] = vol.use[m] + 1], !.refs = vol.refs + 1]
Left(vol, m) ==
    [vol EXCEPT !.use = [vol.use EXCEPT ![m] = vol.use[m] - 1], !.refs = vol.refs - 1]

Opened(v, m) == [vols EXCEPT ![v] = Entered(vols[v], m)]

\* ubi_close_volume() of every volume c has open.
ClosedBy(vs, c) ==
    [v \in Vols |->
        IF vs[v] = None \/ desc[c][v] = None THEN vs[v]
        ELSE Left(vs[v], desc[c][v])]

\* The character device opens a volume for reading or for writing.
Open(c, v, m) ==
    /\ "open" \in Ops /\ Idle(c)
    /\ m \in {"ro", "rw"} /\ CanOpen(v, m)
    /\ vols' = Opened(v, m)
    /\ desc' = [desc EXCEPT ![c][v] = m]
    /\ UNCHANGED <<dev, ro, vtbl, flash, pebs, mutex, stage, pc, job, hist>>

\* The release of the character device also gives up an update.
Close(c) ==
    /\ pc[c] \in {"idle", "write"} /\ desc[c] # Closed
    /\ vols' = LET vs == ClosedBy(vols, c)
               IN  [v \in Vols |-> IF desc[c][v] = None THEN vs[v]
                                   ELSE [vs[v] EXCEPT !.updating = FALSE]]
    /\ desc' = [desc EXCEPT ![c] = Closed]
    /\ pc' = [pc EXCEPT ![c] = "idle"]
    /\ job' = [job EXCEPT ![c] = NoJob]
    /\ UNCHANGED <<dev, ro, vtbl, flash, pebs, mutex, stage, hist>>

\* A sysfs attribute of volume v is read: a reference keeps the volume.
ShowStart(c, v) ==
    /\ "show" \in Ops /\ Idle(c) /\ Exists(v)
    /\ vols' = [vols EXCEPT ![v].refs = @ + 1]
    /\ pc' = [pc EXCEPT ![c] = "show"]
    /\ job' = [job EXCEPT ![c].vol = v]
    /\ UNCHANGED <<dev, ro, vtbl, flash, pebs, mutex, stage, desc, hist>>

ShowEnd(c) ==
    /\ pc[c] = "show"
    /\ vols' = [vols EXCEPT ![job[c].vol].refs = @ - 1]
    /\ pc' = [pc EXCEPT ![c] = "idle"]
    /\ job' = [job EXCEPT ![c] = NoJob]
    /\ UNCHANGED <<dev, ro, vtbl, flash, pebs, mutex, stage, desc, hist>>

-----------------------------------------------------------------------------
(***************************************************************************)
(* LEBs of a volume.                                                       *)
(***************************************************************************)
\* ubi_eba_unmap_leb() of a set of <<volume, LEB>>.
Unmapped(S) ==
    /\ eba' = [v \in Vols |-> [l \in Lebs |-> IF <<v, l>> \in S THEN None ELSE eba[v][l]]]
    /\ pend' = [v \in Vols |-> [l \in Lebs |->
                  IF <<v, l>> \in S /\ eba[v][l] # None THEN eba[v][l] ELSE pend[v][l]]]

\* ubi_eba_write_leb(): what is on flash of the LEB is older from now on.
Written(v, l, what) ==
    /\ eba' = [eba EXCEPT ![v][l] = what]
    /\ pend' = [pend EXCEPT ![v][l] = None]

\* Mutant of Flushed: the erasures are not waited for.
FlushedLater == UNCHANGED <<layPend, pend>>

\* ubi_wl_flush(): the background thread has erased whatever was waiting.
Flushed ==
    /\ layPend' = [i \in 0 .. 1 |-> None]
    /\ pend' = [v \in Vols |-> Nothing]

Write(c, v, l) ==
    /\ pc[c] = "idle" /\ Holds(c, v, "rw") /\ ~ro /\ ~vols[v].mark
    /\ <<v, l>> \in DataLebs /\ l < vols[v].size /\ eba[v][l] = None
    /\ Written(v, l, "data")
    /\ UNCHANGED <<dev, ro, vols, vtbl, lay, layPend, pebs, mutex, stage, pc, desc, job, hist>>

Unmap(c, v, l) ==
    /\ pc[c] = "idle" /\ Holds(c, v, "rw") /\ ~ro /\ ~vols[v].mark
    /\ l < vols[v].size /\ eba[v][l] # None
    /\ Unmapped({<<v, l>>})
    /\ UNCHANGED <<dev, ro, vols, vtbl, lay, layPend, pebs, mutex, stage, pc, desc, job, hist>>

\* An erasure fails: the PEB is marked bad and taken from the reserve
\* (erase_worker).
PebGoesBad ==
    /\ dev = "on" /\ ~ro /\ good > GoodPebs - MaxBad
    /\ LET r == Topped(avail, beb, BebLevel + 1)
       IN  /\ avail' = r.avail
           /\ IF r.beb = 0 THEN ro' = TRUE /\ UNCHANGED <<beb, good>>
              ELSE beb' = r.beb - 1 /\ good' = good - 1 /\ UNCHANGED ro
    /\ UNCHANGED <<dev, vols, vtbl, flash, mutex, stage, pc, desc, job, hist>>

\* An erasure fails for another reason: erase_worker() gives up.
GoesReadOnly ==
    /\ Faults /\ dev = "on" /\ ~ro /\ ro' = TRUE
    /\ UNCHANGED <<dev, vols, vtbl, flash, pebs, mutex, stage, pc, desc, job, hist>>

-----------------------------------------------------------------------------
(***************************************************************************)
(* Requests, up to the change of the table.                                *)
(***************************************************************************)
\* mutex_lock(&ubi->device_mutex), and the new table in RAM.
ChangeTable(c, t) ==
    /\ mutex' = c /\ vtbl' = t /\ stage' = 0
    /\ pc' = [pc EXCEPT ![c] = "table"]

NamesUsed == {vols[v].name : v \in {w \in Vols : Exists(w)}}

Enough(n) == n <= avail

\* ubi_create_volume() up to the flush: the PEBs are reserved.
CreateStart(c, v, n, s) ==
    /\ "create" \in Ops /\ Idle(c)
    /\ mutex = None /\ ~ro
    /\ ~Exists(v) /\ n \notin NamesUsed /\ Enough(s)
    /\ avail' = avail - s
    /\ mutex' = c
    /\ pc' = [pc EXCEPT ![c] = "flush"]
    /\ job' = [job EXCEPT ![c] = [NoJob EXCEPT !.op = "create", !.vol = v,
                                    !.rec = [size |-> s, name |-> n, mark |-> FALSE]]]
    /\ UNCHANGED <<dev, ro, vols, vtbl, flash, beb, good, stage, desc, hist>>

\* LEBs of an earlier volume with the same ID are erased first.
CreateFlush(c) ==
    /\ pc[c] = "flush"
    /\ Flushed
    /\ ChangeTable(c, [vtbl EXCEPT ![job[c].vol] = job[c].rec])
    /\ UNCHANGED <<dev, ro, vols, lay, eba, pebs, desc, job, hist>>

\* The ioctls that remove and re-size a volume open it first.
Request(c, v, j) ==
    /\ j.op \in Ops /\ Idle(c)
    /\ CanOpen(v, "ex")
    /\ vols' = Opened(v, "ex")
    /\ desc' = [desc EXCEPT ![c][v] = "ex"]
    /\ pc' = [pc EXCEPT ![c] = "lock"]
    /\ job' = [job EXCEPT ![c] = j]
    /\ UNCHANGED <<dev, ro, vtbl, flash, pebs, mutex, stage, hist>>

Remove(c, v) == Request(c, v, [NoJob EXCEPT !.op = "remove", !.vol = v])

Resize(c, v, s) ==
    Request(c, v, [NoJob EXCEPT !.op = "resize", !.vol = v,
                                !.rec = [RecordOf(vols[v]) EXCEPT !.size = s]])

\* Whether the request is refused once device_mutex is taken.
Refused(c) ==
    LET j == job[c]
    IN  \/ j.op \in {"remove", "resize"} /\ (ro \/ vols[j.vol].refs > 1)
        \/ j.op = "resize" /\ \/ j.rec.size = vols[j.vol].size
                              \/ ~Enough(j.rec.size - vols[j.vol].size)

\* ioctl ends: its volumes are closed.
Ends(c, vs) ==
    /\ vols' = ClosedBy(vs, c)
    /\ desc' = [desc EXCEPT ![c] = Closed]
    /\ pc' = [pc EXCEPT ![c] = "idle"]
    /\ job' = [job EXCEPT ![c] = NoJob]

GiveUp(c) ==
    /\ pc[c] = "lock" /\ mutex = None /\ Refused(c)
    /\ Ends(c, vols)
    /\ UNCHANGED <<dev, ro, vtbl, flash, pebs, mutex, stage, hist>>

LockRemove(c) ==
    /\ pc[c] = "lock" /\ job[c].op = "remove" /\ mutex = None /\ ~Refused(c)
    /\ vols' = [vols EXCEPT ![job[c].vol].listed = FALSE]
    /\ ChangeTable(c, [vtbl EXCEPT ![job[c].vol] = empty_vtbl_record])
    /\ UNCHANGED <<dev, ro, flash, pebs, desc, job, hist>>

\* PEBs a re-size takes before the table is written.
Growth(j) == Max({0, j.rec.size - vols[j.vol].size})

LockResize(c) ==
    /\ pc[c] = "lock" /\ job[c].op = "resize" /\ mutex = None /\ ~Refused(c)
    /\ avail' = avail - Growth(job[c])
    /\ ChangeTable(c, [vtbl EXCEPT ![job[c].vol].size = job[c].rec.size])
    /\ UNCHANGED <<dev, ro, vols, flash, beb, good, desc, job, hist>>

-----------------------------------------------------------------------------
(***************************************************************************)
(* Re-naming: every volume is opened, then the volumes that have one of    *)
(* the new names; only then device_mutex is taken.                         *)
(***************************************************************************)
RenameStart(c, f) ==
    /\ "rename" \in Ops /\ Idle(c) /\ ~ro
    /\ pc' = [pc EXCEPT ![c] = "rnopen"]
    /\ job' = [job EXCEPT ![c] = [NoJob EXCEPT !.op = "rename", !.names = f, !.todo = DOMAIN f]]
    /\ UNCHANGED <<dev, ro, vols, vtbl, flash, pebs, mutex, stage, desc, hist>>

\* The next volume of the request; one whose name does not change is closed
\* again.
RenameOpen(c, v) ==
    /\ pc[c] = "rnopen" /\ v \in job[c].todo /\ CanOpen(v, "ex")
    /\ LET same == vols[v].name = job[c].names[v]
           left == job[c].todo \ {v}
           names == IF same THEN Restrict(job[c].names, DOMAIN job[c].names \ {v})
                    ELSE job[c].names
       IN  /\ vols' = IF same THEN vols ELSE Opened(v, "ex")
           /\ desc' = IF same THEN desc ELSE [desc EXCEPT ![c][v] = "ex"]
           /\ job' = [job EXCEPT ![c] = [job[c] EXCEPT
                        !.names = names, !.todo = IF left = {} THEN DOMAIN names ELSE left]]
           /\ pc' = [pc EXCEPT ![c] = IF left # {} THEN "rnopen"
                                       ELSE IF DOMAIN names = {} THEN "idle" ELSE "rnfind"]
    /\ UNCHANGED <<dev, ro, vtbl, flash, pebs, mutex, stage, hist>>

\* Volumes of the request that is executed.
Listed(j) == DOMAIN j.names \cup j.drop

\* ubi_open_volume_nm() looks for a volume with the new name of v, unless it
\* is a volume of the request.
RenameFind(c, v) ==
    /\ pc[c] = "rnfind" /\ v \in job[c].todo
    /\ LET new == job[c].names[v]
           found == {w \in Vols : Exists(w) /\ vols[w].name = new}
           none == found = {} \/ \E u \in Listed(job[c]) : vols[u].name = new
           left == job[c].todo \ {v}
       IN  /\ job' = [job EXCEPT ![c] = [job[c] EXCEPT
                        !.todo = left, !.vol = IF none THEN None ELSE Min(found)]]
           /\ pc' = [pc EXCEPT ![c] = IF ~none THEN "rnnamed"
                                       ELSE IF left = {} THEN "lock" ELSE "rnfind"]
    /\ UNCHANGED <<dev, ro, vols, vtbl, flash, pebs, mutex, stage, desc, hist>>

\* It opens what it has found, if that still exists.
RenameOpenNamed(c) ==
    /\ pc[c] = "rnnamed"
    /\ LET w == job[c].vol
       IN  /\ Exists(w) => CanOpen(w, "ex")
           /\ vols' = IF Exists(w) THEN Opened(w, "ex") ELSE vols
           /\ desc' = IF Exists(w) THEN [desc EXCEPT ![c][w] = "ex"] ELSE desc
           /\ job' = [job EXCEPT ![c] = [job[c] EXCEPT
                        !.vol = None, !.drop = job[c].drop \cup (IF Exists(w) THEN {w} ELSE {})]]
           /\ pc' = [pc EXCEPT ![c] = IF job[c].todo = {} THEN "lock" ELSE "rnfind"]
    /\ UNCHANGED <<dev, ro, vtbl, flash, pebs, mutex, stage, hist>>

\* A volume cannot be opened.
RenameBusy(c) ==
    /\ \/ pc[c] = "rnopen" /\ \E v \in job[c].todo : ~CanOpen(v, "ex")
       \/ pc[c] = "rnnamed" /\ Exists(job[c].vol) /\ ~CanOpen(job[c].vol, "ex")
    /\ Ends(c, vols)
    /\ UNCHANGED <<dev, ro, vtbl, flash, pebs, mutex, stage, hist>>

\* Mutant of RenamedTable: the removed volumes stay in the table.
RenamedKeeping(j) ==
    [v \in Vols |-> IF v \in DOMAIN j.names THEN [vtbl[v] EXCEPT !.name = j.names[v]] ELSE vtbl[v]]

\* ubi_vtbl_rename_volumes().
RenamedTable(j) ==
    [v \in Vols |->
        IF v \in j.drop THEN empty_vtbl_record
        ELSE IF v \in DOMAIN j.names THEN [vtbl[v] EXCEPT !.name = j.names[v]] ELSE vtbl[v]]

LockRename(c) ==
    /\ pc[c] = "lock" /\ job[c].op = "rename" /\ mutex = None
    /\ ChangeTable(c, RenamedTable(job[c]))
    /\ UNCHANGED <<dev, ro, vols, flash, pebs, desc, job, hist>>

-----------------------------------------------------------------------------
(***************************************************************************)
(* Updating: the marker is set, the volume wiped out and written, the      *)
(* marker cleared.  Each time the record is copied before device_mutex is  *)
(* taken.                                                                  *)
(***************************************************************************)
Marked(v, b) == [vtbl[v] EXCEPT !.mark = b]

\* UBI_IOCVOLUP: get_exclusive() and ubi_start_update().
UpdateStart(c, v) ==
    /\ "update" \in Ops /\ pc[c] = "idle" /\ Holds(c, v, "rw")
    /\ \A m \in {"ro", "ex"} : vols[v].use[m] = 0
    /\ ~vols[v].updating
    /\ vols' = [vols EXCEPT ![v] = [vols[v] EXCEPT !.use = Only("ex"), !.updating = TRUE]]
    /\ desc' = [desc EXCEPT ![c][v] = "ex"]
    /\ job' = [job EXCEPT ![c] = [NoJob EXCEPT !.op = "mark", !.vol = v,
                                                !.rec = Marked(v, TRUE)]]
    /\ pc' = [pc EXCEPT ![c] = IF vols[v].mark THEN "wipe" ELSE "lock"]
    /\ UNCHANGED <<dev, ro, vtbl, flash, pebs, mutex, stage, hist>>

\* set_update_marker() and clear_update_marker() write the copy.
LockMark(c) ==
    /\ pc[c] = "lock" /\ job[c].op \in {"mark", "clear"} /\ mutex = None
    /\ ChangeTable(c, [vtbl EXCEPT ![job[c].vol] = job[c].rec])
    /\ UNCHANGED <<dev, ro, vols, flash, pebs, desc, job, hist>>

\* The LEBs of the volume; what an unfinished update has written there is
\* nothing but old contents now.
UpdateWipe(c) ==
    /\ pc[c] = "wipe"
    /\ LET v == job[c].vol
           Old(x) == IF x = "new" THEN "data" ELSE x
       IN  IF ro THEN UNCHANGED <<eba, pend>>
           ELSE /\ eba' = [eba EXCEPT ![v] = Nothing]
                /\ pend' = [pend EXCEPT ![v] = [l \in Lebs |->
                              Old(IF eba[v][l] # None THEN eba[v][l] ELSE pend[v][l])]]
    /\ pc' = [pc EXCEPT ![c] = IF ro THEN "idle" ELSE "write"]
    /\ UNCHANGED <<dev, ro, vols, vtbl, lay, layPend, pebs, mutex, stage, desc, job, hist>>

\* A LEB of update data; LEBs of 0xFF bytes only are left out.
UpdateWrite(c, l) ==
    /\ pc[c] = "write" /\ ~ro
    /\ LET v == job[c].vol
       IN  /\ <<v, l>> \in DataLebs /\ l < vols[v].size /\ eba[v][l] = None
           /\ Written(v, l, "new")
    /\ UNCHANGED <<dev, ro, vols, vtbl, lay, layPend, pebs, mutex, stage, pc, desc, job, hist>>

\* All data has arrived: the erasures are waited for and the marker goes.
UpdateFlush(c) ==
    /\ pc[c] = "write" /\ ~ro
    /\ Flushed
    /\ job' = [job EXCEPT ![c] = [job[c] EXCEPT !.op = "clear", !.rec = Marked(job[c].vol, FALSE)]]
    /\ pc' = [pc EXCEPT ![c] = "lock"]
    /\ UNCHANGED <<dev, ro, vols, vtbl, lay, eba, pebs, mutex, stage, desc, hist>>

-----------------------------------------------------------------------------
(***************************************************************************)
(* ubi_change_vtbl_record() and what follows it.                           *)
(***************************************************************************)
\* Contents whose volume is removed, or updated, by the new table.
Passed(j) ==
    LET Drop(x) == IF x = None THEN None ELSE "stale"
        Turn(x) == CASE x = "data" -> "stale" [] x = "new" -> "data" [] OTHER -> x
        Apply(f) ==
            [v \in Vols |-> [l \in Lebs |->
                IF (j.op = "remove" /\ v = j.vol) \/ v \in j.drop THEN Drop(f[v][l])
                ELSE IF j.op = "clear" /\ v = j.vol THEN Turn(f[v][l]) ELSE f[v][l]]]
    IN  eba' = Apply(eba) /\ pend' = Apply(pend)

\* Mutant of LayoutLeb: LEB 1 is written first.
LayoutLebSwapped(n) == 1 - (n \div 2)

LayoutLeb(n) == n \div 2

\* The four steps: LEB 0 is unmapped and written, then LEB 1.
TableStep(c) ==
    /\ pc[c] = "table" /\ ~ro
    /\ LET i == LayoutLeb(stage)
       IN  IF stage % 2 = 0
           THEN /\ lay' = [lay EXCEPT ![i] = None]
                /\ layPend' = [layPend EXCEPT ![i] = lay[i]]
           ELSE /\ lay' = [lay EXCEPT ![i] = vtbl]
                /\ layPend' = [layPend EXCEPT ![i] = None]
    /\ IF stage = 1 THEN done' = vtbl /\ Passed(job[c]) ELSE UNCHANGED <<done, eba, pend>>
    /\ stage' = (stage + 1) % 4
    /\ pc' = [pc EXCEPT ![c] = IF stage = 3 THEN "apply" ELSE "table"]
    /\ UNCHANGED <<dev, ro, vols, vtbl, pebs, mutex, desc, job, torn>>

\* The flush or a write fails and the device is read-only from now on.  Each
\* operation takes back what it can; nobody takes back the table in RAM.
TableFails(c) ==
    /\ pc[c] \in {"flush", "table"} /\ (ro \/ Faults)
    /\ ro' = TRUE
    /\ mutex' = None /\ stage' = 0
    /\ avail' = avail + CASE job[c].op = "create" -> job[c].rec.size
                          [] job[c].op = "resize" -> Growth(job[c])
                          [] OTHER -> 0
    /\ CASE job[c].op = "remove" -> Ends(c, [vols EXCEPT ![job[c].vol].listed = TRUE])
         [] job[c].op \in {"mark", "clear"} ->
                /\ vols' = [vols EXCEPT ![job[c].vol].mark = (job[c].op = "mark")]
                /\ pc' = [pc EXCEPT ![c] = "idle"]
                /\ job' = [job EXCEPT ![c] = NoJob]
                /\ UNCHANGED desc
         [] OTHER -> Ends(c, vols)
    /\ UNCHANGED <<dev, vtbl, flash, beb, good, hist>>

Unlock == mutex' = None

\* The end of ubi_create_volume(): the volume can be found.
CreateEnd(c) ==
    /\ pc[c] = "apply" /\ job[c].op = "create" /\ Unlock
    /\ Ends(c, [vols EXCEPT ![job[c].vol] = Fresh(job[c].rec)])
    /\ UNCHANGED <<dev, ro, vtbl, flash, pebs, stage, hist>>

\* PEBs that come back.
Returned(n) ==
    LET r == Topped(avail + n, beb, BebLevel) IN avail' = r.avail /\ beb' = r.beb /\ UNCHANGED good

WholeOf(S) == {p \in Vols \X Lebs : p[1] \in S /\ p[2] < vols[p[1]].size}

\* The end of ubi_remove_volume().
RemoveEnd(c) ==
    /\ pc[c] = "apply" /\ job[c].op = "remove" /\ ~ro /\ Unlock
    /\ Unmapped(WholeOf({job[c].vol}))
    /\ Returned(vols[job[c].vol].size)
    /\ Ends(c, [vols EXCEPT ![job[c].vol] = None])
    /\ UNCHANGED <<dev, ro, vtbl, lay, layPend, stage, hist>>

\* The end of ubi_resize_volume().
ResizeEnd(c) ==
    /\ pc[c] = "apply" /\ job[c].op = "resize" /\ Unlock
    /\ LET v == job[c].vol
           size == job[c].rec.size
       IN  /\ IF size < vols[v].size
              THEN /\ Unmapped({<<v, l>> : l \in size .. vols[v].size - 1})
                   /\ Returned(vols[v].size - size)
              ELSE UNCHANGED <<eba, pend, pebs>>
           /\ size < vols[v].size => ~ro
           /\ Ends(c, [vols EXCEPT ![v].size = size])
    /\ UNCHANGED <<dev, ro, vtbl, lay, layPend, stage, hist>>

\* A removal or a re-size finds the device read-only when it unmaps a LEB: the
\* volume stays, the table is changed.
UnmapFails(c) ==
    /\ pc[c] = "apply" /\ job[c].op \in {"remove", "resize"} /\ ro /\ Unlock
    /\ LET v == job[c].vol
           first == IF job[c].op = "remove" THEN 0 ELSE job[c].rec.size
       IN  /\ \E l \in first .. vols[v].size - 1 : Unmapped({v} \X (first .. l - 1))
           /\ Ends(c, [vols EXCEPT ![v].listed = TRUE])
    /\ UNCHANGED <<dev, ro, vtbl, lay, layPend, pebs, stage, hist>>

\* The end of ubi_rename_volumes(): removals come first and the first one that
\* fails, since the volume is busy or the device read-only, ends everything.
RenameEnd(c) ==
    /\ pc[c] = "apply" /\ job[c].op = "rename" /\ Unlock
    /\ LET j == job[c]
           busy == {w \in j.drop : vols[w].refs > 1}
       IN  \E gone \in SUBSET (j.drop \ busy) :
             /\ busy = {} /\ ~ro => gone = j.drop
             /\ Unmapped(WholeOf(gone))
             /\ Returned(SumFunctionOnSet([w \in gone |-> vols[w].size], gone))
             /\ Ends(c, [v \in Vols |->
                           IF v \in gone THEN None
                           ELSE IF gone = j.drop /\ v \in DOMAIN j.names
                                THEN [vols[v] EXCEPT !.name = j.names[v]] ELSE vols[v]])
             /\ torn' = torn \cup (IF gone = j.drop THEN {} ELSE Listed(j))
    /\ UNCHANGED <<dev, ro, vtbl, lay, layPend, stage, done>>

MarkEnd(c) ==
    /\ pc[c] = "apply" /\ job[c].op = "mark" /\ Unlock
    /\ vols' = [vols EXCEPT ![job[c].vol].mark = TRUE]
    /\ pc' = [pc EXCEPT ![c] = "wipe"]
    /\ UNCHANGED <<dev, ro, vtbl, flash, pebs, stage, desc, job, hist>>

\* The update is finished: revoke_exclusive().
ClearEnd(c) ==
    /\ pc[c] = "apply" /\ job[c].op = "clear" /\ Unlock
    /\ vols' = [vols EXCEPT ![job[c].vol] =
                   [vols[job[c].vol] EXCEPT !.mark = FALSE, !.updating = FALSE, !.use = Only("rw")]]
    /\ desc' = [desc EXCEPT ![c][job[c].vol] = "rw"]
    /\ pc' = [pc EXCEPT ![c] = "idle"]
    /\ job' = [job EXCEPT ![c] = NoJob]
    /\ UNCHANGED <<dev, ro, vtbl, flash, pebs, stage, hist>>

-----------------------------------------------------------------------------
(***************************************************************************)
(* A power cut and the attach after it.                                    *)
(***************************************************************************)
\* process_lvol(): the table, when the contents of the LEBs ls of the layout
\* volume that wait for erasure are still there.
AttachTable(ls) ==
    LET Copy(i) == IF lay[i] = None /\ i \in ls THEN layPend[i] ELSE lay[i]
    IN  IF Copy(0) # None THEN Copy(0) ELSE Copy(1)

\* vtbl_check()
SaneTable(t) ==
    /\ \A v \in Vols : IF t[v].size = 0 THEN t[v] = empty_vtbl_record ELSE t[v].name # None
    /\ \A v, w \in Vols : v # w /\ t[v].name # None => t[v].name # t[w].name

\* check_sv(): no LEB beyond the end of its volume was found.
Fits(t, found) ==
    \A v \in Vols : t[v].size > 0 => \A l \in t[v].size .. MaxSize - 1 : found[v][l] = None

\* init_volumes()
AttachVols(t) == [v \in Vols |-> IF t[v].size > 0 THEN Fresh(t[v]) ELSE None]

\* PEBs that no volume and no sub-system has reserved; ubi_eba_init_scan()
\* takes as many of them for bad PEB handling as it can.
PebsLeft(t) == good - Fixed - TotalSize(t)

PowerCut ==
    /\ "cut" \in Ops
    /\ \E ls \in SUBSET {i \in 0 .. 1 : layPend[i] # None /\ lay[i] = None},
          ds \in SUBSET {p \in Vols \X Lebs : pend[p[1]][p[2]] # None /\ eba[p[1]][p[2]] = None} :
        LET t == AttachTable(ls)
            found == [v \in Vols |-> [l \in Lebs |->
                        IF <<v, l>> \in ds THEN pend[v][l] ELSE eba[v][l]]]
            Known(v) == t[v].size > 0
        IN  IF t # None /\ SaneTable(t) /\ Fits(t, found) /\ PebsLeft(t) >= 0
            THEN /\ dev' = "on"
                 /\ vtbl' = t /\ done' = t
                 /\ lay' = [i \in 0 .. 1 |-> t] /\ layPend' = [i \in 0 .. 1 |-> None]
                 /\ vols' = AttachVols(t)
                 /\ eba' = [v \in Vols |-> IF Known(v) THEN found[v] ELSE Nothing]
                 /\ pend' = [v \in Vols |-> IF Known(v) THEN Nothing ELSE found[v]]
                 /\ LET n == Min({PebsLeft(t), BebLevel}) IN beb' = n /\ avail' = PebsLeft(t) - n
                 /\ UNCHANGED good
            ELSE /\ dev' = "refused"
                 /\ vols' = Closed
                 /\ UNCHANGED <<vtbl, done, flash, pebs>>
    /\ ro' = FALSE /\ mutex' = None /\ stage' = 0
    /\ pc' = [c \in Clients |-> "idle"] /\ job' = [c \in Clients |-> NoJob]
    /\ desc' = [c \in Clients |-> Closed] /\ torn' = {}

Client(c) ==
    \/ \E v \in Vols, m \in Modes : Open(c, v, m)
    \/ Close(c)
    \/ \E v \in Vols : ShowStart(c, v)
    \/ ShowEnd(c)
    \/ \E v \in Vols, l \in Lebs : Write(c, v, l) \/ Unmap(c, v, l)
    \/ \E v \in Vols, n \in Names, s \in 1 .. MaxSize : CreateStart(c, v, n, s)
    \/ CreateFlush(c) \/ CreateEnd(c)
    \/ \E v \in Vols : Remove(c, v)
    \/ LockRemove(c) \/ RemoveEnd(c)
    \/ \E v \in Vols, s \in 1 .. MaxSize : Exists(v) /\ Resize(c, v, s)
    \/ LockResize(c) \/ ResizeEnd(c)
    \/ UnmapFails(c) \/ GiveUp(c)
    \/ \E f \in Requests : RenameStart(c, f)
    \/ \E v \in Vols : RenameOpen(c, v) \/ RenameFind(c, v)
    \/ RenameOpenNamed(c) \/ RenameBusy(c) \/ LockRename(c) \/ RenameEnd(c)
    \/ \E v \in Vols : UpdateStart(c, v)
    \/ \E l \in Lebs : UpdateWrite(c, l)
    \/ UpdateWipe(c) \/ UpdateFlush(c) \/ LockMark(c) \/ MarkEnd(c) \/ ClearEnd(c)
    \/ TableStep(c) \/ TableFails(c)

Next ==
    \/ \E c \in Clients : Client(c)
    \/ PebGoesBad \/ GoesReadOnly \/ PowerCut

Spec == Init /\ [][Next]_vars

-----------------------------------------------------------------------------
(***************************************************************************)
(* Properties.                                                             *)
(***************************************************************************)
Jobs == [op : {"none", "create", "remove", "resize", "rename", "mark", "clear"},
         vol : Vols \cup {None}, rec : Records \cup {None},
         names : Renames, todo : SUBSET Vols, drop : SUBSET Vols]

Pcs == {"idle", "show", "flush", "lock", "table", "apply", "rnopen", "rnfind", "rnnamed", "wipe", "write"}

\* Type invariant: no counter of vmt.c is negative and no more PEBs are given
\* away than there are, the volumes have sizes the table can hold, and only
\* the owner of device_mutex is between the lock and the unlock.
VolTypeOK ==
    /\ dev \in {"on", "refused"} /\ ro \in BOOLEAN
    /\ vols \in [Vols -> Volumes \cup {None}]
    /\ vtbl \in Tables /\ done \in Tables
    /\ lay \in [0 .. 1 -> Tables \cup {None}] /\ layPend \in [0 .. 1 -> Tables \cup {None}]
    /\ eba \in [Vols -> [Lebs -> Contents \cup {None}]]
    /\ pend \in [Vols -> [Lebs -> Contents \cup {None}]]
    /\ avail \in Nat /\ beb \in Nat /\ good \in Nat
    /\ mutex \in Clients \cup {None} /\ stage \in 0 .. 3
    /\ pc \in [Clients -> Pcs] /\ job \in [Clients -> Jobs]
    /\ desc \in [Clients -> [Vols -> Modes \cup {None}]]
    /\ torn \subseteq Vols
    /\ \A c \in Clients : pc[c] \in {"flush", "table", "apply"} <=> mutex = c

\* The counters of a volume (readers, writers, exclusive, ref_count) tell who
\* uses it, who has it open in exclusive mode is alone, and no volume goes
\* away while a descriptor or a sysfs read refers to it.
OpenModes ==
    \A v \in Vols :
        LET Who(m) == {c \in Clients : desc[c][v] = m}
            all == {c \in Clients : desc[c][v] # None}
            shown == {c \in Clients : pc[c] = "show" /\ job[c].vol = v}
        IN  /\ all \cup shown # {} => vols[v] # None
            /\ vols[v] # None =>
                /\ \A m \in Modes : vols[v].use[m] = Cardinality(Who(m))
                /\ vols[v].refs = Cardinality(all) + Cardinality(shown)
                /\ Cardinality(Who("rw")) <= 1
                /\ Who("ex") # {} => Cardinality(all) = 1

\* While no operation is under way every good PEB is available, reserved for
\* bad PEBs, for UBI itself, or for one volume, whatever failed before.
PebsAddUp ==
    dev = "on" /\ mutex = None =>
        avail + beb + Fixed + TotalSize([v \in Vols |-> RecordOf(vols[v])]) = good

\* The counters of volumes and of PEBs are in order.
VolInv == VolTypeOK /\ OpenModes /\ PebsAddUp

\* A change of the table is atomic: at every moment a power cut would bring
\* back exactly the table as it was last completely written to LEB 0,
\* whichever of the replaced copies are erased by then.
TableDurable == dev = "on" => \A ls \in SUBSET (0 .. 1) : AttachTable(ls) = done

\* Once an operation is over and the device still works, the volumes in RAM
\* are those of the table, as paranoid_check_volumes() has it: an update
\* marker written from a copy never undoes another change.
TablesMatch ==
    dev = "on" /\ mutex = None /\ ~ro => \A v \in Vols \ torn : vtbl[v] = RecordOf(vols[v])

\* A volume that carries no update marker on flash never shows, now or after
\* a power cut, a LEB of a removed volume with its ID, a LEB from before its
\* last update, or a LEB of an update that is not finished.
NoStaleData ==
    dev = "on" => \A v \in Vols :
        done[v].size > 0 /\ ~done[v].mark =>
            \A l \in Lebs : /\ eba[v][l] \in {"data", None}
                            /\ eba[v][l] = None => pend[v][l] \in {"data", None}
=============================================================================
