------------------------------- MODULE UbiWl -------------------------------
(***************************************************************************)
(* The UBI wear-leveling sub-system (src/modules/ubi/wl.c).                *)
(*                                                                         *)
(* Every physical eraseblock (PEB) has one WL entry.  The entry sits in    *)
(* the free, used, scrub or erroneous RB-tree, in a slot of the protection *)
(* queue, in a pending erase work, in the hands of a worker, or is the     *)
(* source or the target of a move.  The background thread and every client *)
(* that runs out of free PEBs or flushes the queue execute pending works   *)
(* concurrently; wl_lock protects the structures only inside the critical  *)
(* sections, which are the atomic steps below.                             *)
(*                                                                         *)
(* The EBA layer above is reduced to what WL can see of it: `mapped` is    *)
(* the set of PEBs the EBA tables point to, and a client that is inside    *)
(* ubi_wl_put_peb() or ubi_wl_scrub_peb() holds the lock of the LEB of its *)
(* PEB, so that ubi_eba_copy_leb() cannot re-map that LEB.  Erase counters *)
(* are abstracted: any entry of a tree may be the one they select, and a   *)
(* move may or may not be found needed.                                    *)
(***************************************************************************)
EXTENDS Integers, FiniteSets, Sequences

CONSTANTS
    PEBs,          \* physical eraseblocks
    Clients,       \* threads of the EBA layer
    Bgt,           \* the background thread, ubi_thread()
    None,          \* the null pointer
    PqLen,         \* UBI_PROT_QUEUE_LEN
    MaxHeld,       \* LEBs plus EBA_RESERVED_PEBS: PEBs EBA may hold at once
    BebRsvd,       \* initial beb_rsvd_pebs, with the avail_pebs it is filled from
    Flushers,      \* threads that call ubi_wl_flush()
    MaxErroneous,  \* max_erroneous
    Faults         \* failures the environment may inject, see FaultKinds

FaultKinds ==
    {"erase_eio", "erase_transient", "erase_other", "write_eio",
     "copy_target", "copy_source", "copy_error", "nomem", "bitflip"}

ASSUME BgtAssumption == Bgt \notin Clients
ASSUME NoneAssumption == None \notin PEBs /\ None \notin Clients /\ None # Bgt
ASSUME PqLenAssumption == PqLen \in Nat \ {0}
ASSUME BoundsAssumption ==
    MaxHeld \in Nat /\ BebRsvd \in Nat /\ MaxErroneous \in Nat
ASSUME FaultsAssumption == Faults \subseteq FaultKinds
ASSUME FlushersAssumption == Flushers \subseteq Clients

Workers == Clients \cup {Bgt}
Slots == 0 .. PqLen - 1

\* A pending work: erase_worker() on an entry, or wear_leveling_worker().
EraseWork(p, t) == [func |-> "erase", e |-> p, torture |-> t]
WlWork == [func |-> "wl", e |-> None, torture |-> FALSE]
WorkType == [func : {"erase"}, e : PEBs, torture : BOOLEAN] \cup {WlWork}

\* What a worker is doing between two critical sections; `flag` is the
\* torture flag of an erasure and the scrubbing flag of a move.
JobKinds == {"none", "erase", "serve", "ensure", "wl", "copy", "moved"}
JobType == [kind : JobKinds, e : PEBs \cup {None}, flag : BOOLEAN]
NoJob == [kind |-> "none", e |-> None, flag |-> FALSE]
Job(k) == [kind |-> k, e |-> None, flag |-> FALSE]

\* Where a client is.
PcType ==
    {"idle", "get", "produce", "erasing", "own", "put", "putwait", "scrub",
     "ensure", "flush", "sem", "reflush"}

VARIABLES
    free, used, scrub, erroneous,     \* the RB-trees
    pq, pqHead,                       \* the protection queue
    works,                            \* the pending works, oldest first
    moveFrom, moveTo, moveToPut,      \* the move in progress
    wlScheduled, moveMutex,
    roMode, bebRsvd,
    job,                              \* per worker
    pc, arg, tort,                    \* per client: PEB and torture argument
    mapped,                           \* PEBs the EBA tables point to
    bad,                              \* PEBs marked bad
    freed                             \* entries given to kmem_cache_free()

trees == <<free, used, scrub, erroneous>>
queue == <<pq, pqHead>>
move == <<moveFrom, moveTo, moveToPut, moveMutex>>
client == <<pc, arg, tort>>
flags == <<roMode, bebRsvd>>
vars == <<trees, queue, works, move, wlScheduled, flags, job, client, mapped,
          bad, freed>>

----------------------------------------------------------------------------
(* Where the entries are.                                                  *)

PqOf(q) == UNION {q[i] : i \in Slots}
QueuedOf(ws) == {ws[i].e : i \in {j \in DOMAIN ws : ws[j].func = "erase"}}
EraseOf(jb) == {jb[w].e : w \in {v \in Workers : jb[v].kind = "erase"}}

InPq == PqOf(pq)
Queued == QueuedOf(works)
InErase == EraseOf(job)
Moving == {moveFrom, moveTo} \ {None}

\* PEBs EBA holds or is about to hold, and clients that hold a LEB lock.
Busy(p) == \E c \in Clients : arg[c] = p /\ pc[c] \in {"put", "putwait", "scrub", "ensure"}
Getting == {c \in Clients : pc[c] \in {"get", "produce", "erasing", "own", "put", "putwait"}}
Held == Cardinality(mapped) + Cardinality(Getting)

\* The PEBs EBA owns: those the tables point to, and those clients were
\* given, or are about to put.
Owners == {c \in Clients : pc[c] \in {"erasing", "own", "put", "putwait"}}
Owned == mapped \cup {arg[c] : c \in Owners}

TypeOK ==
    /\ free \subseteq PEBs /\ used \subseteq PEBs /\ scrub \subseteq PEBs
    /\ erroneous \subseteq PEBs
    /\ pq \in [Slots -> SUBSET PEBs]
    /\ pqHead \in Slots
    /\ works \in Seq(WorkType)
    /\ moveFrom \in PEBs \cup {None} /\ moveTo \in PEBs \cup {None}
    /\ moveToPut \in BOOLEAN /\ wlScheduled \in BOOLEAN
    /\ moveMutex \in Workers \cup {None}
    /\ roMode \in BOOLEAN /\ bebRsvd \in Nat
    /\ job \in [Workers -> JobType]
    /\ pc \in [Clients -> PcType]
    /\ arg \in [Clients -> PEBs \cup {None}]
    /\ tort \in [Clients -> BOOLEAN]
    /\ mapped \subseteq PEBs /\ bad \subseteq PEBs /\ freed \subseteq PEBs

----------------------------------------------------------------------------
(* ubi_wl_init_scan(): the scan found the PEBs of `u` in use, those of `s`  *)
(* with bit-flips, those of the list `er` to be erased, the others free,   *)
(* and wear-leveling is scheduled if it is needed.                         *)

\* The lists of different members of S.
ListsOf(S) ==
    {q \in UNION {[1 .. n -> S] : n \in 0 .. Cardinality(S)} :
        \A i, j \in DOMAIN q : q[i] = q[j] => i = j}

\* The works schedule_erase() makes of them.
Erasures(er) == [i \in DOMAIN er |-> EraseWork(er[i], FALSE)]

InitScan(u, s, er, wl) ==
    /\ Cardinality(u) < MaxHeld
    /\ used = u \ s /\ scrub = s /\ erroneous = {}
    /\ free = {p \in PEBs \ u : \A i \in DOMAIN er : er[i] # p}
    /\ s # {} => wl
    /\ wl => s # {} \/ (u # {} /\ free # {})
    /\ works = IF wl THEN Append(Erasures(er), WlWork) ELSE Erasures(er)
    /\ pq = [i \in Slots |-> {}] /\ pqHead = 0
    /\ moveFrom = None /\ moveTo = None /\ moveToPut = FALSE
    /\ wlScheduled = wl /\ moveMutex = None
    /\ roMode = FALSE /\ bebRsvd = BebRsvd
    /\ job = [w \in Workers |-> NoJob]
    /\ pc = [c \in Clients |-> "idle"]
    /\ arg = [c \in Clients |-> None]
    /\ tort = [c \in Clients |-> FALSE]
    /\ mapped = u /\ bad = {} /\ freed = {}

Init ==
    \E u \in SUBSET PEBs : \E s \in SUBSET u, er \in ListsOf(PEBs \ u), wl \in BOOLEAN :
        InitScan(u, s, er, wl)

----------------------------------------------------------------------------
(* Helpers of wl.c.                                                        *)

\* prot_queue_add(): the tail of the circular queue is just behind its head.
PqTail == IF pqHead = 0 THEN PqLen - 1 ELSE pqHead - 1
ProtQueueAdd(p) == pq' = [pq EXCEPT ![PqTail] = @ \cup {p}]

\* prot_queue_del(): list_del() from whatever slot the entry is linked in.
ProtQueueDel(p) == pq' = [i \in Slots |-> pq[i] \ {p}]

\* Mutant of EnsureWearLeveling: wl_scheduled is not looked at.
EnsureAlways ==
    \/ scrub = {} /\ UNCHANGED <<works, wlScheduled>>
    \/ /\ scrub # {} \/ (used # {} /\ free # {})
       /\ wlScheduled' = TRUE
       /\ works' = Append(works, WlWork)

\* ensure_wear_leveling(): schedule the WL worker once, always if there is
\* something to scrub, otherwise if the erase counters call for it.
EnsureWearLeveling ==
    \/ /\ wlScheduled \/ scrub = {}
       /\ UNCHANGED <<works, wlScheduled>>
    \/ /\ ~wlScheduled
       /\ scrub # {} \/ (used # {} /\ free # {})
       /\ wlScheduled' = TRUE
       /\ works' = Append(works, WlWork)

EnsureNoMem ==
    /\ "nomem" \in Faults /\ ~wlScheduled
    /\ scrub # {} \/ (used # {} /\ free # {})
    /\ UNCHANGED <<works, wlScheduled>>

\* A worker leaves do_work() with or without an error.  An error ends the
\* ubi_wl_get_peb() or ubi_wl_flush() the worker was called from.
DoneOk(w) ==
    /\ job' = [job EXCEPT ![w] = NoJob]
    /\ UNCHANGED client

DoneErr(w) ==
    /\ job' = [job EXCEPT ![w] = NoJob]
    /\ pc' = [c \in Clients |-> IF c = w THEN "idle" ELSE pc[c]]
    /\ UNCHANGED <<arg, tort>>

\* More than WL_MAX_FAILURES errors in a row make the background thread
\* switch the device to read-only mode; the errors are not counted here.
TooManyFailures(w) == UNCHANGED roMode \/ (w = Bgt /\ roMode' = TRUE)

Return(c) ==
    /\ pc' = [pc EXCEPT ![c] = "idle"]
    /\ arg' = [arg EXCEPT ![c] = None]
    /\ tort' = [tort EXCEPT ![c] = FALSE]

Call(c, where, p, t) ==
    /\ pc' = [pc EXCEPT ![c] = where]
    /\ arg' = [arg EXCEPT ![c] = p]
    /\ tort' = [tort EXCEPT ![c] = t]

Goto(c, where) ==
    /\ pc' = [pc EXCEPT ![c] = where]
    /\ UNCHANGED <<arg, tort>>

----------------------------------------------------------------------------
(* ubi_wl_get_peb()                                                        *)

\* EBA asks for a PEB for a LEB that has none, or for the copy of an atomic
\* change; it never holds more PEBs than LEBs and EBA_RESERVED_PEBS.
GetBegin(c) ==
    /\ pc[c] = "idle" /\ ~roMode
    /\ Held < MaxHeld
    /\ Goto(c, "get")
    /\ UNCHANGED <<trees, queue, works, move, wlScheduled, flags, job, mapped,
                   bad, freed>>

GetNoSpace(c) ==
    /\ pc[c] = "get" /\ free = {} /\ works = <<>>
    /\ Return(c)
    /\ UNCHANGED <<trees, queue, works, move, wlScheduled, flags, job, mapped,
                   bad, freed>>

\* Mutant of GetProduce: the loop never looks at the free tree again.
GetProduceForever(c) ==
    /\ pc[c] = "get" /\ free = {} /\ works # <<>> /\ Goto(c, "produce")
    /\ UNCHANGED <<trees, queue, works, move, wlScheduled, flags, job, mapped,
                   bad, freed>>

\* produce_free_peb() loops until it sees a free PEB; its do_work() calls
\* are the StartWork steps of the client.
GetProduce(c) ==
    /\ \/ pc[c] = "get" /\ free = {} /\ works # <<>> /\ Goto(c, "produce")
       \/ pc[c] = "produce" /\ job[c] = NoJob /\ free # {} /\ Goto(c, "get")
    /\ UNCHANGED <<trees, queue, works, move, wlScheduled, flags, job, mapped,
                   bad, freed>>

\* do_work() finds the queue empty and returns 0: the loop goes on.
GetSpin(c) ==
    /\ pc[c] = "produce" /\ job[c] = NoJob /\ free = {} /\ works = <<>>
    /\ UNCHANGED vars

\* The critical section that takes an entry from the free tree.
GetTake(c) ==
    /\ pc[c] = "get"
    /\ \E p \in free :
        /\ free' = free \ {p}
        /\ ProtQueueAdd(p)
        /\ Call(c, "erasing", p, FALSE)
    /\ UNCHANGED <<used, scrub, erroneous, pqHead, works, move, wlScheduled,
                   flags, job, mapped, bad, freed>>

\* The sync_erase() ubi_wl_get_peb() makes after it has released wl_lock;
\* its result is ignored.
GetErase(c) ==
    /\ pc[c] = "erasing"
    /\ Goto(c, "own")
    /\ UNCHANGED <<trees, queue, works, move, wlScheduled, flags, job, mapped,
                   bad, freed>>

----------------------------------------------------------------------------
(* What the EBA layer does with a PEB it was given (eba.c, external here). *)

\* The VID header and the data are written and the LEB is mapped.
EbaMap(c) ==
    /\ pc[c] = "own" /\ ~roMode
    /\ mapped' = mapped \cup {arg[c]}
    /\ Return(c)
    /\ UNCHANGED <<trees, queue, works, move, wlScheduled, flags, job,
                   bad, freed>>

\* The first write to the PEB fails: with -EIO it is put to be tortured, in
\* read-only mode the operation gives up and the PEB stays where it is.
EbaWriteFails(c) ==
    /\ pc[c] = "own"
    /\ \/ /\ ~roMode /\ "write_eio" \in Faults
          /\ Call(c, "put", arg[c], TRUE)
       \/ /\ roMode
          /\ Return(c)
    /\ UNCHANGED <<trees, queue, works, move, wlScheduled, flags, job, mapped,
                   bad, freed>>

\* A LEB is un-mapped, or replaced by a new copy, under its write lock; the
\* torture flag is set when a write to a mapped LEB failed (recover_peb()).
EbaUnmap(c) ==
    /\ pc[c] = "idle" /\ ~roMode
    /\ \E p \in mapped, t \in BOOLEAN :
        /\ ~Busy(p)
        /\ t => "write_eio" \in Faults
        /\ mapped' = mapped \ {p}
        /\ Call(c, "put", p, t)
    /\ UNCHANGED <<trees, queue, works, move, wlScheduled, flags, job,
                   bad, freed>>

\* A read under the LEB's read lock detects a bit-flip.
EbaBitflip(c) ==
    /\ pc[c] = "idle" /\ "bitflip" \in Faults
    /\ \E p \in mapped :
        /\ \A d \in Clients : arg[d] = p => pc[d] \notin {"put", "putwait"}
        /\ Call(c, "scrub", p, FALSE)
    /\ UNCHANGED <<trees, queue, works, move, wlScheduled, flags, job, mapped,
                   bad, freed>>

----------------------------------------------------------------------------
(* ubi_wl_put_peb()                                                        *)

\* The PEB is the source of the move in progress: wait for the move_mutex.
PutWaitMove(c) ==
    /\ \/ pc[c] = "put" /\ arg[c] = moveFrom /\ Goto(c, "putwait")
       \/ pc[c] = "putwait" /\ moveMutex = None /\ Goto(c, "put")
    /\ UNCHANGED <<trees, queue, works, move, wlScheduled, flags, job, mapped,
                   bad, freed>>

\* The PEB is the target of the move in progress: leave it to the WL worker.
PutMoveTarget(c) ==
    /\ pc[c] = "put" /\ arg[c] # moveFrom /\ arg[c] = moveTo
    /\ moveToPut' = TRUE
    /\ Return(c)
    /\ UNCHANGED <<trees, queue, works, moveFrom, moveTo, moveMutex,
                   wlScheduled, flags, job, mapped, bad, freed>>

\* Mutant of PutUnlink: the PEB is free at once.
PutUnlinkFree(c) ==
    LET p == arg[c] IN
    /\ pc[c] = "put" /\ p # moveFrom /\ p # moveTo
    /\ scrub' = scrub \ {p} /\ erroneous' = erroneous \ {p} /\ used' = used \ {p}
    /\ ProtQueueDel(p)
    /\ free' = free \cup {p}
    /\ Return(c)
    /\ UNCHANGED <<works, pqHead, move, wlScheduled, flags, job, mapped, bad, freed>>

\* The entry is unlinked from its tree, or else from the protection queue,
\* and an erase work is scheduled; without memory it goes to the used tree.
PutUnlink(c) ==
    LET p == arg[c] IN
    /\ pc[c] = "put" /\ p # moveFrom /\ p # moveTo
    /\ scrub' = IF p \in used THEN scrub ELSE scrub \ {p}
    /\ erroneous' = IF p \in used \cup scrub THEN erroneous ELSE erroneous \ {p}
    /\ IF p \in used \cup scrub \cup erroneous THEN UNCHANGED pq ELSE ProtQueueDel(p)
    /\ \/ /\ used' = used \ {p}
          /\ works' = Append(works, EraseWork(p, tort[c] \/ p \in erroneous \ (used \cup scrub)))
       \/ /\ "nomem" \in Faults
          /\ used' = used \cup {p}
          /\ UNCHANGED works
    /\ Return(c)
    /\ UNCHANGED <<free, pqHead, move, wlScheduled, flags, job, mapped,
                   bad, freed>>

----------------------------------------------------------------------------
(* ubi_wl_scrub_peb()                                                      *)

\* The PEB is being moved already, or will not be moved: nothing to do.
ScrubNothing(c) ==
    /\ pc[c] = "scrub"
    /\ arg[c] \in {moveFrom} \cup scrub \cup erroneous
    /\ Return(c)
    /\ UNCHANGED <<trees, queue, works, move, wlScheduled, flags, job, mapped,
                   bad, freed>>

\* While the PEB is the target of a move the function yields and retries.
ScrubRetry(c) ==
    /\ pc[c] = "scrub" /\ arg[c] = moveTo
    /\ UNCHANGED vars

\* Move the entry to the scrub tree.
ScrubLink(c) ==
    LET p == arg[c] IN
    /\ pc[c] = "scrub"
    /\ p \notin {moveFrom, moveTo} \cup scrub \cup erroneous
    /\ used' = used \ {p}
    /\ IF p \in used THEN UNCHANGED pq ELSE ProtQueueDel(p)
    /\ scrub' = scrub \cup {p}
    /\ Goto(c, "ensure")
    /\ UNCHANGED <<free, erroneous, pqHead, works, move, wlScheduled, flags,
                   job, mapped, bad, freed>>

ScrubEnsure(c) ==
    /\ pc[c] = "ensure"
    /\ EnsureWearLeveling \/ EnsureNoMem
    /\ Return(c)
    /\ UNCHANGED <<trees, queue, move, flags, job, mapped, bad, freed>>

----------------------------------------------------------------------------
(* ubi_wl_flush()                                                          *)

FlushBegin(c) ==
    /\ pc[c] = "idle" /\ c \in Flushers
    /\ Goto(c, "flush")
    /\ UNCHANGED <<trees, queue, works, move, wlScheduled, flags, job, mapped,
                   bad, freed>>

\* The first loop has seen works_count = 0, work_sem is taken for writing
\* when no worker holds it, and the second loop ends the call.
FlushStep(c) ==
    /\ job[c] = NoJob
    /\ \/ pc[c] = "flush" /\ works = <<>> /\ Goto(c, "sem")
       \/ pc[c] = "sem" /\ (\A w \in Workers : job[w] = NoJob) /\ Goto(c, "reflush")
       \/ pc[c] = "reflush" /\ works = <<>> /\ Goto(c, "idle")
    /\ UNCHANGED <<trees, queue, works, move, wlScheduled, flags, job, mapped,
                   bad, freed>>

----------------------------------------------------------------------------
(* do_work() and erase_worker()                                            *)
\* Mutant of MayWork: the background thread is never woken up.
MayWorkNoThread(w) ==
    /\ job[w] = NoJob
    /\ \A c \in Clients : pc[c] # "sem"
    /\ \/ w \in Clients /\ pc[w] \in {"flush", "reflush"}
       \/ w \in Clients /\ pc[w] = "produce" /\ free = {}

\* Who may call do_work(): the background thread unless the device is in
\* read-only mode, a client in produce_free_peb() or in ubi_wl_flush().
\* A writer waiting for work_sem keeps new readers out.
MayWork(w) ==
    /\ job[w] = NoJob
    /\ \A c \in Clients : pc[c] # "sem"
    /\ \/ w = Bgt /\ ~roMode
       \/ w \in Clients /\ pc[w] \in {"flush", "reflush"}
       \/ w \in Clients /\ pc[w] = "produce" /\ free = {}

StartWork(w) ==
    /\ MayWork(w) /\ works # <<>>
    /\ works' = Tail(works)
    /\ LET wrk == Head(works) IN
       job' = [job EXCEPT ![w] = [kind |-> wrk.func, e |-> wrk.e, flag |-> wrk.torture]]
    /\ UNCHANGED <<trees, queue, move, wlScheduled, flags, client, mapped,
                   bad, freed>>

EraseOk(w) ==
    LET p == job[w].e IN
    /\ job[w].kind = "erase" /\ ~roMode
    /\ free' = free \cup {p}
    /\ job' = [job EXCEPT ![w] = Job("serve")]
    /\ UNCHANGED <<used, scrub, erroneous, queue, works, move, wlScheduled,
                   flags, client, mapped, bad, freed>>

\* -EINTR, -ENOMEM, -EAGAIN or -EBUSY: the entry is freed and then queued
\* again, without its torture flag.
EraseTransient(w) ==
    LET p == job[w].e IN
    /\ job[w].kind = "erase" /\ "erase_transient" \in Faults
    /\ freed' = freed \cup {p}
    /\ works' = Append(works, EraseWork(p, FALSE))
    /\ TooManyFailures(w)
    /\ DoneErr(w)
    /\ UNCHANGED <<trees, queue, move, wlScheduled, bebRsvd, mapped, bad>>

\* -EIO: the PEB is marked bad at the cost of the reserve, if there is one.
EraseMarkBad(w) ==
    LET p == job[w].e IN
    /\ job[w].kind = "erase" /\ ~roMode /\ "erase_eio" \in Faults
    /\ bebRsvd > 0
    /\ bebRsvd' = bebRsvd - 1
    /\ freed' = freed \cup {p}
    /\ bad' = bad \cup {p}
    /\ DoneOk(w)
    /\ UNCHANGED <<trees, queue, works, move, wlScheduled, roMode, mapped>>

\* -EIO without a reserve, another error, no memory to queue the entry again,
\* or read-only mode (-EROFS).
EraseFatal(w) ==
    /\ job[w].kind = "erase"
    /\ \/ roMode \/ "erase_other" \in Faults
       \/ "erase_eio" \in Faults /\ bebRsvd = 0
       \/ "erase_transient" \in Faults /\ "nomem" \in Faults
    /\ freed' = freed \cup {job[w].e}
    /\ roMode' = TRUE
    /\ DoneErr(w)
    /\ UNCHANGED <<trees, queue, works, move, wlScheduled, bebRsvd, mapped,
                   bad>>

\* serve_prot_queue() after each successful erasure.  The protection of a PEB
\* may end while ubi_wl_get_peb() still erases it.
ServeProtQueue(w) ==
    /\ job[w].kind = "serve"
    /\ used' = used \cup pq[pqHead]
    /\ pq' = [pq EXCEPT ![pqHead] = {}]
    /\ pqHead' = IF pqHead + 1 = PqLen THEN 0 ELSE pqHead + 1
    /\ job' = [job EXCEPT ![w] = Job("ensure")]
    /\ UNCHANGED <<free, scrub, erroneous, works, move, wlScheduled, flags,
                   client, mapped, bad, freed>>

EraseEnsure(w) ==
    /\ job[w].kind = "ensure"
    /\ \/ EnsureWearLeveling /\ DoneOk(w) /\ UNCHANGED roMode
       \/ EnsureNoMem /\ DoneErr(w) /\ TooManyFailures(w)
    /\ UNCHANGED <<trees, queue, move, bebRsvd, mapped, bad, freed>>

----------------------------------------------------------------------------
(* wear_leveling_worker()                                                  *)

\* No memory for a VID header: the worker leaves wl_scheduled set.
WlNoMem(w) ==
    /\ job[w].kind = "wl" /\ "nomem" \in Faults
    /\ DoneErr(w) /\ TooManyFailures(w)
    /\ UNCHANGED <<trees, queue, works, move, wlScheduled, bebRsvd, mapped,
                   bad, freed>>

\* Nothing to move, nowhere to move it, or the erase counters are close.
WlCancel(w) ==
    /\ job[w].kind = "wl" /\ moveMutex = None
    /\ free = {} \/ scrub = {}
    /\ wlScheduled' = FALSE
    /\ DoneOk(w)
    /\ UNCHANGED <<trees, queue, works, move, flags, mapped, bad, freed>>

\* The critical section that selects the source and the target.
WlSelect(w) ==
    /\ job[w].kind = "wl" /\ moveMutex = None
    /\ \E e1 \in (IF scrub = {} THEN used ELSE scrub), e2 \in free :
        /\ used' = IF scrub = {} THEN used \ {e1} ELSE used
        /\ scrub' = scrub \ {e1}
        /\ free' = free \ {e2}
        /\ moveFrom' = e1 /\ moveTo' = e2
    /\ moveMutex' = w
    /\ job' = [job EXCEPT ![w] = [kind |-> "copy", e |-> None, flag |-> scrub # {}]]
    /\ UNCHANGED <<erroneous, queue, works, moveToPut, wlScheduled, flags,
                   client, mapped, bad, freed>>

\* ubi_eba_copy_leb() succeeds: it could lock the LEB, found it still mapped
\* to the source, copied it and re-mapped it to the target.
CopyOk(w) ==
    /\ job[w].kind = "copy" /\ ~roMode
    /\ moveFrom \in mapped /\ ~Busy(moveFrom)
    /\ mapped' = (mapped \ {moveFrom}) \cup {moveTo}
    /\ job' = [job EXCEPT ![w] = Job("moved")]
    /\ UNCHANGED <<trees, queue, works, move, wlScheduled, flags, client,
                   bad, freed>>

\* Common end of the moves that did not happen: the target is erased, or its
\* entry is freed and the device becomes read-only if there is no memory.
WlRelease(w, torture) ==
    /\ moveFrom' = None /\ moveTo' = None /\ moveMutex' = None
    /\ wlScheduled' = FALSE
    /\ \/ /\ works' = Append(works, EraseWork(moveTo, torture))
          /\ DoneOk(w)
          /\ UNCHANGED <<roMode, freed>>
       \/ /\ "nomem" \in Faults
          /\ freed' = freed \cup {moveTo}
          /\ roMode' = TRUE
          /\ DoneErr(w)
          /\ UNCHANGED works
    /\ UNCHANGED <<free, pqHead, moveToPut, bebRsvd, mapped, bad>>

\* Mutant of WlRace: the copy waits for the LEB lock instead of trying it.
WlRaceBlocks(w) ==
    /\ job[w].kind = "copy" /\ ~Busy(moveFrom)
    /\ ProtQueueAdd(moveFrom)
    /\ WlRelease(w, FALSE)
    /\ UNCHANGED <<used, scrub, erroneous>>

\* MOVE_CANCEL_RACE, or a PEB that has no VID header yet: protect it.
WlRace(w) ==
    /\ job[w].kind = "copy"
    /\ ProtQueueAdd(moveFrom)
    /\ WlRelease(w, FALSE)
    /\ UNCHANGED <<used, scrub, erroneous>>

\* MOVE_CANCEL_BITFLIPS, MOVE_TARGET_WR_ERR or MOVE_TARGET_RD_ERR: the
\* target is tortured, the source returns to the tree it came from.
WlTargetFails(w) ==
    /\ job[w].kind = "copy" /\ "copy_target" \in Faults
    /\ scrub' = IF job[w].flag THEN scrub \cup {moveFrom} ELSE scrub
    /\ used' = IF job[w].flag THEN used ELSE used \cup {moveFrom}
    /\ WlRelease(w, TRUE)
    /\ UNCHANGED <<erroneous, pq>>

\* UBI_IO_FF_BITFLIPS: the source was handed out, has no VID header yet and
\* already has bit-flips; it is scrubbed later.
WlNoVidBitflips(w) ==
    /\ job[w].kind = "copy" /\ "copy_target" \in Faults
    /\ \E c \in Clients : pc[c] \in {"erasing", "own"} /\ arg[c] = moveFrom
    /\ scrub' = scrub \cup {moveFrom}
    /\ WlRelease(w, FALSE)
    /\ UNCHANGED <<used, erroneous, pq>>

\* Mutant of WlSourceFails: the source also returns to the used tree.
WlSourceFailsTwice(w) ==
    /\ job[w].kind = "copy" /\ "copy_source" \in Faults
    /\ Cardinality(erroneous) <= MaxErroneous
    /\ erroneous' = erroneous \cup {moveFrom}
    /\ used' = used \cup {moveFrom}
    /\ WlRelease(w, FALSE)
    /\ UNCHANGED <<scrub, pq>>

\* MOVE_SOURCE_RD_ERR: the source is never tried again.
WlSourceFails(w) ==
    /\ job[w].kind = "copy" /\ "copy_source" \in Faults
    /\ Cardinality(erroneous) <= MaxErroneous
    /\ erroneous' = erroneous \cup {moveFrom}
    /\ WlRelease(w, FALSE)
    /\ UNCHANGED <<used, scrub, pq>>

\* out_error: both entries are freed and the device becomes read-only.
WlError(w) ==
    /\ job[w].kind = "copy"
    /\ \/ roMode \/ "copy_error" \in Faults
       \/ "copy_source" \in Faults /\ Cardinality(erroneous) > MaxErroneous
    /\ freed' = freed \cup {moveFrom, moveTo}
    /\ moveFrom' = None /\ moveTo' = None /\ moveToPut' = FALSE
    /\ moveMutex' = None /\ wlScheduled' = FALSE
    /\ roMode' = TRUE
    /\ DoneErr(w)
    /\ UNCHANGED <<trees, queue, works, bebRsvd, mapped, bad>>

\* The move is done: the target is used, unless it was put meanwhile, and
\* the source is erased.
WlMoved(w) ==
    /\ job[w].kind = "moved"
    /\ used' = IF moveToPut THEN used ELSE used \cup {moveTo}
    /\ moveFrom' = None /\ moveTo' = None /\ moveToPut' = FALSE
    /\ moveMutex' = None /\ wlScheduled' = FALSE
    /\ LET one == Append(works, EraseWork(moveFrom, FALSE)) IN
       \/ /\ works' = IF moveToPut THEN Append(one, EraseWork(moveTo, FALSE)) ELSE one
          /\ DoneOk(w)
          /\ UNCHANGED <<roMode, freed>>
       \/ /\ "nomem" \in Faults /\ DoneErr(w) /\ roMode' = TRUE
          /\ \/ /\ freed' = freed \cup {moveFrom} \cup (IF moveToPut THEN {moveTo} ELSE {})
                /\ UNCHANGED works
             \/ /\ moveToPut
                /\ freed' = freed \cup {moveTo}
                /\ works' = one
    /\ UNCHANGED <<free, scrub, erroneous, queue, bebRsvd, mapped, bad>>

----------------------------------------------------------------------------
ClientStep(c) ==
    \/ GetBegin(c) \/ GetNoSpace(c) \/ GetProduce(c) \/ GetSpin(c) \/ GetTake(c) \/ GetErase(c)
    \/ EbaMap(c) \/ EbaWriteFails(c) \/ EbaUnmap(c) \/ EbaBitflip(c)
    \/ PutWaitMove(c) \/ PutMoveTarget(c) \/ PutUnlink(c)
    \/ ScrubNothing(c) \/ ScrubRetry(c) \/ ScrubLink(c) \/ ScrubEnsure(c)
    \/ FlushBegin(c) \/ FlushStep(c)

WorkerStep(w) ==
    \/ StartWork(w)
    \/ EraseOk(w) \/ EraseTransient(w) \/ EraseMarkBad(w) \/ EraseFatal(w)
    \/ ServeProtQueue(w) \/ EraseEnsure(w)
    \/ WlNoMem(w) \/ WlCancel(w) \/ WlSelect(w)
    \/ CopyOk(w) \/ WlRace(w) \/ WlTargetFails(w) \/ WlNoVidBitflips(w)
    \/ WlSourceFails(w)
    \/ WlError(w) \/ WlMoved(w)

Next == (\E c \in Clients : ClientStep(c)) \/ (\E w \in Workers : WorkerStep(w))

Spec == Init /\ [][Next]_vars

\* Once called, a function of wl.c is executed to its end: a thread that is
\* not waiting runs (WF); the kernel's mutexes are handed over in turn, so
\* that a client waiting for move_mutex gets it (SF), and its PEB, which a
\* cancelled move leaves at the tail of the protection queue, is not picked
\* again each time before the client has retried (SF).
CallProgress(c) ==
    \/ GetNoSpace(c) \/ GetProduce(c) \/ GetTake(c) \/ GetErase(c)
    \/ EbaMap(c) \/ EbaWriteFails(c)
    \/ ScrubNothing(c) \/ ScrubLink(c) \/ ScrubEnsure(c) \/ FlushStep(c)

Fairness ==
    /\ \A c \in Clients :
        /\ WF_vars(CallProgress(c))
        /\ SF_vars(PutWaitMove(c)) /\ SF_vars(PutMoveTarget(c) \/ PutUnlink(c))
    /\ \A w \in Workers : WF_vars(WorkerStep(w))

FairSpec == Spec /\ Fairness

----------------------------------------------------------------------------
(* Properties.                                                             *)

\* Every entry is in exactly one place: linked in one tree or in one slot of
\* the protection queue, owned by one pending erase work or one worker, or
\* the source or the target of the move; an entry in no place was freed.
Apart ==
    /\ free \cap (used \cup scrub \cup erroneous \cup InPq \cup Queued \cup InErase \cup Moving \cup bad) = {}
    /\ used \cap (scrub \cup erroneous \cup InPq \cup Queued \cup InErase \cup Moving \cup bad) = {}
    /\ scrub \cap (erroneous \cup InPq \cup Queued \cup InErase \cup Moving \cup bad) = {}
    /\ erroneous \cap (InPq \cup Queued \cup InErase \cup Moving \cup bad) = {}
    /\ InPq \cap (Queued \cup InErase \cup Moving \cup bad) = {}
    /\ Queued \cap (InErase \cup Moving \cup bad) = {}
    /\ InErase \cap (Moving \cup bad) = {}
    /\ Moving \cap bad = {}
    /\ moveFrom # None => moveFrom # moveTo

PqUnique(q) == \A i, j \in Slots : i # j => q[i] \cap q[j] = {}
WorksUnique(ws) ==
    \A i, j \in DOMAIN ws :
        ws[i].func = "erase" /\ ws[j].func = "erase" /\ ws[i].e = ws[j].e => i = j
EraseUnique(jb) ==
    \A v, w \in Workers :
        jb[v].kind = "erase" /\ jb[w].kind = "erase" /\ jb[v].e = jb[w].e => v = w
Unique == PqUnique(pq) /\ WorksUnique(works) /\ EraseUnique(job)

NoneLost == PEBs \subseteq free \cup used \cup scrub \cup erroneous \cup InPq
                             \cup Queued \cup InErase \cup Moving \cup bad \cup freed

OnePlace == Apart /\ Unique /\ NoneLost

\* No PEB that holds a LEB, or that a client was given and has not put, is
\* free, waits for erasure, is being erased or is bad: ubi_wl_put_peb() is
\* the only way back, even while the PEB is being moved.
NoLiveErase == Owned \cap (free \cup Queued \cup InErase \cup bad) = {}

\* ubi_wl_put_peb() and ubi_wl_scrub_peb() always find the entry they are
\* called for: list_del() is never done on an entry outside the protection
\* queue (the "PEB not found" branches), as long as no entry was freed.
EntryFound ==
    \A c \in Clients :
        /\ pc[c] \in {"put", "putwait", "scrub"}
        /\ arg[c] \notin freed
        => arg[c] \in used \cup scrub \cup erroneous \cup InPq \cup Moving

\* The assertions of wear_leveling_worker() and ubi_wl_put_peb() on the move
\* in progress: it starts from a clean state, it is not put twice, and a
\* target is only put after the LEB was re-mapped to it.
MoveAsserts ==
    /\ moveMutex = None => moveFrom = None /\ moveTo = None /\ ~moveToPut
    /\ \A w \in Workers : job[w].kind = "copy" => ~moveToPut
    /\ \A c \in Clients : pc[c] = "put" /\ arg[c] = moveTo => ~moveToPut

\* wl_scheduled is set exactly while one WL work is queued or executed, so
\* that at most one move is pending and none is forgotten.
WlJobs == {w \in Workers : job[w].kind \in {"wl", "copy", "moved"}}
WlQueued == {i \in DOMAIN works : works[i].func = "wl"}
WlScheduledOnce ==
    Cardinality(WlJobs) + Cardinality(WlQueued) = IF wlScheduled THEN 1 ELSE 0

\* The inductive invariant behind OnePlace, NoLiveErase, EntryFound,
\* MoveAsserts and KeepsPromise: besides OnePlace, `OwnInv` says who owns
\* what, `MoveInv` what a move may own, `JobInv` which clients execute works.
OwnInv ==
    /\ \A c \in Owners : arg[c] \in PEBs /\ arg[c] \notin mapped
    /\ \A c, d \in Owners : arg[c] = arg[d] => c = d
    /\ \A c \in Clients : pc[c] \in {"scrub", "ensure"} => arg[c] \in mapped
    /\ Owned \subseteq used \cup scrub \cup erroneous \cup InPq \cup Moving \cup freed
    /\ Owned \cap (free \cup Queued \cup InErase \cup bad) = {}

MoveInv ==
    /\ \A w \in Workers : job[w].kind \in {"copy", "moved"} <=> moveMutex = w
    /\ moveMutex = None => moveFrom = None /\ moveTo = None /\ ~moveToPut
    /\ moveMutex # None => moveFrom \in PEBs /\ moveTo \in PEBs
    /\ \A w \in Workers : job[w].kind = "copy" => moveTo \notin Owned /\ ~moveToPut
    /\ \A w \in Workers : job[w].kind = "moved" => moveFrom \notin Owned
    /\ moveToPut => moveTo \notin Owned

JobInv ==
    /\ \A w \in Workers : job[w].kind = "erase" => job[w].e \in PEBs
    /\ \A c \in Clients : job[c].kind # "none" => pc[c] \in {"produce", "flush", "reflush"}

WlInv == TypeOK /\ OnePlace /\ OwnInv /\ MoveInv /\ JobInv

\* WL keeps its promise: a PEB is free, owned by EBA, waiting for erasure or
\* bad, and changes its status only as PebPool allows.  In particular no
\* owned PEB becomes free or is erased before it is put or moved.
PoolStatus ==
    [p \in PEBs |->
        IF p \in Owned THEN "held"
        ELSE IF p \in free THEN "free"
        ELSE IF p \in bad THEN "bad" ELSE "dirty"]
Pool == INSTANCE PebPool WITH st <- PoolStatus
KeepsPromise == Pool!PoolSpec

\* Every PEB waiting for erasure is erased and becomes free again.
ErasedEventually == \A p \in PEBs : p \in Queued ~> p \in free

\* ubi_wl_get_peb() returns, a PEB or an error, whatever the other clients and
\* the moves do, unless each PEB that becomes free goes to one of them: a call
\* waits for ever only if others take free PEBs again and again.  The loop of
\* produce_free_peb() promises no more, PEBs are not handed out in turn.
GetReturns ==
    \A c \in Clients :
        \/ pc[c] \in {"get", "produce"} ~> pc[c] \notin {"get", "produce"}
        \/ []<><<\E d \in Clients \ {c} : GetTake(d)>>_vars
        \/ []<><<\E w \in Workers : WlSelect(w)>>_vars

\* ubi_wl_put_peb() returns: waiting for the move of the PEB cannot block
\* it, because the move never waits for the LEB lock of the putting client.
PutReturns == \A c \in Clients : pc[c] \in {"put", "putwait"} ~> pc[c] = "idle"

=============================================================================
