---------------------------- MODULE UbifsCommit ----------------------------
(***************************************************************************)
(* The commit of UBIFS and the log it works on (src/modules/ubifs:         *)
(* commit.c, log.c, the reservation of journal.c, the requests of gc.c and *)
(* shrinker.c).                                                            *)
(*                                                                         *)
(* Writers append nodes to buds, the LEBs of the journal heads, and record *)
(* every new bud by a reference node in the log, a ring of LEBs.  They do  *)
(* so with commit_sem taken for reading.  When the log or the buds are     *)
(* full somebody has to commit: with commit_sem taken for writing the      *)
(* committer puts a commit start node into a fresh log LEB, then lets the  *)
(* writers in again while it writes the index, moves the log tail, writes  *)
(* the master node and unmaps the old part of the log.  cmt_state, under   *)
(* cs_lock, decides who commits and who waits.                             *)
(*                                                                         *)
(* A step is what a thread does between two points where another may       *)
(* interfere: under cs_lock, under log_mutex, or with commit_sem held for  *)
(* writing.  Space is counted in units: LebSize of them in a bud, and      *)
(* LogRefs reference nodes (ref_node_alsz) in a log LEB.                   *)
(***************************************************************************)
EXTENDS Integers, FiniteSets, FiniteSetsExt, Functions

CONSTANTS
    Clients,    \* threads that call the file system
    Bgt,        \* the background thread
    None,       \* no thread, no bud (lnum == -1), no reservation
    JHeads,     \* journal heads
    LebSize,    \* leb_size of a bud
    Starts,     \* offsets at which free space may be found in a LEB
    Lens,       \* lengths of the nodes that are written
    LogRefs,    \* reference nodes in a log LEB
    CsRefs,     \* room the commit start node and its references take
    LogLebs,    \* log_lebs
    SbMaxBud,   \* max_bud_bytes of the superblock
    Faults      \* whether the flash may fail

Threads == Clients \cup {Bgt}

DivUp(a, b) == (a + b - 1) \div b

\* The journal must be able to hold a bud for each head and one more.
MinBgBud == (Cardinality(JHeads) + 1) * LebSize + 1

MaxBud == Max({SbMaxBud, MinBgBud + LebSize})

BgBud == Max({(SbMaxBud * 13) \div 16, MinBgBud})

ASSUME CommitThreads ==
    /\ IsFiniteSet(Clients) /\ IsFiniteSet(JHeads)
    /\ Bgt \notin Clients /\ None \notin Threads

ASSUME CommitSizes ==
    /\ LebSize \in Nat \ {0} /\ LogRefs \in Nat \ {0} /\ LogLebs \in Nat \ {0}
    /\ SbMaxBud \in Nat
    /\ Starts \subseteq 0 .. LebSize - 1 /\ Lens \subseteq 1 .. LebSize
    /\ Faults \in BOOLEAN

\* The commit start node and a reference for each head are less than a LEB.
ASSUME CommitNodes == CsRefs \in 1 .. LogRefs - 1

\* What a client reserves, and the write-buffer of a journal head with a bud.
Reservations == [head : JHeads, len : Lens]
Wbufs == [start : 0 .. LebSize, offs : 0 .. LebSize]

ASSUME CommitNone == None \notin Reservations /\ None \notin Wbufs

\* The log holds a reference to every bud and one more LEB.
ASSUME LogLargeEnough ==
    LogLebs >= DivUp(DivUp(SbMaxBud, LebSize), LogRefs) + 1

VARIABLES
    cmtState,   \* cmt_state
    readers,    \* threads that hold commit_sem for reading
    writer,     \* thread that holds commit_sem for writing
    needBgt,    \* need_bgt
    roError,    \* ro_error
    dirty,      \* the TNC or the LPT is dirty
    pc,         \* what each thread does next
    job,        \* the reservation a client makes: journal head and length
    lhead,      \* lhead_lnum, lhead_offs
    ltail,      \* ltail_lnum
    mstLog,     \* log_lnum of the master node on flash
    minLog,     \* min_log_bytes
    cmt,        \* locals of do_commit: new_ltail_lnum, old_ltail_lnum
    head,       \* write-buffer of each journal head: start of its bud, offs
    closed,     \* buds no head points to: how many and their bytes
    old,        \* number of buds in old_buds
    budBytes,   \* bud_bytes
    cmtBytes    \* cmt_bud_bytes

logVars == <<lhead, ltail, mstLog, minLog, cmt>>
budVars == <<head, closed, old, budBytes, cmtBytes>>
semVars == <<readers, writer>>
vars == <<cmtState, semVars, needBgt, roError, dirty, pc, job, logVars, budVars>>

Requested == {"BACKGROUND", "REQUIRED"}
Running == {"RUNNING_BACKGROUND", "RUNNING_REQUIRED"}
CmtStates == {"RESTING", "BROKEN"} \cup Requested \cup Running

LogLnums == 0 .. LogLebs - 1

\* Program counters: of a writer, of ubifs_run_commit(), of do_commit(), and
\* of the background thread.
WriterPcs == {"begin", "reserve", "wake", "write"}
RunPcs == {"run", "wait", "down", "recheck"}
CommitPcs == {"start", "end", "master", "post", "finish", "fail"}
Pcs == WriterPcs \cup RunPcs \cup CommitPcs \cup {"idle", "kick", "readonly", "check"}

(***************************************************************************)
(* The log.                                                                *)
(***************************************************************************)
Next1(lnum) == (lnum + 1) % LogLebs

\* The log LEBs from a to before b.
Stretch(a, b) == {l \in LogLnums : (l - a) % LogLebs < (b - a) % LogLebs}

\* The log LEBs from a to b.
Span(a, b) == Stretch(a, b) \cup {b}

EmptyLog ==
    LET h == lhead.lnum * LogRefs + lhead.offs
        t == ltail * LogRefs
    IN  IF h >= t THEN LogLebs * LogRefs - h + t ELSE t - h

\* Where the next reference node goes.
RefPlace ==
    IF lhead.offs > LogRefs - 1 THEN [lnum |-> Next1(lhead.lnum), offs |-> 0] ELSE lhead

\* do_commit() is not executed.
NoLocals == [newTail |-> 0, oldTail |-> 0]

HeadBytes(j) == IF head[j] = None THEN 0 ELSE LebSize - head[j].start

\* Bytes of the open buds.
OpenBytes == SumFunctionOnSet([j \in JHeads |-> HeadBytes(j)], JHeads)

\* What the open buds hold so far.
HeldBytes(j) == IF head[j] = None THEN 0 ELSE head[j].offs - head[j].start
WrittenBytes == SumFunctionOnSet([j \in JHeads |-> HeldBytes(j)], JHeads)

Init ==
    /\ cmtState = "RESTING"
    /\ readers = {} /\ writer = None
    /\ needBgt = FALSE /\ roError = FALSE /\ dirty = FALSE
    /\ pc = [t \in Threads |-> "idle"]
    /\ job = [t \in Clients |-> None]
    /\ lhead = [lnum |-> 0, offs |-> CsRefs] /\ ltail = 0 /\ mstLog = 0
    /\ minLog = 0
    /\ cmt = NoLocals
    /\ head = [j \in JHeads |-> None]
    /\ closed = [n |-> 0, bytes |-> 0] /\ old = 0
    /\ budBytes = 0 /\ cmtBytes = 0

Goto(t, p) == pc' = [pc EXCEPT ![t] = p]

\* A call ends, with or without an error.
Leave(t) ==
    /\ Goto(t, "idle")
    /\ job' = IF t \in Clients THEN [job EXCEPT ![t] = None] ELSE job

\* ubifs_run_commit() returned 0: make_reservation() tries again.
Return(t) ==
    /\ Goto(t, IF t \in Clients /\ job[t] # None THEN "begin" ELSE "idle")
    /\ UNCHANGED job

(***************************************************************************)
(* Requests for a commit.                                                  *)
(***************************************************************************)
\* ubifs_commit_required()
CommitRequired ==
    cmtState' = CASE cmtState \in {"RESTING", "BACKGROUND"} -> "REQUIRED"
                  [] cmtState = "RUNNING_BACKGROUND" -> "RUNNING_REQUIRED"
                  [] OTHER -> cmtState

\* The shrinker found no clean znode and kicks the background thread, first
\* half of ubifs_request_bg_commit().
Kick(t) ==
    /\ pc[t] = "idle" /\ t \in Clients
    /\ dirty /\ ~roError /\ cmtState = "RESTING"
    /\ cmtState' = "BACKGROUND"
    /\ Goto(t, "kick")
    /\ UNCHANGED <<semVars, needBgt, roError, dirty, job, logVars, budVars>>

\* Second half of ubifs_request_bg_commit(): ubifs_wake_up_bgt().
WakeBgt(t) ==
    /\ pc[t] \in {"kick", "wake"}
    /\ needBgt' = TRUE
    /\ Goto(t, IF pc[t] = "wake" THEN "write" ELSE "idle")
    /\ UNCHANGED <<cmtState, semVars, roError, dirty, job, logVars, budVars>>

\* The timer of a write-buffer wakes the background thread up too.
Timer ==
    /\ ~needBgt
    /\ needBgt' = TRUE
    /\ UNCHANGED <<cmtState, semVars, roError, dirty, pc, job, logVars, budVars>>

(***************************************************************************)
(* Writers: make_reservation(), reserve_space(), ubifs_add_bud_to_log().   *)
(***************************************************************************)
Call(t) ==
    /\ pc[t] = "idle" /\ t \in Clients
    /\ \E j \in JHeads, n \in Lens : job' = [job EXCEPT ![t] = [head |-> j, len |-> n]]
    /\ Goto(t, "begin")
    /\ UNCHANGED <<cmtState, semVars, needBgt, roError, dirty, logVars, budVars>>

\* ubifs_sync_fs(), or a commit because the budget is used up.
Sync(t) ==
    /\ pc[t] = "idle" /\ t \in Clients
    /\ Goto(t, "run")
    /\ UNCHANGED <<cmtState, semVars, needBgt, roError, dirty, job, logVars, budVars>>

\* Mutant of DownRead: readers overtake a writer that waits.
DownReadOvertakes(t) ==
    /\ pc[t] = "begin"
    /\ writer = None
    /\ readers' = readers \cup {t}
    /\ Goto(t, "reserve")
    /\ UNCHANGED <<cmtState, writer, needBgt, roError, dirty, job, logVars, budVars>>

\* down_read(): readers queue up behind a writer that waits.
DownRead(t) ==
    /\ pc[t] = "begin"
    /\ writer = None /\ \A u \in Threads : pc[u] # "down"
    /\ readers' = readers \cup {t}
    /\ Goto(t, "reserve")
    /\ UNCHANGED <<cmtState, writer, needBgt, roError, dirty, job, logVars, budVars>>

UpRead(t) == readers' = readers \ {t} /\ UNCHANGED writer

Avail(j) == IF head[j] = None THEN 0 ELSE LebSize - head[j].offs

\* io_mutex of the journal head is free.
Unlocked(t) ==
    \A u \in Clients \ {t} : pc[u] \in {"wake", "write"} => job[u].head # job[t].head

\* The file system became read-only.
ReserveReadOnly(t) ==
    /\ pc[t] = "reserve" /\ Unlocked(t)
    /\ roError
    /\ UpRead(t) /\ Leave(t)
    /\ UNCHANGED <<cmtState, needBgt, roError, dirty, logVars, budVars>>

ReserveFits(t) ==
    /\ pc[t] = "reserve" /\ Unlocked(t)
    /\ ~roError
    /\ job[t].len <= Avail(job[t].head)
    /\ Goto(t, "write")
    /\ UNCHANGED <<cmtState, semVars, needBgt, roError, dirty, job, logVars, budVars>>

\* A LEB with free space from s on was found for the journal head of t.
NewBud(t, s) ==
    /\ pc[t] = "reserve" /\ Unlocked(t)
    /\ ~roError
    /\ job[t].len > Avail(job[t].head) /\ job[t].len <= LebSize - s
    /\ dirty' = TRUE

LogHasRoom == EmptyLog - 1 >= minLog

\* Mutant of BudsHaveRoom: the limit is checked before the bud is counted.
BudsHaveRoomBefore(s) == budBytes <= MaxBud

BudsHaveRoom(s) == budBytes + LebSize - s <= MaxBud

AddToBuds(j, s) ==
    /\ closed' = IF head[j] = None THEN closed
                 ELSE [n |-> closed.n + 1, bytes |-> closed.bytes + HeadBytes(j)]
    /\ head' = [head EXCEPT ![j] = [start |-> s, offs |-> s]]
    /\ budBytes' = budBytes + LebSize - s
    /\ UNCHANGED <<old, cmtBytes>>

\* The reference node is written and the head moves to the new bud.  If the
\* background commit has to be requested its state is set here; the wake-up
\* follows, while commit_sem is held for reading.
AddBud(t, s) ==
    /\ NewBud(t, s)
    /\ LogHasRoom /\ BudsHaveRoom(s)
    /\ lhead' = [RefPlace EXCEPT !.offs = @ + 1]
    /\ AddToBuds(job[t].head, s)
    /\ IF budBytes >= BgBud /\ cmtState = "RESTING"
       THEN cmtState' = "BACKGROUND" /\ Goto(t, "wake")
       ELSE UNCHANGED cmtState /\ Goto(t, "write")
    /\ UNCHANGED <<semVars, needBgt, roError, job, ltail, mstLog, minLog, cmt>>

\* The log LEB cannot be unmapped, the bud not mapped or the node not
\* written.
AddBudFails(t, s) ==
    /\ Faults
    /\ NewBud(t, s)
    /\ LogHasRoom /\ BudsHaveRoom(s)
    /\ lhead' = RefPlace
    /\ roError' = TRUE
    /\ UpRead(t) /\ Leave(t)
    /\ UNCHANGED <<cmtState, needBgt, ltail, mstLog, minLog, cmt, budVars>>

\* -EAGAIN: the LEB is given back and the commit has to be run.
JournalFull(t, s) ==
    /\ NewBud(t, s)
    /\ ~(LogHasRoom /\ BudsHaveRoom(s))
    /\ CommitRequired
    /\ UpRead(t) /\ Goto(t, "run")
    /\ UNCHANGED <<needBgt, roError, job, logVars, budVars>>

\* There is no free space and ubifs_garbage_collect() wants a commit, because
\* one was requested (ubifs_gc_should_commit()) or because only indexing LEBs
\* could be collected.  With -ENOSPC the commit is run all the same.
GcWantsCommit(t) ==
    /\ pc[t] = "reserve" /\ Unlocked(t)
    /\ ~roError
    /\ job[t].len > Avail(job[t].head)
    /\ \/ cmtState \in Requested /\ cmtState' = "REQUIRED"
       \/ cmtState \notin Requested /\ CommitRequired
       \/ cmtState \notin Requested /\ UNCHANGED cmtState
    /\ dirty' \in {dirty, TRUE}
    /\ UpRead(t) /\ Goto(t, "run")
    /\ UNCHANGED <<needBgt, roError, job, logVars, budVars>>

\* The node is written, the TNC is updated and finish_reservation() called.
Write(t) ==
    /\ pc[t] = "write"
    /\ ~roError
    /\ head' = [head EXCEPT ![job[t].head].offs = @ + job[t].len]
    /\ dirty' = TRUE
    /\ UpRead(t) /\ Leave(t)
    /\ UNCHANGED <<cmtState, needBgt, roError, logVars, closed, old, budBytes, cmtBytes>>

WriteFails(t) ==
    /\ pc[t] = "write"
    /\ Faults \/ roError
    /\ roError' = TRUE
    /\ UpRead(t) /\ Leave(t)
    /\ UNCHANGED <<cmtState, needBgt, dirty, logVars, budVars>>

(***************************************************************************)
(* ubifs_run_commit(), and run_bg_commit() of the background thread.       *)
(***************************************************************************)
\* A running commit that somebody waits for becomes a required one.
Hurry == IF cmtState = "RUNNING_BACKGROUND" THEN "RUNNING_REQUIRED" ELSE cmtState

RunCommit(t) ==
    /\ pc[t] = "run"
    /\ cmtState' = Hurry
    /\ \/ cmtState = "BROKEN" /\ Leave(t)
       \/ cmtState \in Running /\ Goto(t, "wait") /\ UNCHANGED job
       \/ cmtState \notin {"BROKEN"} \cup Running /\ Goto(t, "down") /\ UNCHANGED job
    /\ UNCHANGED <<semVars, needBgt, roError, dirty, logVars, budVars>>

\* wait_for_commit() returns 0 whatever became of the commit.
WaitForCommit(t) ==
    /\ pc[t] = "wait"
    /\ cmtState \notin Running
    /\ Return(t)
    /\ UNCHANGED <<cmtState, semVars, needBgt, roError, dirty, logVars, budVars>>

DownWrite(t) ==
    /\ pc[t] = "down"
    /\ readers = {} /\ writer = None
    /\ writer' = t
    /\ Goto(t, "recheck")
    /\ UNCHANGED <<cmtState, readers, needBgt, roError, dirty, job, logVars, budVars>>

UpWrite == writer' = None /\ UNCHANGED readers

\* Mutant of Recheck: a commit that failed meanwhile is not noticed.
RecheckAfterFailure(t) ==
    /\ pc[t] = "recheck" /\ t \in Clients
    /\ \/ cmtState \in Running /\ cmtState' = Hurry /\ UpWrite /\ Goto(t, "wait") /\ UNCHANGED job
       \/ /\ cmtState \notin Running
          /\ cmtState' = "RUNNING_REQUIRED"
          /\ Goto(t, "start") /\ UNCHANGED <<semVars, job>>
    /\ UNCHANGED <<needBgt, roError, dirty, logVars, budVars>>

\* The state may have changed since it was checked without commit_sem.
Recheck(t) ==
    /\ pc[t] = "recheck" /\ t \in Clients
    /\ \/ cmtState = "BROKEN" /\ UNCHANGED cmtState /\ UpWrite /\ Leave(t)
       \/ cmtState \in Running /\ cmtState' = Hurry /\ UpWrite /\ Goto(t, "wait") /\ UNCHANGED job
       \/ /\ cmtState \notin {"BROKEN"} \cup Running
          /\ cmtState' = "RUNNING_REQUIRED"
          /\ Goto(t, "start") /\ UNCHANGED <<semVars, job>>
    /\ UNCHANGED <<needBgt, roError, dirty, logVars, budVars>>

BgtRecheck ==
    /\ pc[Bgt] = "recheck"
    /\ \/ /\ cmtState \in Requested
          /\ cmtState' = IF cmtState = "REQUIRED" THEN "RUNNING_REQUIRED" ELSE "RUNNING_BACKGROUND"
          /\ Goto(Bgt, "start") /\ UNCHANGED semVars
       \/ cmtState \notin Requested /\ UNCHANGED cmtState /\ UpWrite /\ Goto(Bgt, "idle")
    /\ UNCHANGED <<needBgt, roError, dirty, job, logVars, budVars>>

\* The loop of the background thread: need_bgt is cleared before the state is
\* looked at.
BgtLoop ==
    /\ pc[Bgt] = "idle"
    /\ needBgt
    /\ needBgt' = FALSE
    /\ Goto(Bgt, "check")
    /\ UNCHANGED <<cmtState, semVars, roError, dirty, job, logVars, budVars>>

BgtCheck ==
    /\ pc[Bgt] = "check"
    /\ Goto(Bgt, IF cmtState \in Requested THEN "down" ELSE "idle")
    /\ UNCHANGED <<cmtState, semVars, needBgt, roError, dirty, job, logVars, budVars>>

(***************************************************************************)
(* do_commit().                                                            *)
(***************************************************************************)
\* Nothing to commit.
CommitNothing(t) ==
    /\ pc[t] = "start"
    /\ ~roError /\ ~dirty
    /\ UpWrite /\ Goto(t, "finish")
    /\ UNCHANGED <<cmtState, needBgt, roError, dirty, job, logVars, budVars>>

\* The log LEB the commit start node goes to: the next one, unless the head is
\* at the start of one.
CsLeb == IF lhead.offs = 0 THEN lhead.lnum ELSE Next1(lhead.lnum)

\* Mutant of LogStartCommit: the start of the open buds is not moved.
LogStartKeepsBuds ==
    /\ lhead' = [lnum |-> CsLeb, offs |-> CsRefs]
    /\ cmt' = [cmt EXCEPT !.newTail = CsLeb]
    /\ minLog' = 0
    /\ cmtBytes' = closed.bytes + WrittenBytes
    /\ old' = old + closed.n
    /\ closed' = [n |-> 0, bytes |-> 0]
    /\ UNCHANGED <<head, ltail, mstLog, budBytes>>

\* ubifs_log_start_commit(): the commit start node is written, and what the
\* buds hold so far is no longer part of the journal (remove_buds()).
LogStartCommit ==
    /\ lhead' = [lnum |-> CsLeb, offs |-> CsRefs]
    /\ cmt' = [cmt EXCEPT !.newTail = CsLeb]
    /\ minLog' = 0
    /\ cmtBytes' = closed.bytes + WrittenBytes
    /\ old' = old + closed.n
    /\ closed' = [n |-> 0, bytes |-> 0]
    /\ head' = [j \in JHeads |->
                  IF head[j] = None THEN None ELSE [head[j] EXCEPT !.start = head[j].offs]]
    /\ UNCHANGED <<ltail, mstLog, budBytes>>

\* The write-buffers are synchronised, and the log, the TNC, the LPT and the
\* orphans are made ready; then the writers may come back.
CommitStart(t) ==
    /\ pc[t] = "start"
    /\ ~roError /\ dirty
    /\ LogStartCommit
    /\ dirty' = FALSE
    /\ UpWrite /\ Goto(t, "end")
    /\ UNCHANGED <<cmtState, needBgt, roError, job>>

\* The file system is read-only, or a step fails before or after the log was
\* prepared.
CommitStartFails(t) ==
    /\ pc[t] = "start"
    /\ \/ roError /\ UNCHANGED <<logVars, budVars>>
       \/ Faults /\ dirty /\ UNCHANGED <<logVars, budVars>>
       \/ Faults /\ dirty /\ ~roError /\ LogStartCommit
    /\ UpWrite /\ Goto(t, "fail")
    /\ UNCHANGED <<cmtState, needBgt, roError, dirty, job>>

\* The index, the LPT and the orphans are written; ubifs_log_end_commit().
CommitEnd(t) ==
    /\ pc[t] = "end"
    /\ cmt' = [cmt EXCEPT !.oldTail = ltail]
    /\ ltail' = cmt.newTail
    /\ minLog' = LogRefs
    /\ budBytes' = budBytes - cmtBytes
    /\ Goto(t, "master")
    /\ UNCHANGED <<cmtState, semVars, needBgt, roError, dirty, job, lhead, mstLog,
                   head, closed, old, cmtBytes>>

CommitMaster(t) ==
    /\ pc[t] = "master"
    /\ ~roError
    /\ mstLog' = cmt.newTail
    /\ Goto(t, "post")
    /\ UNCHANGED <<cmtState, semVars, needBgt, roError, dirty, job, lhead, ltail, minLog, cmt, budVars>>

\* Mutant of CommitPost: the released buds stay in old_buds.
CommitPostKeeps(t) ==
    /\ pc[t] = "post"
    /\ ~roError
    /\ Goto(t, "finish")
    /\ UNCHANGED <<cmtState, semVars, needBgt, roError, dirty, job, logVars, budVars>>

\* ubifs_log_post_commit(): the old buds are released and the log LEBs from
\* oldTail to before ltail unmapped.
CommitPost(t) ==
    /\ pc[t] = "post"
    /\ ~roError
    /\ old' = 0
    /\ Goto(t, "finish")
    /\ UNCHANGED <<cmtState, semVars, needBgt, roError, dirty, job, logVars,
                   head, closed, budBytes, cmtBytes>>

\* A later step fails.  The first copy of the master node may have been
\* written, and some of the buds may have been released.
CommitFails(t) ==
    /\ Faults \/ roError
    /\ \/ pc[t] = "end" /\ UNCHANGED <<mstLog, old>>
       \/ pc[t] = "master" /\ mstLog' \in {mstLog, cmt.newTail} /\ UNCHANGED old
       \/ pc[t] = "post" /\ old' \in 0 .. old /\ UNCHANGED mstLog
    /\ Goto(t, "fail")
    /\ UNCHANGED <<cmtState, semVars, needBgt, roError, dirty, job, lhead, ltail, minLog, cmt,
                   head, closed, budBytes, cmtBytes>>

CommitFinish(t) ==
    /\ pc[t] = "finish"
    /\ cmtState' = "RESTING"
    /\ cmt' = NoLocals
    /\ Return(t)
    /\ UNCHANGED <<semVars, needBgt, roError, dirty, lhead, ltail, mstLog, minLog, budVars>>

CommitBroken(t) ==
    /\ pc[t] = "fail"
    /\ cmtState' = "BROKEN"
    /\ Goto(t, "readonly")
    /\ UNCHANGED <<semVars, needBgt, roError, dirty, job, logVars, budVars>>

\* ubifs_ro_mode(), after the waiting threads were woken.
ReadOnly(t) ==
    /\ pc[t] = "readonly"
    /\ roError' = TRUE
    /\ cmt' = NoLocals
    /\ Leave(t)
    /\ UNCHANGED <<cmtState, semVars, needBgt, dirty, lhead, ltail, mstLog, minLog, budVars>>

(***************************************************************************)
(* The specification.                                                      *)
(***************************************************************************)
\* What a thread may start by itself.
Ask(t) == Call(t) \/ Sync(t) \/ Kick(t)

Reserve(t) ==
    \/ ReserveReadOnly(t)
    \/ ReserveFits(t)
    \/ \E s \in Starts : AddBud(t, s)
    \/ \E s \in Starts : AddBudFails(t, s)
    \/ \E s \in Starts : JournalFull(t, s)
    \/ GcWantsCommit(t)

Commit(t) ==
    \/ CommitNothing(t)
    \/ CommitStart(t)
    \/ CommitStartFails(t)
    \/ CommitEnd(t)
    \/ CommitMaster(t)
    \/ CommitPost(t)
    \/ CommitFails(t)
    \/ CommitFinish(t)
    \/ CommitBroken(t)
    \/ ReadOnly(t)

Client(t) ==
    \/ DownRead(t)
    \/ WakeBgt(t)
    \/ Reserve(t)
    \/ Write(t)
    \/ WriteFails(t)
    \/ RunCommit(t)
    \/ WaitForCommit(t)
    \/ DownWrite(t)
    \/ Recheck(t)
    \/ Commit(t)

BgtNext ==
    \/ BgtLoop
    \/ BgtCheck
    \/ DownWrite(Bgt)
    \/ BgtRecheck
    \/ Commit(Bgt)

Next ==
    \/ \E t \in Clients : Ask(t) \/ Client(t)
    \/ BgtNext
    \/ Timer

Spec == Init /\ [][Next]_vars

\* Threads that are in the file system go on; nobody has to call it.
FairSpec ==
    /\ Spec
    /\ \A t \in Clients : WF_vars(Client(t))
    /\ WF_vars(BgtNext)

(***************************************************************************)
(* Properties.                                                             *)
(***************************************************************************)
\* A thread executes do_commit() exactly when cmt_state says that a commit is
\* running, and it is the only one: a client and the background thread that
\* both saw a request, or that waited for commit_sem behind each other, never
\* commit at the same time or one after the other for the same request.
OneCommitter ==
    /\ cmtState \in Running <=> \E t \in Threads : pc[t] \in CommitPcs
    /\ \A t, u \in Threads : pc[t] \in CommitPcs /\ pc[u] \in CommitPcs => t = u

\* No reservation is open while the start phase of a commit takes the log, the
\* heads and the TNC without their locks (log.c: "nobody can write to the
\* file-system at this phase"), and a reservation never spans it: what is
\* reserved before the start is in the TNC before the start.
StartAlone ==
    (\E t \in Threads : pc[t] = "start") =>
        \A u \in Clients : pc[u] \notin {"reserve", "wake", "write"}

Failed == roError \/ cmtState = "BROKEN" \/ \E t \in Threads : pc[t] = "fail"

\* bud_bytes is what the buds of the journal take, as dbg_check_bud_bytes()
\* asserts when a commit starts and when it moves the log tail: although
\* writers add and close buds during the commit, the bytes that are subtracted
\* at its end are those that remove_buds() took out at its start.
BudBytesExact ==
    ~Failed =>
        budBytes = closed.bytes + OpenBytes
                   + IF \E t \in Threads : pc[t] = "end" THEN cmtBytes ELSE 0

\* remove_buds() finds old_buds empty: the buds of one commit are released
\* before the next one starts.
OldBudsReleased == (\E t \in Threads : pc[t] = "start") => old = 0

\* The head of the log never enters a LEB between its tail and itself, neither
\* for a reference node nor for a commit start node.
LogInOrder ==
    [][lhead'.lnum # lhead.lnum => lhead'.lnum \notin Span(ltail, lhead.lnum)]_vars

\* After a commit has failed nobody commits any more, the threads included
\* that had checked cmt_state before it failed: the master node stays.
BrokenIsFinal ==
    [][cmtState = "BROKEN" => cmtState' = "BROKEN" /\ mstLog' = mstLog]_vars

\* A commit that was requested is run, by the background thread or by whoever
\* is faster, or found to be superfluous.
RequestServed == cmtState \in Requested ~> cmtState \notin Requested

\* The pc's at which a thread holds commit_sem.
ReadPcs == {"reserve", "wake", "write"}
WritePcs == {"recheck", "start"}

\* The pc's at which buds of an unfinished commit are in old_buds.
ReleasePcs == {"end", "master", "post", "fail"}

\* The control state: what the inductive invariant needs of the types.
ControlOK ==
    /\ cmtState \in CmtStates
    /\ readers \subseteq Threads /\ writer \in Threads \cup {None}
    /\ pc \in [Threads -> Pcs]

\* commit_sem is held where the pc says so, and excludes as it should.
SemHeld ==
    /\ \A t \in Threads : t \in readers <=> pc[t] \in ReadPcs
    /\ \A t \in Threads : writer = t <=> pc[t] \in WritePcs
    /\ writer # None => readers = {}

\* Buds wait in old_buds only for a commit under way or for one that failed.
OldHeld ==
    old # 0 => cmtState = "BROKEN" \/ \E t \in Threads : pc[t] \in ReleasePcs

\* The inductive invariant: commit_sem, cmt_state, the threads in do_commit()
\* and old_buds fit together, whatever fails.
CommitInv == ControlOK /\ SemHeld /\ OneCommitter /\ OldHeld

\* The pc's at which a client holds the io_mutex of its journal head.
IoPcs == {"wake", "write"}

BudTypes ==
    /\ job \in [Clients -> Reservations \cup {None}]
    /\ head \in [JHeads -> Wbufs \cup {None}]
    /\ \A j \in JHeads : head[j] # None => head[j].start <= head[j].offs
    /\ closed.bytes \in Nat /\ cmtBytes \in Nat /\ budBytes \in Int

\* A client that writes alone uses its journal head, and what it reserved fits
\* into the bud.
WritersFit ==
    \A t \in Clients :
        /\ pc[t] \in WriterPcs => job[t] # None
        /\ pc[t] \in IoPcs =>
              /\ head[job[t].head] # None
              /\ job[t].len <= Avail(job[t].head)
              /\ \A u \in Clients \ {t} : pc[u] \in IoPcs => job[u].head # job[t].head

\* The inductive invariant of the buds, together with CommitInv.
BudInv == BudTypes /\ WritersFit /\ BudBytesExact
=============================================================================
