------------------------- MODULE UbifsCommitProofs -------------------------
(***************************************************************************)
(* Proofs about UbifsCommit, for every number of clients and every size of *)
(* the log and the journal, with and without failures.                     *)
(*                                                                         *)
(* The steps of a thread fall into few kinds, by how the thread moves      *)
(* between the regions in which it holds commit_sem or is in do_commit().  *)
(* One lemma for each kind shows that it preserves the inductive invariant *)
(* CommitInv; each action is then one of these kinds.                      *)
(***************************************************************************)
EXTENDS UbifsCommit, FiniteSums, TLAPS

ctl == <<cmtState, readers, writer, pc, old>>

\* Outside commit_sem and do_commit().
FreePcs == Pcs \ (ReadPcs \cup WritePcs \cup CommitPcs)

\* The commit neither starts nor ends, and a failed one stays failed.
SamePhase ==
    /\ cmtState' \in CmtStates
    /\ cmtState' \in Running <=> cmtState \in Running
    /\ cmtState = "BROKEN" <=> cmtState' = "BROKEN"

(***************************************************************************)
(* The invariant holds initially, and as long as its variables stay.       *)
(***************************************************************************)
LEMMA InitInv == Init => CommitInv
BY CommitThreads DEF Init, CommitInv, ControlOK, SemHeld, OneCommitter, OldHeld,
   CmtStates, Requested, Running, Pcs, WriterPcs, RunPcs, CommitPcs, ReadPcs, WritePcs

LEMMA SameControl == CommitInv /\ UNCHANGED ctl => CommitInv'
BY DEF ctl, CommitInv, ControlOK, SemHeld, OneCommitter, OldHeld

(***************************************************************************)
(* The kinds of steps.                                                     *)
(***************************************************************************)
\* A thread moves within a region that is not part of do_commit().
LEMMA Stay ==
    ASSUME CommitInv, NEW t \in Threads, NEW p, Goto(t, p),
           \/ pc[t] \in FreePcs /\ p \in FreePcs
           \/ pc[t] \in ReadPcs /\ p \in ReadPcs,
           UNCHANGED <<readers, writer, old>>, SamePhase
    PROVE  CommitInv'
<1>1. p \in Pcs BY DEF FreePcs, Pcs, WriterPcs, ReadPcs
<1>2. ControlOK' BY <1>1 DEF CommitInv, ControlOK, Goto, SamePhase
<1>3. SemHeld'
  BY CommitThreads DEF CommitInv, ControlOK, SemHeld, Goto, FreePcs, ReadPcs, WritePcs
<1>4. OneCommitter'
  BY DEF CommitInv, ControlOK, OneCommitter, Goto, FreePcs, ReadPcs, CommitPcs, SamePhase
<1>5. OldHeld'
  BY DEF CommitInv, ControlOK, OldHeld, Goto, FreePcs, ReadPcs, ReleasePcs, CommitPcs, SamePhase
<1> QED BY <1>2, <1>3, <1>4, <1>5 DEF CommitInv

\* down_read() is granted.
LEMMA EnterRead ==
    ASSUME CommitInv, NEW t \in Threads, pc[t] \in FreePcs, Goto(t, "reserve"),
           writer = None, readers' = readers \cup {t},
           UNCHANGED <<cmtState, writer, old>>
    PROVE  CommitInv'
<1>1. ControlOK' BY DEF CommitInv, ControlOK, Goto, Pcs, WriterPcs
<1>2. SemHeld'
  BY CommitThreads DEF CommitInv, ControlOK, SemHeld, Goto, FreePcs, ReadPcs, WritePcs
<1>3. OneCommitter' BY DEF CommitInv, ControlOK, OneCommitter, Goto, FreePcs, CommitPcs
<1>4. OldHeld' BY DEF CommitInv, ControlOK, OldHeld, Goto, FreePcs, ReleasePcs, CommitPcs
<1> QED BY <1>1, <1>2, <1>3, <1>4 DEF CommitInv

\* up_read()
LEMMA LeaveRead ==
    ASSUME CommitInv, NEW t \in Threads, NEW p \in FreePcs, pc[t] \in ReadPcs, Goto(t, p),
           UpRead(t), UNCHANGED old, SamePhase
    PROVE  CommitInv'
<1>1. ControlOK' BY DEF CommitInv, ControlOK, Goto, FreePcs, UpRead, SamePhase
<1>2. SemHeld'
  BY CommitThreads DEF CommitInv, ControlOK, SemHeld, Goto, FreePcs, ReadPcs, WritePcs, UpRead
<1>3. OneCommitter'
  BY DEF CommitInv, ControlOK, OneCommitter, Goto, FreePcs, ReadPcs, CommitPcs, SamePhase
<1>4. OldHeld'
  BY DEF CommitInv, ControlOK, OldHeld, Goto, FreePcs, ReadPcs, ReleasePcs, CommitPcs, SamePhase
<1> QED BY <1>1, <1>2, <1>3, <1>4 DEF CommitInv

\* down_write() is granted.
LEMMA EnterWrite ==
    ASSUME CommitInv, NEW t \in Threads, pc[t] \in FreePcs, Goto(t, "recheck"),
           readers = {}, writer = None, writer' = t,
           UNCHANGED <<cmtState, readers, old>>
    PROVE  CommitInv'
<1>1. ControlOK' BY DEF CommitInv, ControlOK, Goto, Pcs, RunPcs
<1>2. SemHeld'
  BY CommitThreads DEF CommitInv, ControlOK, SemHeld, Goto, FreePcs, ReadPcs, WritePcs
<1>3. OneCommitter' BY DEF CommitInv, ControlOK, OneCommitter, Goto, FreePcs, CommitPcs
<1>4. OldHeld' BY DEF CommitInv, ControlOK, OldHeld, Goto, FreePcs, ReleasePcs, CommitPcs
<1> QED BY <1>1, <1>2, <1>3, <1>4 DEF CommitInv

\* up_write() of a thread that need not commit.
LEMMA LeaveWrite ==
    ASSUME CommitInv, NEW t \in Threads, NEW p \in FreePcs, pc[t] = "recheck", Goto(t, p),
           UpWrite, UNCHANGED old, SamePhase
    PROVE  CommitInv'
<1>1. ControlOK' BY DEF CommitInv, ControlOK, Goto, FreePcs, UpWrite, SamePhase
<1>2. SemHeld'
  BY CommitThreads DEF CommitInv, ControlOK, SemHeld, Goto, FreePcs, ReadPcs, WritePcs, UpWrite
<1>3. OneCommitter'
  BY DEF CommitInv, ControlOK, OneCommitter, Goto, FreePcs, CommitPcs, SamePhase
<1>4. OldHeld'
  BY DEF CommitInv, ControlOK, OldHeld, Goto, FreePcs, ReleasePcs, CommitPcs, SamePhase
<1> QED BY <1>1, <1>2, <1>3, <1>4 DEF CommitInv

\* With commit_sem held for writing and no commit running, one starts.
LEMMA EnterCommit ==
    ASSUME CommitInv, NEW t \in Threads, pc[t] = "recheck", Goto(t, "start"),
           cmtState \notin {"BROKEN"} \cup Running, cmtState' \in Running,
           UNCHANGED <<readers, writer, old>>
    PROVE  CommitInv'
<1>1. ControlOK' BY DEF CommitInv, ControlOK, Goto, Pcs, CommitPcs, CmtStates
<1>2. SemHeld'
  BY CommitThreads DEF CommitInv, ControlOK, SemHeld, Goto, ReadPcs, WritePcs
<1>3. OneCommitter' BY DEF CommitInv, ControlOK, OneCommitter, Goto, CommitPcs
<1>4. OldHeld' BY DEF CommitInv, ControlOK, OldHeld, OneCommitter, Goto, ReleasePcs, CommitPcs
<1> QED BY <1>1, <1>2, <1>3, <1>4 DEF CommitInv

\* The committer goes on, and buds are in old_buds only until it released
\* them.
LEMMA InCommit ==
    ASSUME CommitInv, NEW t \in Threads, NEW p \in CommitPcs \ {"start"},
           pc[t] \in CommitPcs, Goto(t, p),
           IF pc[t] = "start" THEN UpWrite ELSE UNCHANGED <<readers, writer>>,
           p \notin ReleasePcs => old' = 0 \/ (old' = old /\ pc[t] \notin ReleasePcs),
           UNCHANGED cmtState
    PROVE  CommitInv'
<1>1. ControlOK' BY DEF CommitInv, ControlOK, Goto, Pcs, UpWrite
<1>2. SemHeld'
  BY CommitThreads DEF CommitInv, ControlOK, SemHeld, Goto, ReadPcs, WritePcs, CommitPcs, UpWrite
<1>3. OneCommitter' BY DEF CommitInv, ControlOK, OneCommitter, Goto
<1>4. OldHeld'
  <2>1. CASE p \in ReleasePcs BY <2>1 DEF CommitInv, ControlOK, OldHeld, Goto
  <2>2. CASE p \notin ReleasePcs
    BY <2>2 DEF CommitInv, ControlOK, OldHeld, OneCommitter, Goto, ReleasePcs, CommitPcs, Running
  <2> QED BY <2>1, <2>2
<1> QED BY <1>1, <1>2, <1>3, <1>4 DEF CommitInv

\* The commit ends, well or not.
LEMMA LeaveCommit ==
    ASSUME CommitInv, NEW t \in Threads, NEW p \in FreePcs,
           pc[t] \in CommitPcs \ {"start"}, Goto(t, p),
           \/ cmtState' = "BROKEN"
           \/ cmtState' = "RESTING" /\ pc[t] \notin ReleasePcs,
           UNCHANGED <<readers, writer, old>>
    PROVE  CommitInv'
<1>1. ControlOK' BY DEF CommitInv, ControlOK, Goto, FreePcs, CmtStates
<1>2. SemHeld'
  BY CommitThreads DEF CommitInv, ControlOK, SemHeld, Goto, FreePcs, ReadPcs, WritePcs, CommitPcs
<1>3. OneCommitter' BY DEF CommitInv, ControlOK, OneCommitter, Goto, FreePcs, Running
<1>4. OldHeld'
  BY DEF CommitInv, ControlOK, OldHeld, OneCommitter, Goto, ReleasePcs, CommitPcs, Running
<1> QED BY <1>1, <1>2, <1>3, <1>4 DEF CommitInv

(***************************************************************************)
(* The regions in full, and what keeps the phase.                          *)
(***************************************************************************)
LEMMA Free == FreePcs = {"idle", "begin", "run", "wait", "down", "kick", "readonly", "check"}
BY DEF FreePcs, Pcs, WriterPcs, RunPcs, ReadPcs, WritePcs, CommitPcs

LEMMA Phase ==
    ASSUME ControlOK,
           \/ UNCHANGED cmtState
           \/ CommitRequired
           \/ cmtState' = Hurry
           \/ cmtState \in {"RESTING"} \cup Requested /\ cmtState' \in Requested
    PROVE  SamePhase
BY DEF ControlOK, SamePhase, CommitRequired, Hurry, CmtStates, Requested, Running

(***************************************************************************)
(* The actions of a client outside do_commit().                            *)
(***************************************************************************)
LEMMA AskStep == ASSUME CommitInv, NEW t \in Clients, Ask(t) PROVE CommitInv'
<1> t \in Threads /\ ControlOK BY DEF Threads, CommitInv
<1>1. CASE Call(t) \/ Sync(t)
  <2>1. PICK p \in {"begin", "run"} : Goto(t, p) BY <1>1 DEF Call, Sync
  <2>2. pc[t] = "idle" /\ UNCHANGED <<cmtState, readers, writer, old>>
    BY <1>1 DEF Call, Sync, semVars, budVars
  <2> QED BY <2>1, <2>2, Free, Phase, Stay
<1>2. CASE Kick(t)
  <2>1. /\ pc[t] = "idle" /\ Goto(t, "kick") /\ UNCHANGED <<readers, writer, old>>
        /\ cmtState \in {"RESTING"} \cup Requested /\ cmtState' \in Requested
    BY <1>2 DEF Kick, semVars, budVars, Requested
  <2> QED BY <2>1, Free, Phase, Stay
<1> QED BY <1>1, <1>2 DEF Ask

LEMMA WakeStep == ASSUME CommitInv, NEW t \in Threads, WakeBgt(t) PROVE CommitInv'
<1>1. UNCHANGED <<cmtState, readers, writer, old>> /\ ControlOK
  BY DEF WakeBgt, semVars, budVars, CommitInv
<1>2. CASE pc[t] = "wake"
  <2>1. Goto(t, "write") BY <1>2 DEF WakeBgt
  <2> QED BY <1>1, <1>2, <2>1, Phase, Stay DEF ReadPcs
<1>3. CASE pc[t] = "kick"
  <2>1. Goto(t, "idle") BY <1>3 DEF WakeBgt
  <2> QED BY <1>1, <1>3, <2>1, Free, Phase, Stay
<1> QED BY <1>2, <1>3 DEF WakeBgt

\* A thread that leaves a call goes to "idle".
LEMMA LeaveIdle == ASSUME NEW t, Leave(t) PROVE Goto(t, "idle")
BY DEF Leave

LEMMA ReserveStep == ASSUME CommitInv, NEW t \in Clients, Reserve(t) PROVE CommitInv'
<1> t \in Threads /\ ControlOK BY DEF Threads, CommitInv
<1>1. CASE ReserveReadOnly(t)
  <2>1. pc[t] \in ReadPcs /\ Goto(t, "idle") /\ UpRead(t) /\ UNCHANGED <<cmtState, old>>
    BY <1>1, LeaveIdle DEF ReserveReadOnly, ReadPcs, budVars
  <2> QED BY <2>1, Free, Phase, LeaveRead
<1>2. CASE ReserveFits(t)
  <2>1. /\ pc[t] \in ReadPcs /\ Goto(t, "write") /\ "write" \in ReadPcs
        /\ UNCHANGED <<cmtState, readers, writer, old>>
    BY <1>2 DEF ReserveFits, ReadPcs, semVars, budVars
  <2> QED BY <2>1, Phase, Stay
<1>3. ASSUME NEW s \in Starts, AddBud(t, s) PROVE CommitInv'
  <2>1. pc[t] \in ReadPcs /\ UNCHANGED <<readers, writer, old>>
    BY <1>3 DEF AddBud, NewBud, AddToBuds, ReadPcs, semVars
  <2>2. PICK p \in ReadPcs : Goto(t, p) BY <1>3 DEF AddBud, ReadPcs
  <2>3. SamePhase
    <3>1. \/ UNCHANGED cmtState
          \/ cmtState \in {"RESTING"} \cup Requested /\ cmtState' \in Requested
      BY <1>3 DEF AddBud, Requested
    <3> QED BY <3>1, Phase
  <2> QED BY <2>1, <2>2, <2>3, Stay
<1>4. ASSUME NEW s \in Starts, AddBudFails(t, s) PROVE CommitInv'
  <2>1. pc[t] \in ReadPcs /\ Goto(t, "idle") /\ UpRead(t) /\ UNCHANGED <<cmtState, old>>
    BY <1>4, LeaveIdle DEF AddBudFails, NewBud, ReadPcs, budVars
  <2> QED BY <2>1, Free, Phase, LeaveRead
<1>5. ASSUME NEW s \in Starts, JournalFull(t, s) PROVE CommitInv'
  <2>1. pc[t] \in ReadPcs /\ Goto(t, "run") /\ UpRead(t) /\ CommitRequired /\ UNCHANGED old
    BY <1>5 DEF JournalFull, NewBud, ReadPcs, budVars
  <2> QED BY <2>1, Free, Phase, LeaveRead
<1>6. CASE GcWantsCommit(t)
  <2>1. pc[t] \in ReadPcs /\ Goto(t, "run") /\ UpRead(t) /\ UNCHANGED old
    BY <1>6 DEF GcWantsCommit, ReadPcs, budVars
  <2>2. SamePhase
    <3>1. \/ cmtState \in Requested /\ cmtState' \in Requested
          \/ CommitRequired
          \/ UNCHANGED cmtState
      BY <1>6 DEF GcWantsCommit, Requested
    <3> QED BY <3>1, Phase
  <2> QED BY <2>1, <2>2, Free, LeaveRead
<1> QED BY <1>1, <1>2, <1>3, <1>4, <1>5, <1>6 DEF Reserve

LEMMA WriteStep ==
    ASSUME CommitInv, NEW t \in Clients, Write(t) \/ WriteFails(t) PROVE CommitInv'
<1>1. pc[t] \in ReadPcs /\ Goto(t, "idle") /\ UpRead(t) /\ UNCHANGED <<cmtState, old>>
  BY LeaveIdle DEF Write, WriteFails, ReadPcs, budVars
<1> QED BY <1>1, Free, Phase, LeaveRead DEF Threads, CommitInv

LEMMA DownStep ==
    ASSUME CommitInv, NEW t \in Threads, DownRead(t) \/ DownWrite(t) PROVE CommitInv'
<1>1. CASE DownRead(t)
  <2>1. /\ pc[t] = "begin" /\ Goto(t, "reserve") /\ writer = None /\ readers' = readers \cup {t}
        /\ UNCHANGED <<cmtState, writer, old>>
    BY <1>1 DEF DownRead, budVars
  <2> QED BY <2>1, Free, EnterRead
<1>2. CASE DownWrite(t)
  <2>1. /\ pc[t] = "down" /\ Goto(t, "recheck") /\ readers = {} /\ writer = None /\ writer' = t
        /\ UNCHANGED <<cmtState, readers, old>>
    BY <1>2 DEF DownWrite, budVars
  <2> QED BY <2>1, Free, EnterWrite
<1> QED BY <1>1, <1>2

LEMMA RunStep ==
    ASSUME CommitInv, NEW t \in Threads, RunCommit(t) \/ WaitForCommit(t) PROVE CommitInv'
<1>1. pc[t] \in FreePcs /\ UNCHANGED <<readers, writer, old>> /\ ControlOK
  BY Free DEF RunCommit, WaitForCommit, semVars, budVars, CommitInv
<1>2. PICK p \in FreePcs : Goto(t, p)
  BY LeaveIdle, Free DEF RunCommit, WaitForCommit, Return
<1>3. SamePhase BY <1>1, Phase DEF RunCommit, WaitForCommit
<1> QED BY <1>1, <1>2, <1>3, Stay

LEMMA RecheckStep == ASSUME CommitInv, NEW t \in Clients, Recheck(t) PROVE CommitInv'
<1> t \in Threads /\ ControlOK BY DEF Threads, CommitInv
<1>1. pc[t] = "recheck" /\ UNCHANGED old BY DEF Recheck, budVars
<1>2. CASE cmtState \in {"BROKEN"} \cup Running
  <2>1. UpWrite /\ (UNCHANGED cmtState \/ cmtState' = Hurry) BY <1>2 DEF Recheck
  <2>2. PICK p \in FreePcs : Goto(t, p) BY <1>2, LeaveIdle, Free DEF Recheck
  <2> QED BY <1>1, <2>1, <2>2, Phase, LeaveWrite
<1>3. CASE cmtState \notin {"BROKEN"} \cup Running
  <2>1. Goto(t, "start") /\ cmtState' \in Running /\ UNCHANGED <<readers, writer>>
    BY <1>3 DEF Recheck, Running, semVars
  <2> QED BY <1>1, <1>3, <2>1, EnterCommit
<1> QED BY <1>2, <1>3

(***************************************************************************)
(* The background thread, and do_commit().                                 *)
(***************************************************************************)
LEMMA BgtStep ==
    ASSUME CommitInv, BgtLoop \/ BgtCheck \/ BgtRecheck PROVE CommitInv'
<1> Bgt \in Threads /\ ControlOK BY DEF Threads, CommitInv
<1>1. CASE BgtLoop \/ BgtCheck
  <2>1. pc[Bgt] \in FreePcs /\ UNCHANGED <<cmtState, readers, writer, old>>
    BY <1>1, Free DEF BgtLoop, BgtCheck, semVars, budVars
  <2>2. PICK p \in FreePcs : Goto(Bgt, p) BY <1>1, Free DEF BgtLoop, BgtCheck
  <2> QED BY <2>1, <2>2, Phase, Stay
<1>2. CASE BgtRecheck
  <2>1. pc[Bgt] = "recheck" /\ UNCHANGED old BY <1>2 DEF BgtRecheck, budVars
  <2>2. CASE cmtState \in Requested
    <3>1. Goto(Bgt, "start") /\ cmtState' \in Running /\ UNCHANGED <<readers, writer>>
      BY <1>2, <2>2 DEF BgtRecheck, Running, semVars
    <3>2. cmtState \notin {"BROKEN"} \cup Running BY <2>2 DEF Requested, Running
    <3> QED BY <2>1, <3>1, <3>2, EnterCommit
  <2>3. CASE cmtState \notin Requested
    <3>1. UpWrite /\ Goto(Bgt, "idle") /\ UNCHANGED cmtState BY <1>2, <2>3 DEF BgtRecheck
    <3> QED BY <2>1, <3>1, Free, Phase, LeaveWrite
  <2> QED BY <2>2, <2>3
<1> QED BY <1>1, <1>2

LEMMA CommitStep == ASSUME CommitInv, NEW t \in Threads, Commit(t) PROVE CommitInv'
<1>1. CASE CommitNothing(t)
  <2>1. /\ pc[t] = "start" /\ UpWrite /\ Goto(t, "finish")
        /\ UNCHANGED <<cmtState, old>>
    BY <1>1 DEF CommitNothing, budVars
  <2> QED BY <2>1, InCommit DEF CommitPcs, ReleasePcs
<1>2. CASE CommitStart(t) \/ CommitStartFails(t)
  <2>1. pc[t] = "start" /\ UpWrite /\ UNCHANGED cmtState
    BY <1>2 DEF CommitStart, CommitStartFails
  <2>2. PICK p \in {"end", "fail"} : Goto(t, p) BY <1>2 DEF CommitStart, CommitStartFails
  <2> QED BY <2>1, <2>2, InCommit DEF CommitPcs, ReleasePcs
<1>3. CASE CommitEnd(t) \/ CommitMaster(t) \/ CommitFails(t)
  <2>1. /\ pc[t] \in CommitPcs \ {"start"} /\ UNCHANGED <<cmtState, readers, writer>>
    BY <1>3 DEF CommitEnd, CommitMaster, CommitFails, semVars, CommitPcs
  <2>2. PICK p \in {"master", "post", "fail"} : Goto(t, p)
    BY <1>3 DEF CommitEnd, CommitMaster, CommitFails
  <2> QED BY <2>1, <2>2, InCommit DEF CommitPcs, ReleasePcs
<1>4. CASE CommitPost(t)
  <2>1. /\ pc[t] = "post" /\ old' = 0 /\ Goto(t, "finish")
        /\ UNCHANGED <<cmtState, readers, writer>>
    BY <1>4 DEF CommitPost, semVars
  <2> QED BY <2>1, InCommit DEF CommitPcs, ReleasePcs
<1>5. CASE CommitFinish(t)
  <2>1. /\ pc[t] = "finish" /\ cmtState' = "RESTING" /\ UNCHANGED <<readers, writer, old>>
    BY <1>5 DEF CommitFinish, semVars, budVars
  <2>2. PICK p \in FreePcs : Goto(t, p) BY <1>5, Free DEF CommitFinish, Return
  <2> QED BY <2>1, <2>2, LeaveCommit DEF CommitPcs, ReleasePcs
<1>6. CASE CommitBroken(t)
  <2>1. /\ pc[t] = "fail" /\ cmtState' = "BROKEN" /\ Goto(t, "readonly")
        /\ UNCHANGED <<readers, writer, old>>
    BY <1>6 DEF CommitBroken, semVars, budVars
  <2> QED BY <2>1, Free, LeaveCommit DEF CommitPcs
<1>7. CASE ReadOnly(t)
  <2>1. /\ pc[t] = "readonly" /\ Goto(t, "idle") /\ UNCHANGED <<cmtState, readers, writer, old>>
    BY <1>7, LeaveIdle DEF ReadOnly, semVars, budVars
  <2> QED BY <2>1, Free, Phase, Stay DEF CommitInv
<1> QED BY <1>1, <1>2, <1>3, <1>4, <1>5, <1>6, <1>7 DEF Commit

(***************************************************************************)
(* The theorems.                                                           *)
(***************************************************************************)
LEMMA NextInv == CommitInv /\ [Next]_vars => CommitInv'
<1> SUFFICES ASSUME CommitInv, [Next]_vars PROVE CommitInv'
  OBVIOUS
<1>1. ASSUME NEW t \in Clients, Ask(t) PROVE CommitInv' BY <1>1, AskStep
<1>2. ASSUME NEW t \in Clients, Client(t) PROVE CommitInv'
  <2> t \in Threads BY DEF Threads
  <2> QED
    BY <1>2, DownStep, WakeStep, ReserveStep, WriteStep, RunStep, RecheckStep, CommitStep
    DEF Client
<1>3. CASE BgtNext
  <2> Bgt \in Threads BY DEF Threads
  <2> QED BY <1>3, BgtStep, DownStep, CommitStep DEF BgtNext
<1>4. CASE Timer \/ UNCHANGED vars
  <2>1. UNCHANGED ctl BY <1>4 DEF Timer, vars, ctl, semVars, budVars
  <2> QED BY <2>1, SameControl
<1> QED BY <1>1, <1>2, <1>3, <1>4 DEF Next

\* commit_sem, cmt_state, the threads in do_commit() and old_buds fit together
\* in every state, for any number of clients and whatever fails.
THEOREM Consistent == Spec => []CommitInv
BY InitInv, NextInv, PTL DEF Spec

\* ubifs_run_commit() and run_bg_commit() never let two threads into
\* do_commit(), and cmt_state is RUNNING exactly while one is there.
THEOREM CommitsOneAtATime == Spec => []OneCommitter
<1>1. CommitInv => OneCommitter BY DEF CommitInv
<1> QED BY <1>1, Consistent, PTL

\* The start phase of a commit runs while no client has a reservation.
THEOREM StartsAlone == Spec => []StartAlone
<1>1. CommitInv => StartAlone
  BY CommitThreads DEF CommitInv, SemHeld, StartAlone, ReadPcs, WritePcs, Threads
<1> QED BY <1>1, Consistent, PTL

\* remove_buds() finds old_buds empty, even after commits that found nothing
\* to do or that failed.
THEOREM BudsReleased == Spec => []OldBudsReleased
<1>1. CommitInv => OldBudsReleased
  BY DEF CommitInv, OneCommitter, OldHeld, OldBudsReleased, ReleasePcs, CommitPcs, Running
<1> QED BY <1>1, Consistent, PTL

\* After a failure no thread is in do_commit().
LEMMA NobodyCommits ==
    ASSUME CommitInv, cmtState = "BROKEN", NEW t \in Threads PROVE pc[t] \notin CommitPcs
BY DEF CommitInv, OneCommitter, Running

LEMMA BrokenStep ==
    ASSUME CommitInv, [Next]_vars, cmtState = "BROKEN"
    PROVE  cmtState' = "BROKEN" /\ mstLog' = mstLog
<1> USE DEF logVars
<1>1. ASSUME NEW t \in Clients, Ask(t) PROVE cmtState' = "BROKEN" /\ mstLog' = mstLog
  BY <1>1 DEF Ask, Call, Sync, Kick
<1>2. ASSUME NEW t \in Threads, Commit(t) PROVE cmtState' = "BROKEN" /\ mstLog' = mstLog
  <2>1. ReadOnly(t)
    BY <1>2, NobodyCommits
    DEF Commit, CommitPcs, CommitNothing, CommitStart, CommitStartFails, CommitEnd,
        CommitMaster, CommitPost, CommitFails, CommitFinish, CommitBroken
  <2> QED BY <2>1 DEF ReadOnly
<1>3. ASSUME NEW t \in Clients, Reserve(t) PROVE cmtState' = "BROKEN" /\ mstLog' = mstLog
  <2>1. ASSUME NEW s \in Starts, AddBud(t, s) \/ AddBudFails(t, s) \/ JournalFull(t, s)
        PROVE  cmtState' = "BROKEN" /\ mstLog' = mstLog
    BY <2>1 DEF AddBud, AddBudFails, JournalFull, CommitRequired
  <2>2. CASE ReserveReadOnly(t) \/ ReserveFits(t) BY <2>2 DEF ReserveReadOnly, ReserveFits
  <2>3. CASE GcWantsCommit(t) BY <2>3 DEF GcWantsCommit, Requested, CommitRequired
  <2> QED BY <1>3, <2>1, <2>2, <2>3 DEF Reserve
<1>4. ASSUME NEW t \in Clients, Client(t) PROVE cmtState' = "BROKEN" /\ mstLog' = mstLog
  <2>1. CASE DownRead(t) \/ WakeBgt(t) \/ DownWrite(t) BY <2>1 DEF DownRead, WakeBgt, DownWrite
  <2>2. CASE Write(t) \/ WriteFails(t) BY <2>2 DEF Write, WriteFails
  <2>3. CASE RunCommit(t) \/ WaitForCommit(t) BY <2>3 DEF RunCommit, WaitForCommit, Hurry
  <2>4. CASE Recheck(t) BY <2>4 DEF Recheck, Running
  <2> QED BY <1>2, <1>3, <1>4, <2>1, <2>2, <2>3, <2>4 DEF Client, Threads
<1>5. CASE BgtNext
  <2>1. CASE BgtLoop \/ BgtCheck \/ DownWrite(Bgt) BY <2>1 DEF BgtLoop, BgtCheck, DownWrite
  <2>2. CASE BgtRecheck BY <2>2 DEF BgtRecheck, Requested
  <2> QED BY <1>2, <1>5, <2>1, <2>2 DEF BgtNext, Threads
<1>6. CASE Timer \/ UNCHANGED vars BY <1>6 DEF Timer, vars
<1> QED BY <1>1, <1>4, <1>5, <1>6 DEF Next

\* A failed commit is the last one: ubifs_run_commit() and run_bg_commit()
\* look at cmt_state again once they hold commit_sem.
THEOREM FailureIsFinal == Spec => BrokenIsFinal
<1>1. CommitInv /\ [Next]_vars =>
        [cmtState = "BROKEN" => cmtState' = "BROKEN" /\ mstLog' = mstLog]_vars
  BY BrokenStep
<1> QED BY <1>1, Consistent, PTL DEF Spec, BrokenIsFinal
(***************************************************************************)
(* The buds.                                                               *)
(***************************************************************************)
\* A failure is not forgotten.
LEMMA FailedStays == ASSUME CommitInv, [Next]_vars, Failed PROVE Failed'
<1> USE DEF Failed
<1>1. CASE cmtState = "BROKEN" BY <1>1, BrokenStep
<1>2. ASSUME NEW t \in Threads, pc[t] = "fail", [Next]_vars PROVE Failed'
  <2>1. ASSUME NEW u \in Threads \ {t}, NEW p, Goto(u, p) PROVE Failed'
    BY <1>2, <2>1 DEF Goto, CommitInv, ControlOK
  <2> DEFINE Moves(u) == \E p : Goto(u, p)
  <2>2. ASSUME NEW u \in Threads, Moves(u), u # t PROVE Failed' BY <2>1, <2>2
  <2> HIDE DEF Moves, Failed
  <2>3. ASSUME NEW u \in Threads, Commit(u) PROVE Failed'
    <3>1. CASE u = t
      <4>1. CommitBroken(t)
        BY <1>2, <2>3, <3>1
        DEF Commit, CommitNothing, CommitStart, CommitStartFails, CommitEnd,
            CommitMaster, CommitPost, CommitFails, CommitFinish, CommitBroken, ReadOnly
      <4> QED BY <4>1 DEF CommitBroken, Failed
    <3>2. CASE u # t
      <4>1. Moves(u)
        BY <2>3 DEF Moves, Commit, CommitNothing, CommitStart, CommitStartFails, CommitEnd,
            CommitMaster, CommitPost, CommitFails, CommitFinish, CommitBroken, ReadOnly,
            Leave, Return
      <4> QED BY <2>2, <3>2, <4>1
    <3> QED BY <3>1, <3>2
  <2>4. ASSUME NEW u \in Clients, Ask(u) PROVE Failed'
    <3>1. u # t /\ Moves(u) BY <1>2, <2>4 DEF Moves, Ask, Call, Sync, Kick
    <3> QED BY <2>2, <3>1 DEF Threads
  <2>5. ASSUME NEW u \in Clients, Reserve(u) PROVE Failed'
    <3>1. u # t /\ Moves(u)
      BY <1>2, <2>5 DEF Moves, Reserve, ReserveReadOnly, ReserveFits, AddBud, AddBudFails,
         JournalFull, GcWantsCommit, NewBud, Leave
    <3> QED BY <2>2, <3>1 DEF Threads
  <2>6. ASSUME NEW u \in Clients, Client(u) PROVE Failed'
    <3>1. CASE Commit(u) BY <2>3, <3>1 DEF Threads
    <3>2. CASE Reserve(u) BY <2>5, <3>2
    <3>3. CASE ~Commit(u) /\ ~Reserve(u)
      <4>1. u # t /\ Moves(u)
        BY <1>2, <2>6, <3>3 DEF Moves, Client, DownRead, WakeBgt, Write, WriteFails, RunCommit,
           WaitForCommit, DownWrite, Recheck, Leave, Return
      <4> QED BY <2>2, <4>1 DEF Threads
    <3> QED BY <3>1, <3>2, <3>3
  <2>7. CASE BgtNext
    <3>1. CASE Commit(Bgt) BY <2>3, <3>1 DEF Threads
    <3>2. CASE ~Commit(Bgt)
      <4>1. Bgt # t /\ Moves(Bgt)
        BY <1>2, <2>7, <3>2 DEF Moves, BgtNext, BgtLoop, BgtCheck, DownWrite, BgtRecheck
      <4> QED BY <2>2, <4>1 DEF Threads
    <3> QED BY <3>1, <3>2
  <2>8. CASE Timer \/ UNCHANGED vars
    BY <1>2, <2>8 DEF Timer, vars, Failed
  <2> QED BY <1>2, <2>4, <2>6, <2>7, <2>8 DEF Next
<1>3. CASE roError
  BY <1>3 DEF Next, vars, Ask, Call, Sync, Kick, Client, DownRead, WakeBgt, Reserve,
     ReserveReadOnly, ReserveFits, AddBud, AddBudFails, JournalFull, GcWantsCommit, NewBud,
     Write, WriteFails, RunCommit, WaitForCommit, DownWrite, Recheck, Commit, CommitNothing,
     CommitStart, CommitStartFails, CommitEnd, CommitMaster, CommitPost, CommitFails,
     CommitFinish, CommitBroken, ReadOnly, BgtNext, BgtLoop, BgtCheck, BgtRecheck, Timer
<1> QED BY <1>1, <1>2, <1>3

(***************************************************************************)
(* How much the buds take.                                                 *)
(***************************************************************************)
LEMMA ByteTypes ==
    ASSUME BudTypes
    PROVE  /\ \A j \in JHeads : HeadBytes(j) \in Nat /\ HeldBytes(j) \in Nat
           /\ OpenBytes \in Nat /\ WrittenBytes \in Nat
<1>1. LebSize \in Nat BY CommitSizes
<1>2. ASSUME NEW j \in JHeads PROVE HeadBytes(j) \in Nat /\ HeldBytes(j) \in Nat
  <2>1. CASE head[j] = None BY <2>1 DEF HeadBytes, HeldBytes
  <2>2. CASE head[j] # None
    <3>1. head[j].start \in 0 .. LebSize /\ head[j].offs \in 0 .. LebSize
          /\ head[j].start <= head[j].offs
      BY <2>2 DEF BudTypes, Wbufs
    <3> QED BY <1>1, <2>2, <3>1 DEF HeadBytes, HeldBytes
  <2> QED BY <2>1, <2>2
<1>3. IsFiniteSet(JHeads) BY CommitThreads
<1> DEFINE w == [j \in JHeads |-> HeadBytes(j)]
           v == [j \in JHeads |-> HeldBytes(j)]
<1>4. \A j \in JHeads : w[j] \in Nat /\ v[j] \in Nat BY <1>2
<1> HIDE DEF w, v
<1>5. SumFunctionOnSet(w, JHeads) \in Nat /\ SumFunctionOnSet(v, JHeads) \in Nat
  BY <1>3, <1>4, SumNat
<1> QED BY <1>2, <1>5 DEF OpenBytes, WrittenBytes, w, v

BytesCount == \A j \in JHeads : HeadBytes(j) \in Nat

LEMMA BytesAlways == BudTypes => BytesCount
BY ByteTypes DEF BytesCount

OpenNatural == OpenBytes \in Nat

LEMMA OpenAlways == BudTypes => OpenNatural
BY ByteTypes DEF OpenNatural

\* The bytes of the open buds as long as no bud is opened and no start moved.
LEMMA OpenSame ==
    ASSUME \A j \in JHeads : HeadBytes(j)' = HeadBytes(j)
    PROVE  OpenBytes' = OpenBytes
BY DEF OpenBytes

\* A journal head goes to another bud.
LEMMA OpenChange ==
    ASSUME BudTypes, BudTypes', NEW k \in JHeads,
           \A j \in JHeads \ {k} : HeadBytes(j)' = HeadBytes(j)
    PROVE  OpenBytes' = OpenBytes - HeadBytes(k) + HeadBytes(k)'
<1> DEFINE w == [j \in JHeads |-> HeadBytes(j)]
           v == [j \in JHeads |-> HeadBytes(j)']
<1>1. \A j \in JHeads : w[j] \in Nat /\ v[j] \in Nat
  <2>1. \A j \in JHeads : HeadBytes(j) \in Nat BY ByteTypes
  <2>2. BytesCount' BY BytesAlways, PTL
  <2> QED BY <2>1, <2>2 DEF BytesCount
<1>2. \A j \in JHeads \ {k} : w[j] = v[j] OBVIOUS
<1>3. w[k] = HeadBytes(k) /\ v[k] = HeadBytes(k)' OBVIOUS
<1>4. OpenBytes = SumFunctionOnSet(w, JHeads) /\ OpenBytes' = SumFunctionOnSet(v, JHeads)
  BY DEF OpenBytes
<1> HIDE DEF w, v
<1>5. SumFunctionOnSet(v, JHeads) = SumFunctionOnSet(w, JHeads) - w[k] + v[k]
  BY <1>1, <1>2, CommitThreads, SumChange
<1> QED BY <1>3, <1>4, <1>5

\* remove_buds(): every open bud is cut in two.
LEMMA OpenCut ==
    ASSUME BudTypes, BudTypes',
           \A j \in JHeads : HeadBytes(j) = HeldBytes(j) + HeadBytes(j)'
    PROVE  OpenBytes = WrittenBytes + OpenBytes'
<1> DEFINE u == [j \in JHeads |-> HeadBytes(j)]
           w == [j \in JHeads |-> HeldBytes(j)]
           v == [j \in JHeads |-> HeadBytes(j)']
<1>1. \A j \in JHeads : w[j] \in Nat /\ v[j] \in Nat /\ u[j] = w[j] + v[j]
  <2>1. \A j \in JHeads : HeldBytes(j) \in Nat BY ByteTypes
  <2>2. BytesCount' BY BytesAlways, PTL
  <2> QED BY <2>1, <2>2 DEF BytesCount
<1>2. /\ OpenBytes = SumFunctionOnSet(u, JHeads) /\ OpenBytes' = SumFunctionOnSet(v, JHeads)
      /\ WrittenBytes = SumFunctionOnSet(w, JHeads)
  BY DEF OpenBytes, WrittenBytes
<1> HIDE DEF u, w, v
<1>3. SumFunctionOnSet(u, JHeads) = SumFunctionOnSet(w, JHeads) + SumFunctionOnSet(v, JHeads)
  BY <1>1, CommitThreads, SumPlus
<1> QED BY <1>2, <1>3

(***************************************************************************)
(* The steps, by what they do to the buds.                                 *)
(***************************************************************************)
\* Thread t goes to p, with what it reserves.
Turn(t, p) ==
    /\ Goto(t, p)
    /\ \/ UNCHANGED job /\ (t \in Clients /\ p \in WriterPcs => job[t] # None)
       \/ /\ t \in Clients /\ p \notin IoPcs
          /\ \E r \in Reservations \cup {None} :
                job' = [job EXCEPT ![t] = r] /\ (p \in WriterPcs => r # None)

\* A thread that is not in the middle of writing and of the commit, or leaves
\* it.
LEMMA Aside ==
    ASSUME BudInv, ControlOK, Failed => Failed', UNCHANGED <<head, closed, budBytes, cmtBytes>>,
           NEW t \in Threads, NEW p, Turn(t, p),
           p \in IoPcs => pc[t] \in IoPcs,
           Failed' \/ (p # "end" /\ pc[t] # "end")
    PROVE  BudInv'
<1>1. BudTypes' /\ (WritersFit /\ BudTypes => WritersFit')
  <2>1. CASE UNCHANGED job /\ (t \in Clients /\ p \in WriterPcs => job[t] # None)
    <3>1. BudTypes' BY <2>1 DEF BudInv, BudTypes
    <3>2. WritersFit'
      BY <2>1 DEF BudInv, WritersFit, ControlOK, Turn, Goto, Avail, Threads
    <3> QED BY <3>1, <3>2
  <2>2. ASSUME t \in Clients, p \notin IoPcs, NEW r \in Reservations \cup {None},
               job' = [job EXCEPT ![t] = r], p \in WriterPcs => r # None
        PROVE  BudTypes' /\ WritersFit'
    <3>1. BudTypes' BY <2>2 DEF BudInv, BudTypes
    <3>2. WritersFit'
      BY <2>2 DEF BudInv, BudTypes, WritersFit, ControlOK, Turn, Goto, Avail, Threads
    <3> QED BY <3>1, <3>2
  <2> QED BY <2>1, <2>2 DEF Turn
<1>2. BudBytesExact'
  <2>1. CASE Failed' BY <2>1 DEF BudBytesExact
  <2>2. CASE ~Failed'
    <3>1. (\E u \in Threads : pc[u] = "end")' <=> (\E u \in Threads : pc[u] = "end")
      BY <2>2 DEF ControlOK, Turn, Goto
    <3>2. OpenBytes' = OpenBytes
      <4>1. \A j \in JHeads : HeadBytes(j)' = HeadBytes(j) BY DEF HeadBytes
      <4> QED BY <4>1, OpenSame
    <3> QED BY <2>2, <3>1, <3>2 DEF BudInv, BudBytesExact
  <2> QED BY <2>1, <2>2
<1> QED BY <1>1, <1>2 DEF BudInv

LEMMA Elsewhere ==
    ASSUME BudInv, ControlOK, Failed => Failed', UNCHANGED budVars,
           NEW t \in Threads, NEW p, Turn(t, p),
           p \in IoPcs => pc[t] \in IoPcs,
           Failed' \/ (p # "end" /\ pc[t] # "end")
    PROVE  BudInv'
BY Aside DEF budVars

LEMMA ElsewhereNot ==
    ASSUME BudInv, Failed => Failed', UNCHANGED <<budVars, pc, job>> PROVE BudInv'
<1>1. BudTypes' BY DEF BudInv, BudTypes, budVars
<1>2. WritersFit' BY DEF BudInv, WritersFit, budVars, Avail
<1>3. \A j \in JHeads : HeadBytes(j)' = HeadBytes(j) BY DEF HeadBytes, budVars
<1>4. OpenBytes' = OpenBytes BY <1>3, OpenSame
<1> QED BY <1>1, <1>2, <1>4 DEF BudInv, BudBytesExact, budVars

LEMMA ReturnTurns ==
    ASSUME BudTypes, NEW t \in Threads, Leave(t) \/ Return(t)
    PROVE  \E p \in {"idle", "begin"} : Turn(t, p)
<1>1. CASE Leave(t)
  <2>1. Turn(t, "idle") BY <1>1 DEF Leave, Turn, WriterPcs, IoPcs
  <2> QED BY <2>1
<1>2. CASE Return(t)
  <2>1. PICK p \in {"idle", "begin"} : Goto(t, p) /\ (p = "begin" => t \in Clients /\ job[t] # None)
    BY <1>2 DEF Return
  <2>2. Turn(t, p) BY <1>2, <2>1 DEF Return, Turn, WriterPcs
  <2> QED BY <2>2
<1> QED BY <1>1, <1>2

LEMMA AskBuds ==
    ASSUME BudInv, ControlOK, Failed => Failed', NEW t \in Clients, Ask(t) PROVE BudInv'
<1> t \in Threads BY DEF Threads
<1>1. CASE Call(t)
  <2>1. PICK j \in JHeads, n \in Lens : job' = [job EXCEPT ![t] = [head |-> j, len |-> n]]
    BY <1>1 DEF Call
  <2> DEFINE r == [head |-> j, len |-> n]
  <2>2. r \in Reservations /\ r # None BY CommitNone DEF Reservations
  <2>3. Turn(t, "begin")
    <3>1. job' = [job EXCEPT ![t] = r] BY <2>1
    <3> HIDE DEF r
    <3> QED BY <1>1, <2>2, <3>1 DEF Call, Turn, IoPcs
  <2> QED BY <1>1, <2>3, Elsewhere DEF Call, IoPcs, logVars
<1>2. CASE Sync(t) \/ Kick(t)
  <2>1. PICK p \in {"run", "kick"} : Turn(t, p) BY <1>2 DEF Sync, Kick, Turn, WriterPcs
  <2> QED BY <1>2, <2>1, Elsewhere DEF Sync, Kick, IoPcs
<1> QED BY <1>1, <1>2 DEF Ask

\* A client outside do_commit() that opens no bud and writes nothing.
LEMMA ClientBuds ==
    ASSUME BudInv, ControlOK, Failed => Failed', NEW t \in Threads,
           \/ DownRead(t) /\ t \in Clients
           \/ WakeBgt(t) /\ t \in Clients
           \/ RunCommit(t) \/ WaitForCommit(t) \/ DownWrite(t)
           \/ Recheck(t)
    PROVE  BudInv'
<1>1. CASE DownRead(t) /\ t \in Clients
  <2>1. Turn(t, "reserve") BY <1>1 DEF DownRead, Turn, BudInv, WritersFit, WriterPcs
  <2> QED BY <1>1, <2>1, Elsewhere DEF DownRead, IoPcs
<1>2. CASE WakeBgt(t) /\ t \in Clients
  <2>1. pc[t] = "wake" => Turn(t, "write") BY <1>2 DEF WakeBgt, Turn, BudInv, WritersFit, WriterPcs
  <2>2. pc[t] # "wake" => Turn(t, "idle") BY <1>2 DEF WakeBgt, Turn, WriterPcs
  <2>3. UNCHANGED budVars /\ pc[t] \in {"kick", "wake"} BY <1>2 DEF WakeBgt
  <2>4. CASE pc[t] = "wake" BY <2>1, <2>3, <2>4, Elsewhere DEF IoPcs
  <2>5. CASE pc[t] # "wake" BY <2>2, <2>3, <2>5, Elsewhere DEF IoPcs
  <2> QED BY <2>4, <2>5
<1>3. CASE RunCommit(t) \/ WaitForCommit(t)
  <2>1. PICK p \in {"idle", "begin", "wait", "down"} : Turn(t, p)
    <3>1. Leave(t) \/ Return(t) \/ ((Goto(t, "wait") \/ Goto(t, "down")) /\ UNCHANGED job)
      BY <1>3 DEF RunCommit, WaitForCommit
    <3> QED BY <3>1, ReturnTurns DEF BudInv, Turn, WriterPcs
  <2>2. UNCHANGED budVars /\ pc[t] \in {"run", "wait"} BY <1>3 DEF RunCommit, WaitForCommit
  <2> QED BY <2>1, <2>2, Elsewhere DEF IoPcs
<1>4. CASE DownWrite(t)
  <2>1. Turn(t, "recheck") BY <1>4 DEF DownWrite, Turn, WriterPcs
  <2> QED BY <1>4, <2>1, Elsewhere DEF DownWrite, IoPcs
<1>5. CASE Recheck(t)
  <2>1. PICK p \in {"idle", "begin", "wait", "start"} : Turn(t, p)
    <3>1. Leave(t) \/ ((Goto(t, "wait") \/ Goto(t, "start")) /\ UNCHANGED job)
      BY <1>5 DEF Recheck
    <3> QED BY <3>1, ReturnTurns DEF BudInv, Turn, WriterPcs
  <2>2. UNCHANGED budVars /\ pc[t] = "recheck" BY <1>5 DEF Recheck
  <2> QED BY <2>1, <2>2, Elsewhere DEF IoPcs
<1> QED BY <1>1, <1>2, <1>3, <1>4, <1>5

LEMMA BgtBuds ==
    ASSUME BudInv, ControlOK, Failed => Failed', BgtLoop \/ BgtCheck \/ BgtRecheck
    PROVE  BudInv'
<1>1. Bgt \in Threads /\ Bgt \notin Clients BY CommitThreads DEF Threads
<1>2. PICK p \in {"idle", "check", "down", "start"} : Goto(Bgt, p) /\ UNCHANGED job
  BY DEF BgtLoop, BgtCheck, BgtRecheck
<1>3. Turn(Bgt, p) BY <1>1, <1>2 DEF Turn
<1>4. UNCHANGED budVars /\ pc[Bgt] \in {"idle", "check", "recheck"}
  BY DEF BgtLoop, BgtCheck, BgtRecheck
<1> QED BY <1>1, <1>3, <1>4, Elsewhere DEF IoPcs

(***************************************************************************)
(* Writers.                                                                *)
(***************************************************************************)
\* What is known of a client with a reservation.
LEMMA Reserved ==
    ASSUME BudInv, NEW t \in Clients, pc[t] \in WriterPcs
    PROVE  /\ t \in Threads
           /\ job[t].head \in JHeads /\ job[t].len \in Lens
           /\ job[t].len \in Nat \ {0} /\ LebSize \in Nat
<1>1. job[t] \in Reservations BY DEF BudInv, BudTypes, WritersFit
<1>2. job[t].head \in JHeads /\ job[t].len \in Lens BY <1>1 DEF Reservations
<1>3. LebSize \in Nat /\ Lens \subseteq 1 .. LebSize BY CommitSizes
<1>4. \A n \in 1 .. LebSize : n \in Nat \ {0} BY <1>3
<1> QED BY <1>2, <1>3, <1>4 DEF Threads

LEMMA FitsBuds ==
    ASSUME BudInv, ControlOK, Failed => Failed', NEW t \in Clients, ReserveFits(t)
    PROVE  BudInv'
<1>1. pc[t] = "reserve" /\ "reserve" \in WriterPcs BY DEF ReserveFits, WriterPcs
<1>2. t \in Threads /\ job[t].len \in Nat \ {0} BY <1>1, Reserved
<1>3. head[job[t].head] # None
  BY <1>2 DEF ReserveFits, Avail
<1>4. BudTypes' BY DEF ReserveFits, BudInv, BudTypes, budVars
<1>5. WritersFit'
  BY <1>1, <1>2, <1>3
  DEF ReserveFits, Unlocked, BudInv, WritersFit, ControlOK, Goto, Avail, IoPcs, WriterPcs, budVars
<1>6. BudBytesExact'
  <2>1. (\E u \in Threads : pc[u] = "end")' <=> (\E u \in Threads : pc[u] = "end")
    BY <1>1, <1>2 DEF ReserveFits, ControlOK, Goto
  <2>2. \A j \in JHeads : HeadBytes(j)' = HeadBytes(j) BY DEF HeadBytes, ReserveFits, budVars
  <2>3. OpenBytes' = OpenBytes BY <2>2, OpenSame
  <2> QED BY <2>1, <2>3 DEF BudInv, BudBytesExact, ReserveFits, budVars
<1> QED BY <1>4, <1>5, <1>6 DEF BudInv

\* A client gives its reservation up, or tries again after a commit.
LEMMA GivesUp ==
    ASSUME BudInv, ControlOK, Failed => Failed', NEW t \in Clients,
           \/ ReserveReadOnly(t)
           \/ \E s \in Starts : AddBudFails(t, s) \/ JournalFull(t, s)
           \/ GcWantsCommit(t)
           \/ WriteFails(t)
    PROVE  BudInv'
<1>1. t \in Threads /\ UNCHANGED budVars
  BY DEF Threads, ReserveReadOnly, AddBudFails, JournalFull, GcWantsCommit, WriteFails
<1>2. PICK p \in {"idle", "run"} : Turn(t, p)
  <2>1. Leave(t) \/ (Goto(t, "run") /\ UNCHANGED job)
    BY DEF ReserveReadOnly, AddBudFails, JournalFull, GcWantsCommit, WriteFails
  <2>2. CASE Leave(t)
    <3>1. Turn(t, "idle") BY <2>2 DEF Leave, Turn, WriterPcs, IoPcs
    <3> QED BY <3>1
  <2>3. CASE Goto(t, "run") /\ UNCHANGED job
    <3>1. Turn(t, "run") BY <2>3 DEF Turn, WriterPcs
    <3> QED BY <3>1
  <2> QED BY <2>1, <2>2, <2>3
<1>3. pc[t] \in {"reserve", "write"}
  BY DEF ReserveReadOnly, AddBudFails, JournalFull, GcWantsCommit, WriteFails, NewBud
<1> QED BY <1>1, <1>2, <1>3, Elsewhere DEF IoPcs

\* A bud is opened for the journal head of t; the one before is closed.
LEMMA OpensBud ==
    ASSUME BudInv, ControlOK, Failed => Failed', NEW t \in Clients, NEW s \in Starts,
           AddBud(t, s)
    PROVE  BudInv'
<1> DEFINE k == job[t].head
           b == [start |-> s, offs |-> s]
<1>1. pc[t] = "reserve" /\ "reserve" \in WriterPcs BY DEF AddBud, NewBud, WriterPcs
<1>2. t \in Threads /\ k \in JHeads /\ job[t].len \in Nat \ {0} /\ LebSize \in Nat
  BY <1>1, Reserved
<1>3. s \in 0 .. LebSize - 1 /\ s \in Nat BY CommitSizes
<1>4. b \in Wbufs /\ b # None /\ b.start = s /\ b.offs = s
  BY <1>2, <1>3, CommitNone DEF Wbufs
<1>5. head' = [head EXCEPT ![k] = b] /\ budBytes' = budBytes + LebSize - s
      /\ UNCHANGED <<old, cmtBytes, job>>
  BY DEF AddBud, AddToBuds
<1>6. closed'.bytes = closed.bytes + HeadBytes(k)
  <2>1. CASE head[k] = None
    <3>1. HeadBytes(k) = 0 /\ closed.bytes \in Nat BY <2>1 DEF HeadBytes, BudInv, BudTypes
    <3> QED BY <2>1, <3>1 DEF AddBud, AddToBuds
  <2>2. CASE head[k] # None BY <2>2 DEF AddBud, AddToBuds
  <2> QED BY <2>1, <2>2
<1>7. PICK p \in {"wake", "write"} : Goto(t, p) BY DEF AddBud
<1>8. job[t].len <= LebSize - s /\ Unlocked(t) BY DEF AddBud, NewBud
<1>9. BudTypes /\ HeadBytes(k) \in Nat BY <1>2, ByteTypes DEF BudInv
<1> HIDE DEF b, k
<1>10. BudTypes'
  <2>1. /\ job' \in [Clients -> Reservations \cup {None}]
        /\ head' \in [JHeads -> Wbufs \cup {None}]
        /\ \A j \in JHeads : head'[j] # None => head'[j].start <= head'[j].offs
    BY <1>2, <1>3, <1>4, <1>5, <1>9 DEF BudTypes
  <2>2. closed'.bytes \in Nat /\ cmtBytes' \in Nat /\ budBytes' \in Int
    BY <1>2, <1>3, <1>5, <1>6, <1>9 DEF BudTypes
  <2> QED BY <2>1, <2>2 DEF BudTypes
<1>11. WritersFit'
  <2>1. pc' = [pc EXCEPT ![t] = p] /\ pc \in [Threads -> Pcs] BY <1>7 DEF Goto, ControlOK
  <2>2. \A u \in Clients \ {t} : pc[u] \in IoPcs => job[u].head # k
    BY <1>8 DEF Unlocked, IoPcs, k
  <2>3. ASSUME NEW u \in Clients, u # t
        PROVE  /\ pc'[u] \in WriterPcs => job'[u] # None
               /\ pc'[u] \in IoPcs =>
                     /\ head'[job'[u].head] # None
                     /\ job'[u].len <= Avail(job[u].head)'
                     /\ \A v \in Clients \ {u} : pc'[v] \in IoPcs => job'[v].head # job'[u].head
    <3>1. pc'[u] = pc[u] /\ job'[u] = job[u] BY <1>5, <2>1, <2>3 DEF Threads
    <3>2. pc[u] \in IoPcs => head'[job[u].head] = head[job[u].head]
      <4>1. pc[u] \in IoPcs => job[u].head \in JHeads /\ job[u].head # k
        BY <2>2, <2>3, Reserved DEF IoPcs, WriterPcs
      <4> QED BY <1>5, <1>9, <4>1 DEF BudTypes
    <3>3. pc[u] \in IoPcs => Avail(job[u].head)' = Avail(job[u].head)
      BY <1>5, <3>2 DEF Avail
    <3>4. pc[u] \in IoPcs => \A v \in Clients \ {u} : pc'[v] \in IoPcs => job'[v].head # job'[u].head
      <4>1. SUFFICES ASSUME pc[u] \in IoPcs, NEW v \in Clients \ {u}, pc'[v] \in IoPcs
                     PROVE  job'[v].head # job'[u].head
        OBVIOUS
      <4>2. CASE v = t BY <1>5, <2>2, <2>3, <4>1, <4>2 DEF k
      <4>3. CASE v # t
        <5>1. pc[v] \in IoPcs BY <2>1, <4>1, <4>3 DEF Threads
        <5> QED BY <1>5, <4>1, <5>1 DEF BudInv, WritersFit
      <4> QED BY <4>2, <4>3
    <3>5. pc[u] \in IoPcs => job[u].len <= Avail(job[u].head) /\ head[job[u].head] # None
      BY DEF BudInv, WritersFit
    <3>6. pc[u] \in WriterPcs => job[u] # None BY DEF BudInv, WritersFit
    <3> QED BY <1>5, <3>1, <3>2, <3>3, <3>4, <3>5, <3>6
  <2>4. /\ job'[t] # None
        /\ head'[job'[t].head] # None
        /\ job'[t].len <= Avail(job[t].head)'
        /\ \A v \in Clients \ {t} : pc'[v] \in IoPcs => job'[v].head # job'[t].head
    <3>1. job'[t] = job[t] /\ job[t] # None BY <1>1, <1>5 DEF BudInv, WritersFit
    <3>2. head'[k] = b BY <1>2, <1>5, <1>9 DEF BudTypes
    <3>3. Avail(k)' = LebSize - s
      <4>1. k' = k BY <1>5 DEF k
      <4> QED BY <1>4, <3>2, <4>1 DEF Avail
    <3>4. Avail(job[t].head)' = LebSize - s BY <1>5, <3>3 DEF k
    <3>5. \A v \in Clients \ {t} : pc'[v] \in IoPcs => pc[v] \in IoPcs BY <2>1 DEF Threads
    <3> QED BY <1>4, <1>5, <1>8, <2>2, <3>1, <3>2, <3>4, <3>5 DEF k
  <2>5. ASSUME NEW u \in Clients
        PROVE  /\ pc'[u] \in WriterPcs => job'[u] # None
               /\ pc'[u] \in IoPcs =>
                     /\ head'[job'[u].head] # None
                     /\ job'[u].len <= Avail(job[u].head)'
                     /\ \A v \in Clients \ {u} : pc'[v] \in IoPcs => job'[v].head # job'[u].head
    BY <2>3, <2>4
  <2> QED BY <1>5, <2>5 DEF WritersFit, Avail
<1>12. BudBytesExact'
  <2>1. (\E u \in Threads : pc[u] = "end")' <=> (\E u \in Threads : pc[u] = "end")
    BY <1>1, <1>2, <1>7 DEF ControlOK, Goto
  <2>2. OpenBytes' = OpenBytes - HeadBytes(k) + (LebSize - s)
    <3>1. PICK j \in JHeads : j = k BY <1>2
    <3>2. \A i \in JHeads \ {j} : HeadBytes(i)' = HeadBytes(i)
      BY <1>5, <1>9, <3>1 DEF BudTypes, HeadBytes
    <3>3. OpenBytes' = OpenBytes - HeadBytes(j) + HeadBytes(j)'
      BY <1>9, <1>10, <3>2, OpenChange
    <3>4. head'[j] = b BY <1>2, <1>5, <1>9, <3>1 DEF BudTypes
    <3>5. HeadBytes(j)' = LebSize - s BY <1>4, <3>4 DEF HeadBytes
    <3> QED BY <3>1, <3>3, <3>5
  <2>4. OpenBytes \in Nat /\ closed.bytes \in Nat /\ cmtBytes \in Nat /\ budBytes \in Int
    BY <1>9, ByteTypes DEF BudTypes
  <2>5. CASE Failed' BY <2>5 DEF BudBytesExact
  <2>6. CASE ~Failed'
    <3>1. budBytes = closed.bytes + OpenBytes
                     + IF \E u \in Threads : pc[u] = "end" THEN cmtBytes ELSE 0
      BY <2>6 DEF BudInv, BudBytesExact
    <3> DEFINE o1 == OpenBytes'
               c1 == closed'.bytes
               b1 == budBytes'
    <3>2. o1 = OpenBytes - HeadBytes(k) + (LebSize - s) BY <2>2
    <3>3. c1 = closed.bytes + HeadBytes(k) BY <1>6
    <3>4. b1 = budBytes + LebSize - s BY <1>5
    <3> HIDE DEF o1, c1, b1
    <3>5. b1 = c1 + o1 + IF \E u \in Threads : pc[u] = "end" THEN cmtBytes ELSE 0
      BY <1>2, <1>3, <1>9, <2>4, <3>1, <3>2, <3>3, <3>4
    <3> QED BY <1>5, <2>1, <3>5 DEF BudBytesExact, o1, c1, b1
  <2> QED BY <2>5, <2>6
<1> QED BY <1>10, <1>11, <1>12 DEF BudInv

\* A node is written at the end of its bud.
LEMMA WritesNode ==
    ASSUME BudInv, ControlOK, Failed => Failed', NEW t \in Clients, Write(t)
    PROVE  BudInv'
<1> DEFINE k == job[t].head
           b == [head[k] EXCEPT !.offs = @ + job[t].len]
<1>1. pc[t] = "write" /\ "write" \in WriterPcs /\ "write" \in IoPcs
  BY DEF Write, WriterPcs, IoPcs
<1>2. t \in Threads /\ k \in JHeads /\ job[t].len \in Nat \ {0} /\ LebSize \in Nat
  BY <1>1, Reserved
<1>3. head[k] # None /\ job[t].len <= Avail(k)
  BY <1>1 DEF BudInv, WritersFit
<1>4. head[k] \in Wbufs /\ head[k].start <= head[k].offs
  BY <1>2, <1>3 DEF BudInv, BudTypes
<1>5. /\ head[k].start \in 0 .. LebSize /\ head[k].offs \in 0 .. LebSize
      /\ head[k] = [start |-> head[k].start, offs |-> head[k].offs]
  BY <1>4 DEF Wbufs
<1>6. head[k].offs + job[t].len \in 0 .. LebSize
  <2>1. Avail(k) = LebSize - head[k].offs BY <1>3 DEF Avail
  <2> QED BY <1>2, <1>3, <1>5, <2>1
<1>7. b \in Wbufs /\ b # None /\ b.start = head[k].start /\ b.offs = head[k].offs + job[t].len
  BY <1>4, <1>5, <1>6, CommitNone DEF Wbufs
<1>8. b.start <= b.offs BY <1>2, <1>4, <1>5, <1>7
<1>9. head' = [head EXCEPT ![k] = b]
  BY DEF Write
<1>10. Goto(t, "idle") /\ job' = [job EXCEPT ![t] = None]
       /\ UNCHANGED <<closed, old, budBytes, cmtBytes>>
  BY DEF Write, Leave
<1> HIDE DEF b, k
<1>11. BudTypes'
  <2>1. job' \in [Clients -> Reservations \cup {None}] BY <1>10 DEF BudInv, BudTypes
  <2>2. /\ head' \in [JHeads -> Wbufs \cup {None}]
        /\ \A j \in JHeads : head'[j] # None => head'[j].start <= head'[j].offs
    BY <1>2, <1>7, <1>8, <1>9 DEF BudInv, BudTypes
  <2> QED BY <1>10, <2>1, <2>2 DEF BudInv, BudTypes
<1>12. WritersFit'
  <2>1. pc' = [pc EXCEPT ![t] = "idle"] /\ pc \in [Threads -> Pcs] BY <1>10 DEF Goto, ControlOK
  <2>2. pc'[t] = "idle" /\ "idle" \notin WriterPcs /\ "idle" \notin IoPcs
    BY <1>2, <2>1 DEF WriterPcs, IoPcs
  <2>3. ASSUME NEW u \in Clients, u # t PROVE pc'[u] = pc[u] /\ job'[u] = job[u]
    BY <1>10, <2>1, <2>3 DEF Threads, BudInv, BudTypes
  <2>4. ASSUME NEW u \in Clients, u # t, pc[u] \in IoPcs
        PROVE  head'[job[u].head] = head[job[u].head]
    <3>1. job[u].head # k BY <1>1, <2>4 DEF BudInv, WritersFit, k
    <3>2. job[u].head \in JHeads BY <2>4, Reserved DEF IoPcs, WriterPcs
    <3> QED BY <1>9, <3>1, <3>2 DEF BudInv, BudTypes
  <2>5. ASSUME NEW u \in Clients, u # t, pc[u] \in IoPcs
        PROVE  Avail(job[u].head)' = Avail(job[u].head)
    BY <2>3, <2>4, <2>5 DEF Avail
  <2> QED BY <2>2, <2>3, <2>4, <2>5 DEF WritersFit, BudInv
<1>13. BudBytesExact'
  <2>1. (\E u \in Threads : pc[u] = "end")' <=> (\E u \in Threads : pc[u] = "end")
    BY <1>1, <1>2, <1>10 DEF ControlOK, Goto
  <2>2. \A j \in JHeads : HeadBytes(j)' = HeadBytes(j)
    BY <1>2, <1>3, <1>7, <1>9 DEF HeadBytes, BudInv, BudTypes
  <2>3. OpenBytes' = OpenBytes BY <2>2, OpenSame
  <2> QED BY <1>10, <2>1, <2>3 DEF BudInv, BudBytesExact
<1> QED BY <1>11, <1>12, <1>13 DEF BudInv

(***************************************************************************)
(* do_commit().                                                            *)
(***************************************************************************)
\* ubifs_log_start_commit() with no client in the middle of writing.
LEMMA StartTypes ==
    ASSUME BudInv, \A u \in Clients : pc[u] \notin IoPcs /\ pc'[u] \notin IoPcs,
           \A u \in Clients : pc'[u] \in WriterPcs => pc[u] \in WriterPcs,
           LogStartCommit, UNCHANGED job
    PROVE  /\ BudTypes' /\ WritersFit'
           /\ OpenBytes = WrittenBytes + OpenBytes'
<1>1. head' = [j \in JHeads |->
                  IF head[j] = None THEN None ELSE [head[j] EXCEPT !.start = head[j].offs]]
      /\ cmtBytes' = closed.bytes + WrittenBytes
      /\ closed' = [n |-> 0, bytes |-> 0] /\ budBytes' = budBytes
  BY DEF LogStartCommit
<1>2. ASSUME NEW j \in JHeads, head[j] # None
      PROVE  /\ head'[j] \in Wbufs /\ head'[j] # None
             /\ head'[j].start = head[j].offs /\ head'[j].offs = head[j].offs
             /\ head[j].offs \in 0 .. LebSize /\ head[j].start \in 0 .. LebSize
  <2>1. head[j] \in Wbufs BY <1>2 DEF BudInv, BudTypes
  <2>2. head'[j] = [head[j] EXCEPT !.start = head[j].offs] BY <1>1, <1>2
  <2> QED BY <2>1, <2>2, CommitNone DEF Wbufs
<1>3. ASSUME NEW j \in JHeads, head[j] = None PROVE head'[j] = None
  BY <1>1, <1>3
<1>4. LebSize \in Nat BY CommitSizes
<1>5. BudTypes'
  <2>1. head' \in [JHeads -> Wbufs \cup {None}]
    <3>1. DOMAIN head' = JHeads /\ \A j \in JHeads : head'[j] \in Wbufs \cup {None}
      BY <1>1, <1>2, <1>3
    <3> QED BY <1>1, <3>1
  <2>2. \A j \in JHeads : head'[j] # None => head'[j].start <= head'[j].offs
    BY <1>2, <1>3, <1>4
  <2>3. WrittenBytes \in Nat BY ByteTypes DEF BudInv
  <2>4. closed'.bytes \in Nat /\ cmtBytes' \in Nat /\ budBytes' \in Int
    BY <1>1, <2>3 DEF BudInv, BudTypes
  <2> QED BY <2>1, <2>2, <2>4 DEF BudInv, BudTypes
<1>6. WritersFit' BY DEF WritersFit, BudInv
<1>7. \A j \in JHeads : HeadBytes(j) = HeldBytes(j) + HeadBytes(j)'
  BY <1>2, <1>3, <1>4 DEF HeadBytes, HeldBytes
<1> QED BY <1>5, <1>6, <1>7, OpenCut DEF BudInv

LEMMA StartBuds ==
    ASSUME BudInv, CommitInv, Failed => Failed', NEW t \in Threads,
           CommitStart(t) \/ CommitStartFails(t)
    PROVE  BudInv'
<1>1. pc[t] = "start" BY DEF CommitStart, CommitStartFails
<1>2. ControlOK BY DEF CommitInv
<1>3. \A u \in Clients : pc[u] \notin IoPcs
  BY <1>1, CommitThreads DEF CommitInv, SemHeld, ReadPcs, WritePcs, Threads, IoPcs
<1>4. \A u \in Threads \ {t} : pc[u] # "end"
  BY <1>1 DEF CommitInv, OneCommitter, CommitPcs
<1>5. CASE CommitStart(t)
  <2>1. pc' = [pc EXCEPT ![t] = "end"] /\ UNCHANGED <<job, cmtState, roError>>
        /\ LogStartCommit
    BY <1>5 DEF CommitStart, Goto
  <2>2. \A u \in Clients : pc'[u] \notin IoPcs /\ (pc'[u] \in WriterPcs => pc[u] \in WriterPcs)
    BY <1>2, <1>3, <2>1 DEF ControlOK, IoPcs, Threads, WriterPcs
  <2>3. BudTypes' /\ WritersFit' /\ OpenBytes = WrittenBytes + OpenBytes'
    BY <1>3, <2>1, <2>2, StartTypes
  <2>4. BudBytesExact'
    <3>1. CASE Failed' BY <3>1 DEF BudBytesExact
    <3>2. CASE ~Failed'
      <4>1. ~(\E u \in Threads : pc[u] = "end") BY <1>1, <1>4
      <4>2. (\E u \in Threads : pc[u] = "end")' BY <1>2, <2>1 DEF ControlOK
      <4>3. budBytes = closed.bytes + OpenBytes 
        BY <3>2, <4>1, ByteTypes DEF BudInv, BudBytesExact, BudTypes
      <4>4. closed'.bytes = 0 /\ cmtBytes' = closed.bytes + WrittenBytes /\ budBytes' = budBytes
        BY <2>1 DEF LogStartCommit
      <4>5. OpenBytes \in Nat /\ WrittenBytes \in Nat /\ closed.bytes \in Nat
        BY ByteTypes DEF BudInv, BudTypes
      <4> DEFINE o1 == OpenBytes'
                 c1 == closed'.bytes
                 m1 == cmtBytes'
                 b1 == budBytes'
      <4>6. OpenBytes = WrittenBytes + o1 /\ c1 = 0 /\ m1 = closed.bytes + WrittenBytes
            /\ b1 = budBytes
        BY <2>3, <4>4
      <4>7. o1 \in Nat
        <5>1. OpenNatural' BY <2>3, OpenAlways, PTL
        <5> QED BY <5>1 DEF OpenNatural
      <4> HIDE DEF o1, c1, m1, b1
      <4>8. b1 = c1 + o1 + m1 BY <4>3, <4>5, <4>6, <4>7
      <4> QED BY <4>2, <4>8 DEF BudBytesExact, o1, c1, m1, b1
    <3> QED BY <3>1, <3>2
  <2> QED BY <2>3, <2>4 DEF BudInv
<1>6. CASE CommitStartFails(t)
  <2>1. pc' = [pc EXCEPT ![t] = "fail"] /\ UNCHANGED job
    BY <1>6 DEF CommitStartFails, Goto
  <2>2. Failed' BY <1>2, <2>1 DEF Failed, ControlOK
  <2>3. CASE UNCHANGED budVars
    <3>1. Turn(t, "fail") BY <2>1 DEF Turn, Goto, WriterPcs
    <3> QED BY <1>2, <2>2, <2>3, <3>1, Elsewhere DEF IoPcs
  <2>4. CASE LogStartCommit
    <3>1. \A u \in Clients : pc'[u] \notin IoPcs /\ (pc'[u] \in WriterPcs => pc[u] \in WriterPcs)
      BY <1>2, <1>3, <2>1 DEF ControlOK, IoPcs, Threads, WriterPcs
    <3>2. BudTypes' /\ WritersFit' BY <1>3, <2>1, <2>4, <3>1, StartTypes
    <3> QED BY <2>2, <3>2 DEF BudInv, BudBytesExact
  <2> QED BY <1>6, <2>3, <2>4 DEF CommitStartFails
<1> QED BY <1>5, <1>6

\* ubifs_log_end_commit(): the bytes that were taken out at the start.
LEMMA EndBuds ==
    ASSUME BudInv, CommitInv, Failed => Failed', NEW t \in Threads, CommitEnd(t)
    PROVE  BudInv'
<1>1. /\ pc[t] = "end" /\ pc' = [pc EXCEPT ![t] = "master"] /\ budBytes' = budBytes - cmtBytes
      /\ UNCHANGED <<job, head, closed, cmtBytes>>
  BY DEF CommitEnd, Goto
<1>2. ControlOK /\ \A u \in Threads \ {t} : pc[u] # "end"
  BY <1>1 DEF CommitInv, OneCommitter, CommitPcs
<1>3. BudTypes' BY <1>1 DEF BudInv, BudTypes
<1>4. WritersFit'
  <2>1. \A u \in Clients : (pc'[u] \in WriterPcs => pc[u] \in WriterPcs)
                           /\ (pc'[u] \in IoPcs => pc[u] \in IoPcs)
    BY <1>1, <1>2 DEF ControlOK, Threads, WriterPcs, IoPcs
  <2>2. \A j \in JHeads : Avail(j)' = Avail(j) BY <1>1 DEF Avail
  <2>3. \A u \in Clients : Avail(job[u].head)' = Avail(job[u].head) BY <1>1 DEF Avail
  <2> QED BY <1>1, <2>1, <2>3 DEF BudInv, WritersFit
<1>5. BudBytesExact'
  <2>1. CASE Failed' BY <2>1 DEF BudBytesExact
  <2>2. CASE ~Failed'
    <3>1. budBytes = closed.bytes + OpenBytes + cmtBytes
      BY <1>1, <2>2 DEF BudInv, BudBytesExact
    <3>2. ~(\E u \in Threads : pc[u] = "end")' BY <1>1, <1>2 DEF ControlOK
    <3>3. \A j \in JHeads : HeadBytes(j)' = HeadBytes(j) BY <1>1 DEF HeadBytes
    <3>4. OpenBytes' = OpenBytes BY <3>3, OpenSame
    <3>5. OpenBytes \in Nat /\ closed.bytes \in Nat /\ cmtBytes \in Nat /\ budBytes \in Int
      BY ByteTypes DEF BudInv, BudTypes
    <3>6. budBytes - cmtBytes = closed.bytes + OpenBytes + 0 BY <3>1, <3>5
    <3> QED BY <1>1, <3>2, <3>4, <3>6 DEF BudBytesExact
  <2> QED BY <2>1, <2>2
<1> QED BY <1>3, <1>4, <1>5 DEF BudInv

\* The other steps of do_commit() leave the buds alone, apart from old_buds.
LEMMA CommitBuds ==
    ASSUME BudInv, CommitInv, Failed => Failed', NEW t \in Threads, Commit(t)
    PROVE  BudInv'
<1>1. ControlOK BY DEF CommitInv
<1>2. CASE CommitStart(t) \/ CommitStartFails(t) BY <1>2, StartBuds
<1>3. CASE CommitEnd(t) BY <1>3, EndBuds
<1>4. CASE \/ CommitNothing(t) \/ CommitMaster(t) \/ CommitPost(t) \/ CommitFails(t)
           \/ CommitFinish(t) \/ CommitBroken(t) \/ ReadOnly(t)
  <2>1. UNCHANGED <<head, closed, budBytes, cmtBytes>>
    BY <1>4 DEF CommitNothing, CommitMaster, CommitPost, CommitFails, CommitFinish, CommitBroken,
       ReadOnly, budVars
  <2>2. PICK p \in {"idle", "begin", "finish", "post", "fail", "readonly"} :
           /\ Turn(t, p)
           /\ p = "fail" \/ pc[t] \in {"start", "master", "post", "finish", "fail", "readonly"}
    <3>1. CASE CommitFinish(t) \/ ReadOnly(t)
      <4>1. Return(t) \/ Leave(t) BY <3>1 DEF CommitFinish, ReadOnly
      <4>2. PICK p \in {"idle", "begin"} : Turn(t, p) BY <4>1, ReturnTurns DEF BudInv
      <4>3. pc[t] \in {"finish", "readonly"} BY <3>1 DEF CommitFinish, ReadOnly
      <4> QED BY <4>2, <4>3
    <3>2. CASE \/ CommitNothing(t) \/ CommitMaster(t) \/ CommitPost(t) \/ CommitFails(t)
               \/ CommitBroken(t)
      <4>1. PICK p \in {"finish", "post", "fail", "readonly"} :
               Goto(t, p) /\ UNCHANGED job
               /\ (p = "fail" \/ pc[t] \in {"start", "master", "post", "fail"})
        BY <3>2 DEF CommitNothing, CommitMaster, CommitPost, CommitFails, CommitBroken
      <4>2. Turn(t, p) BY <4>1 DEF Turn, WriterPcs
      <4> QED BY <4>1, <4>2
    <3> QED BY <1>4, <3>1, <3>2
  <2>3. Failed' \/ pc[t] # "end"
    BY <1>1, <2>2 DEF Turn, Goto, Failed, ControlOK
  <2> QED BY <1>1, <2>1, <2>2, <2>3, Aside DEF IoPcs
<1> QED BY <1>2, <1>3, <1>4 DEF Commit

(***************************************************************************)
(* bud_bytes.                                                              *)
(***************************************************************************)
LEMMA BudInit == Init => BudInv
<1> SUFFICES ASSUME Init PROVE BudInv
  OBVIOUS
<1> USE DEF Init
<1>1. BudTypes BY DEF BudTypes
<1>2. WritersFit BY DEF WritersFit, WriterPcs, IoPcs, Threads
<1>3. OpenBytes = 0
  <2> DEFINE w == [j \in JHeads |-> HeadBytes(j)]
  <2>1. \A j \in JHeads : w[j] = 0 BY DEF HeadBytes
  <2> HIDE DEF w
  <2>2. SumFunctionOnSet(w, JHeads) = 0 BY <2>1, CommitThreads, SumZero
  <2> QED BY <2>2 DEF OpenBytes, w
<1>4. BudBytesExact BY <1>3 DEF BudBytesExact
<1> QED BY <1>1, <1>2, <1>4 DEF BudInv

LEMMA BudStep == BudInv /\ CommitInv /\ [Next]_vars => BudInv'
<1> SUFFICES ASSUME BudInv, CommitInv, [Next]_vars PROVE BudInv'
  OBVIOUS
<1>1. ControlOK /\ (Failed => Failed') BY FailedStays DEF CommitInv
<1>2. ASSUME NEW t \in Clients, Ask(t) PROVE BudInv' BY <1>1, <1>2, AskBuds
<1>3. ASSUME NEW t \in Clients, Client(t) PROVE BudInv'
  <2> t \in Threads BY DEF Threads
  <2>1. CASE Reserve(t)
    BY <1>1, <2>1, FitsBuds, GivesUp, OpensBud DEF Reserve
  <2>2. CASE ~Reserve(t)
    BY <1>1, <1>3, <2>2, ClientBuds, WritesNode, GivesUp, CommitBuds DEF Client
  <2> QED BY <2>1, <2>2
<1>4. CASE BgtNext
  <2> Bgt \in Threads BY DEF Threads
  <2> QED BY <1>1, <1>4, BgtBuds, ClientBuds, CommitBuds DEF BgtNext
<1>5. CASE Timer \/ UNCHANGED vars
  <2>1. UNCHANGED <<budVars, pc, job>> BY <1>5 DEF Timer, vars
  <2> QED BY <1>1, <2>1, ElsewhereNot
<1> QED BY <1>2, <1>3, <1>4, <1>5 DEF Next

\* What a client reserved fits into the bud of its journal head until it has
\* written it, and bud_bytes is what the buds take.
THEOREM BudsConsistent == Spec => []BudInv
BY BudInit, BudStep, Consistent, PTL DEF Spec

\* dbg_check_bud_bytes() never fails unless the flash did: the bytes that
\* ubifs_log_end_commit() subtracts are those remove_buds() took out, whatever
\* writers did in between.
THEOREM BudBytesRight == Spec => []BudBytesExact
<1>1. BudInv => BudBytesExact BY DEF BudInv
<1> QED BY <1>1, BudsConsistent, PTL
=============================================================================
