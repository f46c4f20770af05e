---------------------------- MODULE UbiWlProofs ----------------------------
(***************************************************************************)
(* Proofs about UbiWl: its inductive invariant, the safety properties that *)
(* follow from it, the refinement of PebPool, and that at most one         *)
(* wear-leveling work is scheduled.                                        *)
(***************************************************************************)
EXTENDS UbiWl, FiniteSetTheorems, TLAPS

----------------------------------------------------------------------------
(* How the structures of wl.c change: the protection queue, the works and  *)
(* the jobs of the workers.                                                *)

PqType(q) == q \in [Slots -> SUBSET PEBs]

\* Adding an entry to one slot of the protection queue adds it to the queue.
LEMMA PqAdd ==
    ASSUME NEW q, PqType(q), NEW i \in Slots, NEW p \in PEBs
    PROVE  LET r == [q EXCEPT ![i] = @ \cup {p}] IN
           /\ PqType(r)
           /\ PqOf(r) = PqOf(q) \cup {p}
           /\ PqUnique(q) /\ p \notin PqOf(q) => PqUnique(r)
BY DEF PqType, PqOf, PqUnique

\* Unlinking an entry removes it from the queue.
LEMMA PqDel ==
    ASSUME NEW q, PqType(q), NEW p
    PROVE  LET r == [i \in Slots |-> q[i] \ {p}] IN
           /\ PqType(r)
           /\ PqOf(r) = PqOf(q) \ {p}
           /\ PqUnique(q) => PqUnique(r)
BY DEF PqType, PqOf, PqUnique

\* Emptying a slot removes exactly its entries.
LEMMA PqEmpty ==
    ASSUME NEW q, PqType(q), NEW i \in Slots, PqUnique(q)
    PROVE  LET r == [q EXCEPT ![i] = {}] IN
           /\ PqType(r)
           /\ PqOf(r) = PqOf(q) \ q[i]
           /\ q[i] \subseteq PqOf(q)
           /\ q[i] \subseteq PEBs
           /\ PqUnique(r)
BY DEF PqType, PqOf, PqUnique

\* The tail of the protection queue is one of its slots.
LEMMA PqTailSlot == ASSUME pqHead \in Slots PROVE PqTail \in Slots
BY PqLenAssumption DEF Slots, PqTail

\* An erase work adds its entry to the queued ones.
LEMMA QueueErase ==
    ASSUME NEW ws \in Seq(WorkType), NEW p \in PEBs, NEW t \in BOOLEAN
    PROVE  LET r == Append(ws, EraseWork(p, t)) IN
           /\ r \in Seq(WorkType)
           /\ QueuedOf(r) = QueuedOf(ws) \cup {p}
           /\ WorksUnique(ws) /\ p \notin QueuedOf(ws) => WorksUnique(r)
<1> DEFINE r == Append(ws, EraseWork(p, t))
<1>1. /\ EraseWork(p, t) \in WorkType
      /\ EraseWork(p, t).func = "erase" /\ EraseWork(p, t).e = p
  BY DEF EraseWork, WorkType
<1> HIDE DEF r
<1>2. /\ r \in Seq(WorkType) /\ DOMAIN r = DOMAIN ws \cup {Len(ws) + 1}
      /\ \A i \in DOMAIN ws : r[i] = ws[i]
      /\ r[Len(ws) + 1] = EraseWork(p, t) /\ Len(ws) + 1 \notin DOMAIN ws
  BY <1>1 DEF r
<1>3. QueuedOf(r) = QueuedOf(ws) \cup {p}
  BY <1>1, <1>2 DEF QueuedOf
<1>4. ASSUME WorksUnique(ws), p \notin QueuedOf(ws) PROVE WorksUnique(r)
  BY <1>1, <1>2, <1>4 DEF QueuedOf, WorksUnique
<1> QED BY <1>2, <1>3, <1>4 DEF r

\* A wear-leveling work adds none.
LEMMA QueueWl ==
    ASSUME NEW ws \in Seq(WorkType)
    PROVE  LET r == Append(ws, WlWork) IN
           /\ r \in Seq(WorkType)
           /\ QueuedOf(r) = QueuedOf(ws)
           /\ WorksUnique(ws) => WorksUnique(r)
<1> DEFINE r == Append(ws, WlWork)
<1>1. WlWork \in WorkType /\ WlWork.func = "wl"
  BY DEF WlWork, WorkType
<1> HIDE DEF r
<1>2. /\ r \in Seq(WorkType) /\ DOMAIN r = DOMAIN ws \cup {Len(ws) + 1}
      /\ \A i \in DOMAIN ws : r[i] = ws[i]
      /\ r[Len(ws) + 1] = WlWork /\ Len(ws) + 1 \notin DOMAIN ws
  BY <1>1 DEF r
<1>3. QueuedOf(r) = QueuedOf(ws)
  BY <1>1, <1>2 DEF QueuedOf
<1>4. ASSUME WorksUnique(ws) PROVE WorksUnique(r)
  BY <1>1, <1>2, <1>4 DEF WorksUnique
<1> QED BY <1>2, <1>3, <1>4 DEF r

\* Taking the oldest work takes its entry, and no other, out of the queue.
LEMMA QueuePop ==
    ASSUME NEW ws \in Seq(WorkType), ws # <<>>, WorksUnique(ws)
    PROVE  /\ Head(ws) \in WorkType
           /\ Tail(ws) \in Seq(WorkType)
           /\ WorksUnique(Tail(ws))
           /\ Head(ws).func = "erase" =>
                /\ Head(ws).e \in QueuedOf(ws)
                /\ QueuedOf(Tail(ws)) = QueuedOf(ws) \ {Head(ws).e}
           /\ Head(ws).func # "erase" => QueuedOf(Tail(ws)) = QueuedOf(ws)
<1> DEFINE r == Tail(ws)
<1>1. /\ Head(ws) = ws[1] /\ 1 \in DOMAIN ws /\ Head(ws) \in WorkType
      /\ r \in Seq(WorkType) /\ Len(r) = Len(ws) - 1 /\ Len(ws) \in Nat /\ Len(r) \in Nat
      /\ DOMAIN ws = 1 .. Len(ws) /\ DOMAIN r = 1 .. Len(r)
      /\ \A i \in DOMAIN r : r[i] = ws[i + 1]
  OBVIOUS
<1> HIDE DEF r
<1>2. \A i \in DOMAIN r : i + 1 \in DOMAIN ws /\ i + 1 # 1 /\ r[i] = ws[i + 1]
  BY <1>1
<1>3. \A j \in DOMAIN ws : j = 1 \/ (j - 1 \in DOMAIN r /\ r[j - 1] = ws[j])
  BY <1>1
<1>4. WorksUnique(r)
  <2> SUFFICES ASSUME NEW i \in DOMAIN r, NEW j \in DOMAIN r, r[i].func = "erase",
                      r[j].func = "erase", r[i].e = r[j].e
               PROVE  i = j
    BY DEF WorksUnique
  <2>1. i + 1 = j + 1
    BY <1>2, WorksUnique(ws) DEF WorksUnique
  <2> QED BY <2>1, <1>1
<1>5. QueuedOf(r) \subseteq QueuedOf(ws)
  BY <1>2 DEF QueuedOf
<1>6. QueuedOf(ws) \subseteq QueuedOf(r) \cup (IF Head(ws).func = "erase" THEN {Head(ws).e} ELSE {})
  BY <1>1, <1>3 DEF QueuedOf
<1>7. ASSUME Head(ws).func = "erase" PROVE Head(ws).e \in QueuedOf(ws) /\ Head(ws).e \notin QueuedOf(r)
  <2>1. Head(ws).e \in QueuedOf(ws)
    BY <1>1, <1>7 DEF QueuedOf
  <2>2. ASSUME Head(ws).e \in QueuedOf(r) PROVE FALSE
    <3>1. PICK i \in DOMAIN r : r[i].func = "erase" /\ r[i].e = Head(ws).e
      BY <2>2 DEF QueuedOf
    <3> QED BY <3>1, <1>1, <1>2, <1>7, WorksUnique(ws) DEF WorksUnique
  <2> QED BY <2>1, <2>2
<1> QED BY <1>1, <1>4, <1>5, <1>6, <1>7 DEF r

\* Giving a worker something else to do than an erasure.
LEMMA JobOther ==
    ASSUME NEW jb \in [Workers -> JobType], NEW w \in Workers, NEW j \in JobType,
           j.kind # "erase", EraseUnique(jb)
    PROVE  LET r == [jb EXCEPT ![w] = j] IN
           /\ r \in [Workers -> JobType]
           /\ jb[w].kind # "erase" => EraseOf(r) = EraseOf(jb)
           /\ jb[w].kind = "erase" => EraseOf(r) = EraseOf(jb) \ {jb[w].e} /\ jb[w].e \in EraseOf(jb)
           /\ EraseUnique(r)
BY DEF EraseOf, EraseUnique

\* Giving a worker an erasure.
LEMMA JobErase ==
    ASSUME NEW jb \in [Workers -> JobType], NEW w \in Workers, NEW j \in JobType,
           j.kind = "erase", EraseUnique(jb), jb[w].kind # "erase"
    PROVE  LET r == [jb EXCEPT ![w] = j] IN
           /\ r \in [Workers -> JobType]
           /\ EraseOf(r) = EraseOf(jb) \cup {j.e}
           /\ j.e \notin EraseOf(jb) => EraseUnique(r)
BY DEF EraseOf, EraseUnique

----------------------------------------------------------------------------
(* The invariant is inductive.                                             *)

\* How a step may change the status PebPool gives to the PEBs.
PoolSame == Owned' = Owned /\ free' = free /\ bad' = bad
PoolGet(p) ==
    /\ p \in free /\ p \notin Owned \cup bad
    /\ Owned' = Owned \cup {p} /\ free' = free \ {p} /\ bad' = bad
PoolPut(p) ==
    /\ p \in Owned /\ p \notin free \cup bad
    /\ Owned' = Owned \ {p} /\ free' = free /\ bad' = bad
PoolReserve(p) ==
    /\ p \in free /\ p \notin Owned \cup bad
    /\ Owned' = Owned /\ free' = free \ {p} /\ bad' = bad
PoolMove(p, q) ==
    /\ p \in Owned /\ q \notin Owned /\ p # q /\ p \notin free \cup bad /\ q \notin free \cup bad
    /\ Owned' = (Owned \ {p}) \cup {q} /\ free' = free /\ bad' = bad
PoolClean(p) ==
    /\ p \notin Owned \cup free \cup bad
    /\ Owned' = Owned /\ free' = free \cup {p} /\ bad' = bad
PoolRetire(p) ==
    /\ p \notin Owned \cup free \cup bad
    /\ Owned' = Owned /\ free' = free /\ bad' = bad \cup {p}

\* The places an entry can be in; a step that leaves them alone keeps Apart,
\* Unique and NoneLost.
places == <<trees, pq, works, moveFrom, moveTo, bad, freed>>

LEMMA SamePlaces ==
    ASSUME WlInv, UNCHANGED places, EraseOf(job') = EraseOf(job), EraseUnique(job')
    PROVE  Apart' /\ Unique' /\ NoneLost'
BY DEF WlInv, OnePlace, places, trees, Apart, Unique, NoneLost, InPq, Queued, InErase, Moving

\* The works ubi_wl_init_scan() queues for the PEBs the scan wants erased.
LEMMA ScanList ==
    ASSUME NEW u \in SUBSET PEBs, NEW er \in ListsOf(PEBs \ u)
    PROVE  LET ws == Erasures(er) IN
           /\ ws \in Seq(WorkType) /\ WorksUnique(ws)
           /\ QueuedOf(ws) = {er[i] : i \in DOMAIN er}
           /\ \A i \in DOMAIN er : er[i] \in PEBs \ u
           /\ \A i \in DOMAIN ws : ws[i].func = "erase"
<1> DEFINE ws == Erasures(er)
<1>1. PICK n \in 0 .. Cardinality(PEBs \ u) : er \in [1 .. n -> PEBs \ u]
  BY DEF ListsOf
<1>2. \A i, j \in DOMAIN er : er[i] = er[j] => i = j
  BY DEF ListsOf
<1>3. n \in Nat
  BY <1>1
<1>4. /\ DOMAIN er = 1 .. n /\ DOMAIN ws = DOMAIN er
      /\ \A i \in DOMAIN er : /\ er[i] \in PEBs \ u
                              /\ ws[i].func = "erase" /\ ws[i].e = er[i] /\ ws[i] \in WorkType
  BY <1>1 DEF Erasures, EraseWork, WorkType
<1>5. ws \in [1 .. n -> WorkType]
  BY <1>1, <1>4 DEF Erasures
<1> HIDE DEF ws
<1>6. ws \in Seq(WorkType)
  BY <1>3, <1>5
<1>7. WorksUnique(ws)
  BY <1>2, <1>4 DEF WorksUnique
<1>8. QueuedOf(ws) = {er[i] : i \in DOMAIN er}
  BY <1>4 DEF QueuedOf
<1> QED BY <1>4, <1>6, <1>7, <1>8 DEF ws

\* The invariant holds initially.
LEMMA InitInv == Init => WlInv
<1> SUFFICES ASSUME Init PROVE WlInv
  OBVIOUS
<1> USE NoneAssumption, BgtAssumption, PqLenAssumption, BoundsAssumption
<1>1. 0 \in Slots
  BY DEF Slots
<1> PICK u \in SUBSET PEBs : \E s \in SUBSET u, er \in ListsOf(PEBs \ u), wl \in BOOLEAN :
        InitScan(u, s, er, wl)
  BY DEF Init
<1> PICK s \in SUBSET u, er \in ListsOf(PEBs \ u), wl \in BOOLEAN : InitScan(u, s, er, wl)
  OBVIOUS
<1>2. /\ works \in Seq(WorkType) /\ WorksUnique(works)
      /\ Queued \cap u = {} /\ Queued \cap free = {} /\ PEBs \subseteq u \cup free \cup Queued
  <2> DEFINE ws == Erasures(er)
  <2>1. /\ ws \in Seq(WorkType) /\ WorksUnique(ws)
        /\ QueuedOf(ws) = {er[i] : i \in DOMAIN er} /\ \A i \in DOMAIN er : er[i] \in PEBs \ u
    BY ScanList
  <2>2. QueuedOf(ws) \cap u = {} /\ QueuedOf(ws) \cap free = {} /\ PEBs \subseteq u \cup free \cup QueuedOf(ws)
    BY <2>1 DEF InitScan
  <2>3. works = IF wl THEN Append(ws, WlWork) ELSE ws
    BY DEF InitScan
  <2> HIDE DEF ws
  <2>4. Append(ws, WlWork) \in Seq(WorkType) /\ WorksUnique(Append(ws, WlWork))
        /\ QueuedOf(Append(ws, WlWork)) = QueuedOf(ws)
    BY <2>1, QueueWl
  <2> QED BY <2>1, <2>2, <2>3, <2>4 DEF Queued
<1>3. InPq = {} /\ pq \in [Slots -> SUBSET PEBs] /\ PqUnique(pq)
  BY DEF InitScan, InPq, PqOf, PqUnique
<1>4. job \in [Workers -> JobType] /\ InErase = {} /\ EraseUnique(job)
  BY DEF InitScan, InErase, EraseOf, EraseUnique, NoJob, JobType, JobKinds
<1>5. TypeOK
  <2>1. free \subseteq PEBs /\ used \subseteq PEBs /\ scrub \subseteq PEBs /\ mapped \subseteq PEBs
    BY DEF InitScan
  <2> QED BY <1>1, <1>2, <1>3, <1>4, <2>1 DEF InitScan, TypeOK, PcType
<1>6. Moving = {} /\ Owners = {}
  BY DEF InitScan, Moving, Owners
<1>7. Apart /\ Unique /\ NoneLost
  BY <1>2, <1>3, <1>4, <1>6 DEF InitScan, Apart, Unique, NoneLost
<1>8. OwnInv
  BY <1>2, <1>3, <1>4, <1>6 DEF InitScan, OwnInv, Owned
<1>9. MoveInv /\ JobInv
  BY <1>6 DEF InitScan, MoveInv, JobInv, NoJob, Workers
<1> QED BY <1>5, <1>7, <1>8, <1>9 DEF WlInv, OnePlace

\* The control state of the clients keeps its type.
ClientTypeOK ==
    /\ pc \in [Clients -> PcType]
    /\ arg \in [Clients -> PEBs \cup {None}]
    /\ tort \in [Clients -> BOOLEAN]

LEMMA ClientTypes ==
    ASSUME ClientTypeOK, NEW c \in Clients
    PROVE  /\ \A where \in PcType : Goto(c, where) => ClientTypeOK'
           /\ \A where \in PcType, p \in PEBs, t \in BOOLEAN : Call(c, where, p, t) => ClientTypeOK'
           /\ Return(c) => ClientTypeOK'
           /\ UNCHANGED client => ClientTypeOK'
<1>1. ASSUME NEW where \in PcType, Goto(c, where) PROVE ClientTypeOK'
  BY <1>1 DEF ClientTypeOK, Goto
<1>2. ASSUME NEW where \in PcType, NEW p \in PEBs, NEW t \in BOOLEAN, Call(c, where, p, t)
      PROVE  ClientTypeOK'
  BY <1>2 DEF ClientTypeOK, Call
<1>3. ASSUME Return(c) PROVE ClientTypeOK'
  <2>1. "idle" \in PcType
    BY DEF PcType
  <2> QED BY <1>3, <2>1 DEF ClientTypeOK, Return
<1>4. ASSUME UNCHANGED client PROVE ClientTypeOK'
  BY <1>4 DEF ClientTypeOK, client
<1> QED BY <1>1, <1>2, <1>3, <1>4

\* Steps of a client that only change where it is: no place changes and
\* neither does what it owns.
LEMMA ClientMoves ==
    ASSUME WlInv, NEW c \in Clients,
           \/ GetBegin(c) \/ GetNoSpace(c) \/ GetProduce(c) \/ GetSpin(c) \/ GetErase(c)
           \/ EbaBitflip(c) \/ PutWaitMove(c) \/ ScrubNothing(c) \/ ScrubRetry(c)
           \/ FlushBegin(c) \/ FlushStep(c)
    PROVE  WlInv' /\ PoolSame
<1> USE NoneAssumption
<1>1. UNCHANGED <<trees, queue, works, move, wlScheduled, flags, job, mapped, bad, freed>>
  BY DEF GetBegin, GetNoSpace, GetProduce, GetSpin, GetErase, EbaBitflip, PutWaitMove,
         ScrubNothing, ScrubRetry, FlushBegin, FlushStep, vars
<1>2. TypeOK'
  <2>1. ClientTypeOK'
    BY ClientTypes DEF WlInv, TypeOK, ClientTypeOK, PcType, GetBegin, GetNoSpace, GetProduce, GetSpin,
       GetErase, EbaBitflip, PutWaitMove, ScrubNothing, ScrubRetry, FlushBegin, FlushStep, vars, client
  <2> QED BY <1>1, <2>1 DEF WlInv, TypeOK, ClientTypeOK, trees, queue, move, flags
<1>3. Apart' /\ Unique' /\ NoneLost'
  BY <1>1, SamePlaces DEF WlInv, OnePlace, Unique, places, trees, queue, move
<1>4. /\ Owners' = Owners /\ \A d \in Owners : arg'[d] = arg[d]
      /\ \A d \in Clients : pc'[d] \in {"scrub", "ensure"} => arg'[d] \in mapped
      /\ \A d \in Clients : job[d].kind # "none" => pc'[d] \in {"produce", "flush", "reflush"}
  BY DEF WlInv, TypeOK, OwnInv, JobInv, Owners, GetBegin, GetNoSpace, GetProduce, GetSpin, GetErase,
         EbaBitflip, PutWaitMove, ScrubNothing, ScrubRetry, FlushBegin, FlushStep, Goto, Call, Return,
         NoJob, vars, client
<1>5. Owned' = Owned
  BY <1>1, <1>4 DEF Owned
<1>6. OwnInv'
  BY <1>1, <1>4, <1>5 DEF WlInv, OwnInv, InPq, Queued, InErase, Moving, trees, queue, move
<1>7. MoveInv' /\ JobInv'
  BY <1>1, <1>4, <1>5 DEF WlInv, MoveInv, JobInv, move
<1> QED BY <1>1, <1>2, <1>3, <1>5, <1>6, <1>7 DEF WlInv, OnePlace, PoolSame, trees

\* ensure_wear_leveling() adds at most a wear-leveling work.
LEMMA Ensure ==
    ASSUME WlInv, EnsureWearLeveling \/ EnsureNoMem
    PROVE  /\ works' \in Seq(WorkType) /\ wlScheduled' \in BOOLEAN
           /\ QueuedOf(works') = QueuedOf(works) /\ WorksUnique(works')
<1>1. CASE UNCHANGED <<works, wlScheduled>>
  BY <1>1 DEF WlInv, OnePlace, TypeOK, Unique
<1>2. CASE wlScheduled' = TRUE /\ works' = Append(works, WlWork)
  BY <1>2, QueueWl DEF WlInv, OnePlace, TypeOK, Unique
<1> QED BY <1>1, <1>2 DEF EnsureWearLeveling, EnsureNoMem

\* A worker that is done: a client among them holds no PEB and no LEB lock.
LEMMA Done ==
    ASSUME WlInv, NEW w \in Workers, job[w].kind # "none", DoneOk(w) \/ DoneErr(w)
    PROVE  /\ ClientTypeOK' /\ arg' = arg /\ Owners' = Owners
           /\ \A c \in Clients : pc'[c] \in {"scrub", "ensure"} => pc[c] \in {"scrub", "ensure"}
           /\ JobInv'
           /\ job' \in [Workers -> JobType] /\ EraseUnique(job')
           /\ job'[w].kind = "none" /\ \A v \in Workers \ {w} : job'[v] = job[v]
           /\ job[w].kind # "erase" => EraseOf(job') = EraseOf(job)
           /\ job[w].kind = "erase" =>
                job[w].e \in EraseOf(job) /\ EraseOf(job') = EraseOf(job) \ {job[w].e}
<1>1. NoJob \in JobType /\ NoJob.kind = "none"
  BY DEF NoJob, JobType, JobKinds
<1>2. job' = [job EXCEPT ![w] = NoJob] /\ arg' = arg /\ tort' = tort
  BY DEF DoneOk, DoneErr, client
<1>3. job \in [Workers -> JobType] /\ EraseUnique(job) /\ ClientTypeOK
  BY DEF WlInv, OnePlace, TypeOK, Unique, ClientTypeOK
<1>4. /\ job' \in [Workers -> JobType] /\ EraseUnique(job')
      /\ job[w].kind # "erase" => EraseOf(job') = EraseOf(job)
      /\ job[w].kind = "erase" =>
           job[w].e \in EraseOf(job) /\ EraseOf(job') = EraseOf(job) \ {job[w].e}
  BY <1>1, <1>2, <1>3, JobOther
<1>5. job'[w].kind = "none" /\ \A v \in Workers \ {w} : job'[v] = job[v]
  BY <1>1, <1>2, <1>3
<1>6. \A c \in Clients : pc'[c] = pc[c] \/ (c = w /\ pc'[c] = "idle")
  BY DEF DoneOk, DoneErr, client
<1>7. pc' \in [Clients -> PcType]
  BY <1>3 DEF DoneOk, DoneErr, client, ClientTypeOK, PcType
<1>8. ClientTypeOK'
  BY <1>2, <1>3, <1>7 DEF ClientTypeOK
<1>9. w \in Clients => pc[w] \in {"produce", "flush", "reflush"}
  BY DEF WlInv, JobInv
<1>10. Owners' = Owners
  BY <1>6, <1>9 DEF Owners
<1>11. JobInv'
  BY <1>5, <1>6 DEF WlInv, JobInv, Workers
<1> QED BY <1>2, <1>4, <1>5, <1>6, <1>8, <1>10, <1>11

\* Steps of a worker that move no entry: the ends of works, and the decision
\* not to move anything.
LEMMA WorkerMoves ==
    ASSUME WlInv, NEW w \in Workers, EraseEnsure(w) \/ WlNoMem(w) \/ WlCancel(w)
    PROVE  WlInv' /\ PoolSame
<1>1. UNCHANGED <<trees, queue, move, bebRsvd, mapped, bad, freed>> /\ roMode' \in BOOLEAN
  BY DEF EraseEnsure, WlNoMem, WlCancel, TooManyFailures, flags, WlInv, TypeOK
<1>2. /\ works' \in Seq(WorkType) /\ wlScheduled' \in BOOLEAN
      /\ QueuedOf(works') = QueuedOf(works) /\ WorksUnique(works')
  <2>1. CASE EraseEnsure(w)
    BY <2>1, Ensure DEF EraseEnsure
  <2>2. CASE WlNoMem(w) \/ WlCancel(w)
    BY <2>2 DEF WlNoMem, WlCancel, WlInv, OnePlace, TypeOK, Unique
  <2> QED BY <2>1, <2>2
<1>3. job[w].kind \in {"ensure", "wl"} /\ (DoneOk(w) \/ DoneErr(w))
  BY DEF EraseEnsure, WlNoMem, WlCancel
<1>4. /\ ClientTypeOK' /\ arg' = arg /\ Owners' = Owners
      /\ \A c \in Clients : pc'[c] \in {"scrub", "ensure"} => pc[c] \in {"scrub", "ensure"}
      /\ JobInv'
      /\ job' \in [Workers -> JobType] /\ EraseUnique(job')
      /\ job'[w].kind = "none" /\ \A v \in Workers \ {w} : job'[v] = job[v]
      /\ EraseOf(job') = EraseOf(job)
  BY <1>3, Done
<1>5. TypeOK'
  BY <1>1, <1>2, <1>4 DEF WlInv, TypeOK, ClientTypeOK, trees, queue, move
<1>6. Apart' /\ Unique' /\ NoneLost'
  BY <1>1, <1>2, <1>4 DEF WlInv, OnePlace, Apart, Unique, NoneLost, InPq, Queued, InErase, Moving, trees, queue, move
<1>7. Owned' = Owned
  BY <1>1, <1>4 DEF Owned
<1>8. OwnInv'
  BY <1>1, <1>2, <1>4, <1>7 DEF WlInv, OwnInv, InPq, Queued, InErase, Moving, trees, queue, move
<1>9. MoveInv'
  BY <1>1, <1>3, <1>4, <1>7 DEF WlInv, MoveInv, move
<1> QED BY <1>1, <1>4, <1>5, <1>6, <1>7, <1>8, <1>9 DEF WlInv, OnePlace, PoolSame, trees

\* A worker goes on with another part of its work.
LEMMA GoesOn ==
    ASSUME WlInv, NEW w \in Workers, job[w].kind # "none", NEW j \in JobType,
           j.kind \notin {"none", "erase"}, job' = [job EXCEPT ![w] = j], UNCHANGED client
    PROVE  /\ ClientTypeOK' /\ arg' = arg /\ Owners' = Owners /\ pc' = pc
           /\ JobInv'
           /\ job' \in [Workers -> JobType] /\ EraseUnique(job')
           /\ job'[w] = j /\ \A v \in Workers \ {w} : job'[v] = job[v]
           /\ job[w].kind # "erase" => EraseOf(job') = EraseOf(job)
           /\ job[w].kind = "erase" =>
                job[w].e \in EraseOf(job) /\ EraseOf(job') = EraseOf(job) \ {job[w].e}
<1>1. job \in [Workers -> JobType] /\ EraseUnique(job) /\ ClientTypeOK
  BY DEF WlInv, OnePlace, TypeOK, Unique, ClientTypeOK
<1>2. /\ job' \in [Workers -> JobType] /\ EraseUnique(job')
      /\ job[w].kind # "erase" => EraseOf(job') = EraseOf(job)
      /\ job[w].kind = "erase" =>
           job[w].e \in EraseOf(job) /\ EraseOf(job') = EraseOf(job) \ {job[w].e}
  BY <1>1 DEF EraseOf, EraseUnique
<1>3. job'[w] = j /\ \A v \in Workers \ {w} : job'[v] = job[v]
  BY <1>1
<1>4. ClientTypeOK' /\ arg' = arg /\ Owners' = Owners /\ pc' = pc
  BY <1>1 DEF ClientTypeOK, Owners, client
<1>5. JobInv'
  BY <1>3, <1>4 DEF WlInv, JobInv, Workers
<1> QED BY <1>2, <1>3, <1>4, <1>5

\* An erasure that ends: the entry leaves the worker for the free tree, for
\* the queue again, or for good.
LEMMA EraseEnds ==
    ASSUME WlInv, NEW w \in Workers,
           EraseOk(w) \/ EraseTransient(w) \/ EraseMarkBad(w) \/ EraseFatal(w)
    PROVE  WlInv' /\ (PoolSame \/ \E p \in PEBs : PoolClean(p) \/ PoolRetire(p))
<1> DEFINE p == job[w].e
<1>1. /\ UNCHANGED <<used, scrub, erroneous, queue, move, wlScheduled, mapped>>
      /\ job[w].kind = "erase" /\ p \in PEBs
  BY DEF EraseOk, EraseTransient, EraseMarkBad, EraseFatal, trees, WlInv, JobInv
<1>2. Job("serve") \in JobType /\ Job("serve").kind = "serve"
  BY DEF Job, JobType, JobKinds
<1>3. /\ ClientTypeOK' /\ arg' = arg /\ Owners' = Owners
      /\ \A c \in Clients : pc'[c] \in {"scrub", "ensure"} => pc[c] \in {"scrub", "ensure"}
      /\ JobInv'
      /\ job' \in [Workers -> JobType] /\ EraseUnique(job')
      /\ job'[w].kind \in {"none", "serve"} /\ \A v \in Workers \ {w} : job'[v] = job[v]
      /\ p \in InErase /\ InErase' = InErase \ {p}
  <2>1. CASE EraseOk(w)
    BY <2>1, <1>1, <1>2, GoesOn DEF EraseOk, InErase
  <2>2. CASE EraseTransient(w) \/ EraseMarkBad(w) \/ EraseFatal(w)
    BY <2>2, <1>1, Done DEF EraseTransient, EraseMarkBad, EraseFatal, InErase
  <2> QED BY <2>1, <2>2
<1>4. p \notin Queued
  BY <1>3 DEF WlInv, OnePlace, Apart
<1>5. /\ works' \in Seq(WorkType) /\ WorksUnique(works')
      /\ roMode' \in BOOLEAN /\ bebRsvd' \in Nat
      /\ \/ free' = free \cup {p} /\ UNCHANGED <<bad, freed>> /\ Queued' = Queued
         \/ UNCHANGED <<free, bad>> /\ freed' = freed \cup {p} /\ Queued' = Queued \cup {p}
         \/ UNCHANGED free /\ bad' = bad \cup {p} /\ freed' = freed \cup {p} /\ Queued' = Queued
         \/ UNCHANGED <<free, bad>> /\ freed' = freed \cup {p} /\ Queued' = Queued
  <2>0. works \in Seq(WorkType) /\ WorksUnique(works) /\ roMode \in BOOLEAN /\ bebRsvd \in Nat
    BY DEF WlInv, OnePlace, TypeOK, Unique
  <2>1. CASE EraseOk(w)
    BY <2>0, <2>1 DEF EraseOk, flags, Queued
  <2>2. CASE EraseTransient(w)
    <3>1. works' = Append(works, EraseWork(p, FALSE))
      BY <2>2 DEF EraseTransient
    <3>2. works' \in Seq(WorkType) /\ WorksUnique(works') /\ Queued' = Queued \cup {p}
      BY <2>0, <3>1, <1>1, <1>4, QueueErase DEF Queued
    <3> QED BY <3>2, <2>2, <2>0 DEF EraseTransient, TooManyFailures, trees
  <2>3. CASE EraseMarkBad(w)
    <3>1. bebRsvd' \in Nat
      BY <2>0, <2>3 DEF EraseMarkBad
    <3> QED BY <2>0, <2>3, <3>1 DEF EraseMarkBad, trees, Queued
  <2>4. CASE EraseFatal(w)
    BY <2>0, <2>4 DEF EraseFatal, trees, Queued
  <2> QED BY <2>1, <2>2, <2>3, <2>4
<1> HIDE DEF p
<1>6. TypeOK'
  <2>1. free' \subseteq PEBs /\ bad' \subseteq PEBs /\ freed' \subseteq PEBs
    BY <1>1, <1>5 DEF WlInv, TypeOK
  <2> QED BY <1>1, <1>3, <1>5, <2>1 DEF WlInv, TypeOK, ClientTypeOK, queue, move
<1>7. Owned' = Owned /\ InPq' = InPq /\ Moving' = Moving
  BY <1>1, <1>3 DEF Owned, InPq, Moving, queue, move
<1>8. Apart'
  BY <1>1, <1>3, <1>5, <1>7 DEF WlInv, OnePlace, Apart, move
<1>9. Unique' /\ NoneLost'
  BY <1>1, <1>3, <1>5, <1>7 DEF WlInv, OnePlace, Unique, NoneLost, queue
<1>10. OwnInv'
  BY <1>1, <1>3, <1>5, <1>7 DEF WlInv, OwnInv
<1>11. MoveInv'
  BY <1>1, <1>3, <1>7 DEF WlInv, MoveInv, move
<1>12. PoolSame \/ PoolClean(p) \/ PoolRetire(p)
  <2>1. p \notin Owned \cup free \cup bad
    BY <1>3 DEF WlInv, OnePlace, Apart, OwnInv
  <2> QED BY <1>5, <1>7, <2>1 DEF PoolSame, PoolClean, PoolRetire
<1> QED BY <1>1, <1>3, <1>6, <1>8, <1>9, <1>10, <1>11, <1>12 DEF WlInv, OnePlace

\* serve_prot_queue() moves the oldest slot to the used tree.
LEMMA ServeInv ==
    ASSUME WlInv, NEW w \in Workers, ServeProtQueue(w)
    PROVE  WlInv' /\ PoolSame
<1>1. /\ UNCHANGED <<free, scrub, erroneous, works, move, wlScheduled, flags, mapped, bad, freed>>
      /\ job[w].kind = "serve" /\ used' = used \cup pq[pqHead]
      /\ pq' = [pq EXCEPT ![pqHead] = {}] /\ pqHead' \in Slots
  BY PqLenAssumption DEF ServeProtQueue, WlInv, TypeOK, Slots
<1>2. Job("ensure") \in JobType /\ Job("ensure").kind = "ensure"
  BY DEF Job, JobType, JobKinds
<1>3. /\ ClientTypeOK' /\ arg' = arg /\ Owners' = Owners /\ pc' = pc
      /\ JobInv'
      /\ job' \in [Workers -> JobType] /\ EraseUnique(job')
      /\ job'[w].kind = "ensure" /\ \A v \in Workers \ {w} : job'[v] = job[v]
      /\ InErase' = InErase
  BY <1>1, <1>2, GoesOn DEF ServeProtQueue, InErase
<1>4. /\ PqType(pq') /\ PqUnique(pq') /\ InPq' = InPq \ pq[pqHead]
      /\ pq[pqHead] \subseteq InPq /\ pq[pqHead] \subseteq PEBs
  BY <1>1, PqEmpty DEF WlInv, OnePlace, TypeOK, Unique, PqType, InPq
<1>5. TypeOK'
  <2>1. used' \subseteq PEBs /\ pq' \in [Slots -> SUBSET PEBs]
    BY <1>1, <1>4 DEF WlInv, TypeOK, PqType
  <2> QED BY <1>1, <1>3, <2>1 DEF WlInv, TypeOK, ClientTypeOK, move, flags
<1>6. Owned' = Owned /\ Queued' = Queued /\ Moving' = Moving
  BY <1>1, <1>3 DEF Owned, Queued, Moving, move
<1>7. Apart'
  BY <1>1, <1>3, <1>4, <1>6 DEF WlInv, OnePlace, Apart, move
<1>8. Unique' /\ NoneLost'
  BY <1>1, <1>3, <1>4, <1>6 DEF WlInv, OnePlace, Unique, NoneLost
<1>9. OwnInv'
  BY <1>1, <1>3, <1>4, <1>6 DEF WlInv, OwnInv
<1>10. MoveInv'
  BY <1>1, <1>3, <1>6 DEF WlInv, MoveInv, move
<1> QED BY <1>1, <1>3, <1>5, <1>6, <1>7, <1>8, <1>9, <1>10 DEF WlInv, OnePlace, PoolSame

\* do_work() takes the oldest work from the queue.
LEMMA StartInv ==
    ASSUME WlInv, NEW w \in Workers, StartWork(w)
    PROVE  WlInv' /\ PoolSame
<1> DEFINE wrk == Head(works)
           j == [kind |-> wrk.func, e |-> wrk.e, flag |-> wrk.torture]
<1>1. /\ UNCHANGED <<trees, queue, move, wlScheduled, flags, client, mapped, bad, freed>>
      /\ works # <<>> /\ works' = Tail(works) /\ job' = [job EXCEPT ![w] = j]
      /\ job[w] = NoJob
  BY DEF StartWork, MayWork
<1>2. w \in Clients => pc[w] \in {"produce", "flush", "reflush"}
  BY BgtAssumption DEF StartWork, MayWork
<1>3. works \in Seq(WorkType) /\ WorksUnique(works) /\ job \in [Workers -> JobType] /\ EraseUnique(job)
  BY DEF WlInv, OnePlace, TypeOK, Unique
<1>4. /\ wrk \in WorkType /\ works' \in Seq(WorkType) /\ WorksUnique(works')
      /\ wrk.func = "erase" => wrk.e \in Queued /\ Queued' = Queued \ {wrk.e}
      /\ wrk.func # "erase" => Queued' = Queued
  BY <1>1, <1>3, QueuePop DEF Queued
<1> HIDE DEF wrk
<1>5. j \in JobType /\ j.kind \in {"erase", "wl"} /\ j.kind = wrk.func /\ j.e = wrk.e
      /\ (j.kind = "erase" => j.e \in PEBs)
  <2>1. CASE wrk = WlWork
    BY <2>1 DEF WlWork, JobType, JobKinds
  <2>2. CASE wrk \in [func : {"erase"}, e : PEBs, torture : BOOLEAN]
    BY <2>2 DEF JobType, JobKinds
  <2> QED BY <1>4, <2>1, <2>2 DEF WorkType
<1>6. job[w].kind = "none"
  BY <1>1 DEF NoJob
<1> HIDE DEF j
<1>7. /\ job' \in [Workers -> JobType] /\ EraseUnique(job')
      /\ j.kind = "erase" => InErase' = InErase \cup {j.e}
      /\ j.kind # "erase" => InErase' = InErase
  <2>1. CASE j.kind = "erase"
    <3>1. j.e \notin EraseOf(job)
      BY <2>1, <1>4, <1>5 DEF WlInv, OnePlace, Apart, InErase
    <3> QED BY <2>1, <3>1, <1>1, <1>3, <1>5, <1>6, JobErase DEF InErase
  <2>2. CASE j.kind # "erase"
    BY <2>2, <1>1, <1>3, <1>5, <1>6, JobOther DEF InErase
  <2> QED BY <2>1, <2>2
<1>8. job'[w] = j /\ \A v \in Workers \ {w} : job'[v] = job[v]
  BY <1>1, <1>3
<1>9. TypeOK'
  BY <1>1, <1>4, <1>7 DEF WlInv, TypeOK, trees, queue, move, flags, client
<1>10. Owned' = Owned /\ Moving' = Moving /\ InPq' = InPq /\ Owners' = Owners
  BY <1>1 DEF Owned, Owners, Moving, InPq, move, client, queue
<1>11. Apart'
  BY <1>1, <1>4, <1>5, <1>7, <1>10 DEF WlInv, OnePlace, Apart, move, trees
<1>12. Unique' /\ NoneLost'
  BY <1>1, <1>4, <1>5, <1>7, <1>10 DEF WlInv, OnePlace, Unique, NoneLost, trees, queue
<1>13. OwnInv'
  BY <1>1, <1>4, <1>5, <1>7, <1>10 DEF WlInv, OwnInv, trees, client
<1>14. MoveInv'
  BY <1>1, <1>5, <1>6, <1>8, <1>10 DEF WlInv, MoveInv, move
<1>15. JobInv'
  BY <1>1, <1>2, <1>5, <1>8 DEF WlInv, JobInv, client, Workers
<1> QED BY <1>1, <1>9, <1>10, <1>11, <1>12, <1>13, <1>14, <1>15 DEF WlInv, OnePlace, PoolSame, trees

\* The critical section of wear_leveling_worker() that selects the source and
\* the target of a move.
LEMMA SelectInv ==
    ASSUME WlInv, NEW w \in Workers, WlSelect(w)
    PROVE  WlInv' /\ \E p \in PEBs : PoolReserve(p)
<1>1. /\ UNCHANGED <<erroneous, queue, works, moveToPut, wlScheduled, flags, client, mapped, bad, freed>>
      /\ job[w].kind = "wl" /\ moveMutex = None /\ moveMutex' = w
      /\ job' = [job EXCEPT ![w] = [kind |-> "copy", e |-> None, flag |-> scrub # {}]]
  BY DEF WlSelect
<1>2. PICK e1 \in (IF scrub = {} THEN used ELSE scrub), e2 \in free :
        /\ used' = IF scrub = {} THEN used \ {e1} ELSE used
        /\ scrub' = scrub \ {e1}
        /\ free' = free \ {e2}
        /\ moveFrom' = e1 /\ moveTo' = e2
  BY DEF WlSelect
<1>3. /\ e1 \in used \cup scrub /\ e1 \in PEBs /\ e2 \in PEBs
      /\ used' \cup scrub' = (used \cup scrub) \ {e1}
      /\ used' \subseteq used /\ scrub' \subseteq scrub
  BY <1>2 DEF WlInv, OnePlace, TypeOK, Apart
<1>4. moveFrom = None /\ moveTo = None /\ ~moveToPut /\ Moving = {} /\ Moving' = {e1, e2} /\ e1 # e2
  <2>1. moveFrom = None /\ moveTo = None /\ ~moveToPut
    BY <1>1 DEF WlInv, MoveInv
  <2>2. e1 # e2
    BY <1>2, <1>3 DEF WlInv, OnePlace, Apart
  <2> QED BY <1>2, <1>3, <2>1, <2>2, NoneAssumption DEF Moving
<1> DEFINE j == [kind |-> "copy", e |-> None, flag |-> scrub # {}]
<1>5. j \in JobType /\ j.kind = "copy"
  BY DEF JobType, JobKinds
<1> HIDE DEF j
<1>6. /\ ClientTypeOK' /\ arg' = arg /\ Owners' = Owners /\ pc' = pc
      /\ JobInv'
      /\ job' \in [Workers -> JobType] /\ EraseUnique(job')
      /\ job'[w].kind = "copy" /\ \A v \in Workers \ {w} : job'[v] = job[v]
      /\ InErase' = InErase
  <2>1. job' = [job EXCEPT ![w] = j]
    BY <1>1 DEF j
  <2> QED BY <1>1, <2>1, <1>5, GoesOn DEF InErase
<1>7. TypeOK'
  <2>1. free' \subseteq PEBs /\ used' \subseteq PEBs /\ scrub' \subseteq PEBs
    BY <1>2, <1>3 DEF WlInv, TypeOK
  <2> QED BY <1>1, <1>2, <1>3, <1>6, <2>1 DEF WlInv, TypeOK, ClientTypeOK, queue, flags
<1>8. Owned' = Owned /\ Queued' = Queued /\ InPq' = InPq
  BY <1>1, <1>6 DEF Owned, Queued, InPq, queue
<1>9. Apart'
  BY <1>1, <1>2, <1>3, <1>4, <1>6, <1>8 DEF WlInv, OnePlace, Apart
<1>10. Unique' /\ NoneLost'
  BY <1>1, <1>2, <1>3, <1>4, <1>6, <1>8 DEF WlInv, OnePlace, Unique, NoneLost, queue
<1>11. OwnInv'
  BY <1>1, <1>2, <1>3, <1>4, <1>6, <1>8 DEF WlInv, OwnInv
<1>12. MoveInv'
  <2>1. \A v \in Workers : job[v].kind \notin {"copy", "moved"}
    BY <1>1, NoneAssumption DEF WlInv, MoveInv, Workers
  <2>2. e2 \notin Owned
    BY <1>2 DEF WlInv, OwnInv
  <2>3. w # None
    BY NoneAssumption DEF Workers
  <2> QED BY <1>1, <1>2, <1>3, <1>4, <1>6, <1>8, <2>1, <2>2, <2>3 DEF MoveInv
<1>13. \E q \in PEBs : PoolReserve(q)
  <2>1. e2 \notin Owned \cup bad
    BY <1>2 DEF WlInv, OnePlace, Apart, OwnInv
  <2>2. PoolReserve(e2)
    BY <1>1, <1>2, <1>8, <2>1 DEF PoolReserve
  <2> QED BY <1>3, <2>2
<1> QED BY <1>6, <1>7, <1>9, <1>10, <1>11, <1>12, <1>13 DEF WlInv, OnePlace

\* What is known of the move while a worker executes it.
LEMMA MoveFacts ==
    ASSUME WlInv, NEW w \in Workers, job[w].kind \in {"copy", "moved"}
    PROVE  /\ moveMutex = w /\ moveFrom \in PEBs /\ moveTo \in PEBs
           /\ Moving = {moveFrom, moveTo} /\ moveFrom # moveTo
           /\ \A v \in Workers : job[v].kind \in {"copy", "moved"} => v = w
           /\ job[w].kind = "copy" => moveTo \notin Owned /\ ~moveToPut
           /\ job[w].kind = "moved" => moveFrom \notin Owned
<1>1. moveMutex = w /\ moveMutex # None
  BY NoneAssumption DEF WlInv, MoveInv, Workers
<1>2. moveFrom \in PEBs /\ moveTo \in PEBs
  BY <1>1 DEF WlInv, MoveInv
<1>3. Moving = {moveFrom, moveTo} /\ moveFrom # moveTo
  BY <1>2, NoneAssumption DEF WlInv, OnePlace, Apart, Moving
<1> QED BY <1>1, <1>2, <1>3 DEF WlInv, MoveInv

\* ubi_eba_copy_leb() re-maps the LEB while nobody operates on it.
LEMMA CopyInv ==
    ASSUME WlInv, NEW w \in Workers, CopyOk(w)
    PROVE  WlInv' /\ PoolMove(moveFrom, moveTo) /\ moveFrom \in PEBs /\ moveTo \in PEBs
<1>1. /\ UNCHANGED <<trees, queue, works, move, wlScheduled, flags, client, bad, freed>>
      /\ job[w].kind = "copy" /\ moveFrom \in mapped /\ ~Busy(moveFrom)
      /\ mapped' = (mapped \ {moveFrom}) \cup {moveTo}
      /\ job' = [job EXCEPT ![w] = Job("moved")]
  BY DEF CopyOk
<1>2. Job("moved") \in JobType /\ Job("moved").kind = "moved"
  BY DEF Job, JobType, JobKinds
<1>3. /\ ClientTypeOK' /\ arg' = arg /\ Owners' = Owners /\ pc' = pc
      /\ JobInv'
      /\ job' \in [Workers -> JobType] /\ EraseUnique(job')
      /\ job'[w].kind = "moved" /\ \A v \in Workers \ {w} : job'[v] = job[v]
      /\ InErase' = InErase
  BY <1>1, <1>2, GoesOn DEF InErase
<1>4. /\ moveMutex = w /\ moveFrom \in PEBs /\ moveTo \in PEBs
      /\ Moving = {moveFrom, moveTo} /\ moveFrom # moveTo
      /\ \A v \in Workers : job[v].kind \in {"copy", "moved"} => v = w
      /\ moveTo \notin Owned /\ ~moveToPut
  BY <1>1, MoveFacts
<1>5. \A c \in Owners : arg[c] # moveFrom /\ arg[c] # moveTo
  BY <1>1, <1>4 DEF WlInv, OwnInv, Owned
<1>6. Owned' = (Owned \ {moveFrom}) \cup {moveTo}
  BY <1>1, <1>3, <1>5 DEF Owned
<1>7. TypeOK'
  <2>1. mapped' \subseteq PEBs
    BY <1>1, <1>4 DEF WlInv, TypeOK
  <2> QED BY <1>1, <1>3, <2>1 DEF WlInv, TypeOK, ClientTypeOK, trees, queue, move, flags
<1>8. Apart' /\ Unique' /\ NoneLost'
  BY <1>1, <1>3, SamePlaces DEF places, trees, queue, move, InErase
<1>9. Moving' = Moving /\ Queued' = Queued /\ InPq' = InPq
  BY <1>1 DEF Moving, Queued, InPq, move, queue
<1>10. OwnInv'
  <2>1. \A c \in Clients : pc[c] \in {"scrub", "ensure"} => arg[c] \in mapped'
    BY <1>1 DEF WlInv, OwnInv, Busy
  <2>2. \A c \in Owners : arg[c] \in PEBs /\ arg[c] \notin mapped'
    BY <1>1, <1>5 DEF WlInv, OwnInv
  <2>3. moveTo \notin free \cup Queued \cup InErase \cup bad
    BY <1>4 DEF WlInv, OnePlace, Apart
  <2> QED BY <1>1, <1>3, <1>4, <1>6, <1>9, <2>1, <2>2, <2>3 DEF WlInv, OwnInv, trees
<1>11. MoveInv'
  BY <1>1, <1>3, <1>4, <1>6 DEF WlInv, MoveInv, move
<1>12. PoolMove(moveFrom, moveTo)
  <2>1. moveTo \notin free \cup bad
    BY <1>4 DEF WlInv, OnePlace, Apart
  <2>2. moveFrom \in Owned /\ moveFrom \notin free \cup bad
    BY <1>1 DEF Owned, WlInv, OwnInv
  <2> QED BY <1>1, <1>4, <1>6, <2>1, <2>2 DEF PoolMove, trees
<1> QED BY <1>3, <1>4, <1>7, <1>8, <1>10, <1>11, <1>12 DEF WlInv, OnePlace

\* A move that did not happen: the source returns to a tree or to the
\* protection queue, the target is queued for erasure or freed.
LEMMA NotMovedInv ==
    ASSUME WlInv, NEW w \in Workers, WlRace(w) \/ WlTargetFails(w) \/ WlNoVidBitflips(w) \/ WlSourceFails(w)
    PROVE  WlInv' /\ PoolSame
<1>1. /\ UNCHANGED <<free, pqHead, moveToPut, bebRsvd, mapped, bad>>
      /\ job[w].kind = "copy" /\ moveFrom' = None /\ moveTo' = None /\ moveMutex' = None
      /\ wlScheduled' = FALSE /\ (DoneOk(w) \/ DoneErr(w))
  BY DEF WlRace, WlTargetFails, WlNoVidBitflips, WlSourceFails, WlRelease
<1>2. /\ moveMutex = w /\ moveFrom \in PEBs /\ moveTo \in PEBs
      /\ Moving = {moveFrom, moveTo} /\ moveFrom # moveTo
      /\ \A v \in Workers : job[v].kind \in {"copy", "moved"} => v = w
      /\ moveTo \notin Owned /\ ~moveToPut
  BY <1>1, MoveFacts
<1>3. Moving' = {}
  BY <1>1 DEF Moving
<1>4. /\ ClientTypeOK' /\ arg' = arg /\ Owners' = Owners
      /\ \A c \in Clients : pc'[c] \in {"scrub", "ensure"} => pc[c] \in {"scrub", "ensure"}
      /\ JobInv'
      /\ job' \in [Workers -> JobType] /\ EraseUnique(job')
      /\ job'[w].kind = "none" /\ \A v \in Workers \ {w} : job'[v] = job[v]
      /\ InErase' = InErase
  BY <1>1, Done DEF InErase
<1>5. /\ works' \in Seq(WorkType) /\ WorksUnique(works') /\ roMode' \in BOOLEAN
      /\ \/ Queued' = Queued \cup {moveTo} /\ freed' = freed
         \/ Queued' = Queued /\ freed' = freed \cup {moveTo}
  <2>1. works \in Seq(WorkType) /\ WorksUnique(works) /\ moveTo \notin QueuedOf(works) /\ roMode \in BOOLEAN
    BY <1>2 DEF WlInv, OnePlace, TypeOK, Unique, Apart, Queued
  <2>2. ASSUME NEW t \in BOOLEAN, WlRelease(w, t)
        PROVE  /\ works' \in Seq(WorkType) /\ WorksUnique(works') /\ roMode' \in BOOLEAN
               /\ \/ Queued' = Queued \cup {moveTo} /\ freed' = freed
                  \/ Queued' = Queued /\ freed' = freed \cup {moveTo}
    <3>1. CASE works' = Append(works, EraseWork(moveTo, t)) /\ UNCHANGED <<roMode, freed>>
      BY <3>1, <2>1, <1>2, QueueErase DEF Queued
    <3>2. CASE UNCHANGED works /\ freed' = freed \cup {moveTo} /\ roMode' = TRUE
      BY <3>2, <2>1 DEF Queued
    <3> QED BY <2>2, <3>1, <3>2 DEF WlRelease
  <2> QED BY <2>2 DEF WlRace, WlTargetFails, WlNoVidBitflips, WlSourceFails
<1>6. /\ PqType(pq') /\ PqUnique(pq')
      /\ \/ InPq' = InPq \cup {moveFrom} /\ UNCHANGED <<used, scrub, erroneous>>
         \/ used' = used \cup {moveFrom} /\ UNCHANGED <<scrub, erroneous>> /\ InPq' = InPq
         \/ scrub' = scrub \cup {moveFrom} /\ UNCHANGED <<used, erroneous>> /\ InPq' = InPq
         \/ erroneous' = erroneous \cup {moveFrom} /\ UNCHANGED <<used, scrub>> /\ InPq' = InPq
  <2>1. PqType(pq) /\ PqUnique(pq) /\ moveFrom \notin PqOf(pq) /\ PqTail \in Slots
    BY <1>2, PqTailSlot DEF WlInv, OnePlace, TypeOK, Unique, Apart, PqType, InPq
  <2>2. CASE WlRace(w)
    <3>1. pq' = [pq EXCEPT ![PqTail] = @ \cup {moveFrom}] /\ UNCHANGED <<used, scrub, erroneous>>
      BY <2>2 DEF WlRace, ProtQueueAdd
    <3> QED BY <1>2, <2>1, <3>1, PqAdd DEF InPq
  <2>3. CASE WlTargetFails(w)
    BY <2>1, <2>3 DEF WlTargetFails, InPq
  <2>4. CASE WlNoVidBitflips(w)
    BY <2>1, <2>4 DEF WlNoVidBitflips, InPq
  <2>5. CASE WlSourceFails(w)
    BY <2>1, <2>5 DEF WlSourceFails, InPq
  <2> QED BY <2>2, <2>3, <2>4, <2>5
<1>7. TypeOK'
  <2>1. /\ used' \subseteq PEBs /\ scrub' \subseteq PEBs /\ erroneous' \subseteq PEBs
        /\ freed' \subseteq PEBs /\ pq' \in [Slots -> SUBSET PEBs]
    BY <1>2, <1>5, <1>6 DEF WlInv, TypeOK, PqType
  <2> QED BY <1>1, <1>4, <1>5, <2>1 DEF WlInv, TypeOK, ClientTypeOK
<1>8. Owned' = Owned
  BY <1>1, <1>4 DEF Owned
<1>9. Apart'
  BY <1>1, <1>2, <1>3, <1>4, <1>5, <1>6 DEF WlInv, OnePlace, Apart
<1>10. Unique' /\ NoneLost'
  BY <1>1, <1>2, <1>3, <1>4, <1>5, <1>6 DEF WlInv, OnePlace, Unique, NoneLost
<1>11. OwnInv'
  BY <1>1, <1>2, <1>3, <1>4, <1>5, <1>6, <1>8 DEF WlInv, OwnInv
<1>12. MoveInv'
  <2>1. \A v \in Workers : v # None /\ job'[v].kind \notin {"copy", "moved"}
    BY <1>2, <1>4, NoneAssumption DEF Workers
  <2> QED BY <1>1, <1>2, <2>1 DEF MoveInv
<1> QED BY <1>1, <1>4, <1>7, <1>8, <1>9, <1>10, <1>11, <1>12 DEF WlInv, OnePlace, PoolSame

\* The move is given up altogether: both entries are freed.
LEMMA MoveErrorInv ==
    ASSUME WlInv, NEW w \in Workers, WlError(w)
    PROVE  WlInv' /\ PoolSame
<1>1. /\ UNCHANGED <<trees, queue, works, bebRsvd, mapped, bad>>
      /\ job[w].kind = "copy" /\ moveFrom' = None /\ moveTo' = None /\ moveMutex' = None
      /\ moveToPut' = FALSE /\ wlScheduled' = FALSE /\ roMode' = TRUE /\ DoneErr(w)
      /\ freed' = freed \cup {moveFrom, moveTo}
  BY DEF WlError
<1>2. /\ moveMutex = w /\ moveFrom \in PEBs /\ moveTo \in PEBs
      /\ Moving = {moveFrom, moveTo}
      /\ \A v \in Workers : job[v].kind \in {"copy", "moved"} => v = w
  BY <1>1, MoveFacts
<1>3. Moving' = {} /\ InPq' = InPq /\ Queued' = Queued
  BY <1>1 DEF Moving, InPq, Queued, queue
<1>4. /\ ClientTypeOK' /\ arg' = arg /\ Owners' = Owners
      /\ \A c \in Clients : pc'[c] \in {"scrub", "ensure"} => pc[c] \in {"scrub", "ensure"}
      /\ JobInv'
      /\ job' \in [Workers -> JobType] /\ EraseUnique(job')
      /\ job'[w].kind = "none" /\ \A v \in Workers \ {w} : job'[v] = job[v]
      /\ InErase' = InErase
  BY <1>1, Done DEF InErase
<1>5. TypeOK'
  <2>1. freed' \subseteq PEBs
    BY <1>1, <1>2 DEF WlInv, TypeOK
  <2> QED BY <1>1, <1>4, <2>1 DEF WlInv, TypeOK, ClientTypeOK, trees, queue
<1>6. Owned' = Owned
  BY <1>1, <1>4 DEF Owned
<1>7. Apart'
  BY <1>1, <1>2, <1>3, <1>4 DEF WlInv, OnePlace, Apart, trees
<1>8. Unique' /\ NoneLost'
  BY <1>1, <1>2, <1>3, <1>4 DEF WlInv, OnePlace, Unique, NoneLost, trees, queue
<1>9. OwnInv'
  BY <1>1, <1>2, <1>3, <1>4, <1>6 DEF WlInv, OwnInv, trees
<1>10. MoveInv'
  <2>1. \A v \in Workers : v # None /\ job'[v].kind \notin {"copy", "moved"}
    BY <1>2, <1>4, NoneAssumption DEF Workers
  <2> QED BY <1>1, <1>2, <2>1 DEF MoveInv
<1> QED BY <1>1, <1>4, <1>5, <1>6, <1>7, <1>8, <1>9, <1>10 DEF WlInv, OnePlace, PoolSame, trees

\* The end of a move that happened: the source, and the target if it was put
\* meanwhile, are queued for erasure or freed.
LEMMA MovedInv ==
    ASSUME WlInv, NEW w \in Workers, WlMoved(w)
    PROVE  WlInv' /\ PoolSame
<1> DEFINE gone == {moveFrom} \cup (IF moveToPut THEN {moveTo} ELSE {})
<1>1. /\ UNCHANGED <<free, scrub, erroneous, queue, bebRsvd, mapped, bad>>
      /\ job[w].kind = "moved" /\ moveFrom' = None /\ moveTo' = None /\ moveMutex' = None
      /\ moveToPut' = FALSE /\ wlScheduled' = FALSE /\ (DoneOk(w) \/ DoneErr(w))
      /\ used' = IF moveToPut THEN used ELSE used \cup {moveTo}
  BY DEF WlMoved
<1>2. /\ moveMutex = w /\ moveFrom \in PEBs /\ moveTo \in PEBs
      /\ Moving = {moveFrom, moveTo} /\ moveFrom # moveTo
      /\ \A v \in Workers : job[v].kind \in {"copy", "moved"} => v = w
      /\ moveFrom \notin Owned
  BY <1>1, MoveFacts
<1>3. Moving' = {} /\ InPq' = InPq
  BY <1>1 DEF Moving, InPq, queue
<1>4. /\ ClientTypeOK' /\ arg' = arg /\ Owners' = Owners
      /\ \A c \in Clients : pc'[c] \in {"scrub", "ensure"} => pc[c] \in {"scrub", "ensure"}
      /\ JobInv'
      /\ job' \in [Workers -> JobType] /\ EraseUnique(job')
      /\ job'[w].kind = "none" /\ \A v \in Workers \ {w} : job'[v] = job[v]
      /\ InErase' = InErase
  BY <1>1, Done DEF InErase
<1>5. /\ works' \in Seq(WorkType) /\ WorksUnique(works') /\ roMode' \in BOOLEAN
      /\ Queued' \cup freed' = Queued \cup freed \cup gone
      /\ Queued \subseteq Queued' /\ Queued' \subseteq Queued \cup gone /\ freed' \subseteq freed \cup gone
  <2>1. /\ works \in Seq(WorkType) /\ WorksUnique(works) /\ roMode \in BOOLEAN
        /\ moveFrom \notin QueuedOf(works) /\ moveTo \notin QueuedOf(works)
    BY <1>2 DEF WlInv, OnePlace, TypeOK, Unique, Apart, Queued
  <2> DEFINE one == Append(works, EraseWork(moveFrom, FALSE))
             two == Append(one, EraseWork(moveTo, FALSE))
  <2>2. one \in Seq(WorkType) /\ WorksUnique(one) /\ QueuedOf(one) = QueuedOf(works) \cup {moveFrom}
    BY <2>1, <1>2, QueueErase
  <2> HIDE DEF one
  <2>3. two \in Seq(WorkType) /\ WorksUnique(two) /\ QueuedOf(two) = QueuedOf(works) \cup {moveFrom, moveTo}
    <3>1. moveTo \notin QueuedOf(one)
      BY <2>1, <2>2, <1>2
    <3>2. WorksUnique(two) /\ two \in Seq(WorkType) /\ QueuedOf(two) = QueuedOf(one) \cup {moveTo}
      BY <3>1, <2>2, <1>2, QueueErase
    <3> QED BY <3>2, <2>2
  <2>4. CASE /\ works' = IF moveToPut THEN two ELSE one
             /\ UNCHANGED <<roMode, freed>>
    <3> HIDE DEF two
    <3> QED BY <2>1, <2>2, <2>3, <2>4 DEF Queued
  <2>5. CASE UNCHANGED works /\ freed' = freed \cup gone /\ roMode' = TRUE
    BY <2>5, <2>1 DEF Queued
  <2>6. CASE works' = one /\ moveToPut /\ freed' = freed \cup {moveTo} /\ roMode' = TRUE
    BY <2>6, <2>1, <2>2 DEF Queued
  <2> QED BY <2>4, <2>5, <2>6 DEF WlMoved, one
<1>6. moveToPut \in BOOLEAN /\ (moveToPut => moveTo \notin Owned)
  BY DEF WlInv, TypeOK, MoveInv
<1>7. TypeOK'
  <2>1. used' \subseteq PEBs /\ freed' \subseteq PEBs
    BY <1>1, <1>2, <1>5 DEF WlInv, TypeOK
  <2> QED BY <1>1, <1>4, <1>5, <2>1 DEF WlInv, TypeOK, ClientTypeOK, queue
<1>8. Owned' = Owned
  BY <1>1, <1>4 DEF Owned
<1>9. gone \cup (used' \ used) \subseteq Moving /\ Moving \subseteq gone \cup used' /\ used \subseteq used'
      /\ gone \cap used' = {} /\ gone \cap Owned = {}
  BY <1>1, <1>2, <1>6 DEF WlInv, OnePlace, Apart
<1> HIDE DEF gone
<1>10. Apart'
  BY <1>1, <1>3, <1>4, <1>5, <1>9 DEF WlInv, OnePlace, Apart
<1>11. Unique' /\ NoneLost'
  BY <1>1, <1>3, <1>4, <1>5, <1>9 DEF WlInv, OnePlace, Unique, NoneLost, queue
<1>12. OwnInv'
  BY <1>1, <1>3, <1>4, <1>5, <1>8, <1>9 DEF WlInv, OwnInv
<1>13. MoveInv'
  <2>1. \A v \in Workers : v # None /\ job'[v].kind \notin {"copy", "moved"}
    BY <1>2, <1>4, NoneAssumption DEF Workers
  <2> QED BY <1>1, <1>2, <2>1 DEF MoveInv
<1> QED BY <1>1, <1>4, <1>7, <1>8, <1>10, <1>11, <1>12, <1>13 DEF WlInv, OnePlace, PoolSame

\* How calls and returns of a client change who owns what.
LEMMA CallFacts ==
    ASSUME WlInv, NEW c \in Clients, NEW where \in PcType, NEW p \in PEBs, NEW t \in BOOLEAN,
           Call(c, where, p, t)
    PROVE  /\ ClientTypeOK'
           /\ pc'[c] = where /\ arg'[c] = p
           /\ \A d \in Clients \ {c} : pc'[d] = pc[d] /\ arg'[d] = arg[d]
<1>1. ClientTypeOK
  BY DEF WlInv, TypeOK, ClientTypeOK
<1> QED BY <1>1, ClientTypes DEF ClientTypeOK, Call

LEMMA ReturnFacts ==
    ASSUME WlInv, NEW c \in Clients, Return(c)
    PROVE  /\ ClientTypeOK'
           /\ pc'[c] = "idle" /\ arg'[c] = None
           /\ \A d \in Clients \ {c} : pc'[d] = pc[d] /\ arg'[d] = arg[d]
<1>1. ClientTypeOK
  BY DEF WlInv, TypeOK, ClientTypeOK
<1> QED BY <1>1, ClientTypes DEF ClientTypeOK, Return

\* A client holding a PEB or a LEB lock executes no work.
LEMMA NotWorking ==
    ASSUME WlInv, NEW c \in Clients, pc[c] \notin {"produce", "flush", "reflush"}
    PROVE  job[c].kind = "none"
BY DEF WlInv, JobInv

\* ubi_wl_get_peb() takes an entry from the free tree.
LEMMA TakeInv ==
    ASSUME WlInv, NEW c \in Clients, GetTake(c)
    PROVE  WlInv' /\ \E p \in PEBs : PoolGet(p)
<1>1. /\ UNCHANGED <<used, scrub, erroneous, pqHead, works, move, wlScheduled, flags, job, mapped, bad, freed>>
      /\ pc[c] = "get"
  BY DEF GetTake
<1>2. PICK p \in free : free' = free \ {p} /\ ProtQueueAdd(p) /\ Call(c, "erasing", p, FALSE)
  BY DEF GetTake
<1>3. p \in PEBs /\ "erasing" \in PcType
  BY DEF WlInv, TypeOK, PcType
<1>4. /\ ClientTypeOK' /\ pc'[c] = "erasing" /\ arg'[c] = p
      /\ \A d \in Clients \ {c} : pc'[d] = pc[d] /\ arg'[d] = arg[d]
  BY <1>2, <1>3, CallFacts
<1>5. PqType(pq') /\ PqUnique(pq') /\ InPq' = InPq \cup {p}
  <2>1. PqType(pq) /\ PqUnique(pq) /\ p \notin PqOf(pq) /\ PqTail \in Slots
    BY PqTailSlot DEF WlInv, OnePlace, TypeOK, Unique, Apart, PqType, InPq
  <2>2. pq' = [pq EXCEPT ![PqTail] = @ \cup {p}]
    BY <1>2 DEF ProtQueueAdd
  <2> QED BY <1>3, <2>1, <2>2, PqAdd DEF InPq
<1>6. Queued' = Queued /\ InErase' = InErase /\ Moving' = Moving
  BY <1>1 DEF Queued, InErase, Moving, move
<1>7. Owners' = Owners \cup {c} /\ c \notin Owners /\ Owned' = Owned \cup {p} /\ p \notin Owned
  <2>1. Owners' = Owners \cup {c} /\ c \notin Owners
    BY <1>1, <1>4 DEF Owners
  <2>2. p \notin Owned
    BY DEF WlInv, OwnInv
  <2> QED BY <1>1, <1>4, <2>1, <2>2 DEF Owned, Owners
<1>8. TypeOK'
  <2>1. free' \subseteq PEBs /\ pq' \in [Slots -> SUBSET PEBs]
    BY <1>2, <1>5 DEF WlInv, TypeOK, PqType
  <2> QED BY <1>1, <1>4, <2>1 DEF WlInv, TypeOK, ClientTypeOK, move, flags
<1>9. Apart'
  BY <1>1, <1>2, <1>5, <1>6 DEF WlInv, OnePlace, Apart, move
<1>10. Unique' /\ NoneLost'
  BY <1>1, <1>2, <1>5, <1>6 DEF WlInv, OnePlace, Unique, NoneLost
<1>11. OwnInv'
  <2>1. \A d \in Owners' : arg'[d] \in PEBs /\ arg'[d] \notin mapped'
    BY <1>1, <1>3, <1>4, <1>7 DEF WlInv, OwnInv, Owners, Owned
  <2>2. \A d, e \in Owners' : arg'[d] = arg'[e] => d = e
    BY <1>4, <1>7 DEF WlInv, OwnInv, Owners, Owned
  <2>3. \A d \in Clients : pc'[d] \in {"scrub", "ensure"} => arg'[d] \in mapped'
    BY <1>1, <1>4 DEF WlInv, OwnInv
  <2>4. p \notin free' \cup Queued' \cup InErase' \cup bad'
    BY <1>1, <1>2, <1>6 DEF WlInv, OnePlace, Apart
  <2> QED BY <1>1, <1>2, <1>5, <1>6, <1>7, <2>1, <2>2, <2>3, <2>4 DEF WlInv, OwnInv
<1>12. MoveInv'
  <2>1. \A w \in Workers : job[w].kind = "moved" => moveFrom # p
    BY MoveFacts DEF WlInv, OnePlace, Apart
  <2>2. moveToPut => moveTo # p
    <3>1. moveTo \in PEBs => moveTo # p
      BY NoneAssumption DEF WlInv, OnePlace, Apart, Moving
    <3> QED BY <1>3, <3>1
  <2>3. \A w \in Workers : job[w].kind = "copy" => moveTo # p
    BY MoveFacts DEF WlInv, OnePlace, Apart
  <2> QED BY <1>1, <1>7, <2>1, <2>2, <2>3 DEF WlInv, MoveInv, move
<1>13. JobInv'
  BY <1>1, <1>4, NotWorking DEF WlInv, JobInv
<1>14. PoolGet(p)
  <2>1. p \notin bad
    BY DEF WlInv, OnePlace, Apart
  <2> QED BY <1>1, <1>2, <1>7, <2>1 DEF PoolGet
<1> QED BY <1>3, <1>8, <1>9, <1>10, <1>11, <1>12, <1>13, <1>14 DEF WlInv, OnePlace

\* EBA maps the PEB it was given.
LEMMA MapInv ==
    ASSUME WlInv, NEW c \in Clients, EbaMap(c)
    PROVE  WlInv' /\ PoolSame
<1>1. /\ UNCHANGED <<trees, queue, works, move, wlScheduled, flags, job, bad, freed>>
      /\ pc[c] = "own" /\ mapped' = mapped \cup {arg[c]} /\ Return(c)
  BY DEF EbaMap
<1>2. /\ ClientTypeOK' /\ pc'[c] = "idle"
      /\ \A d \in Clients \ {c} : pc'[d] = pc[d] /\ arg'[d] = arg[d]
  BY <1>1, ReturnFacts
<1>3. c \in Owners /\ Owners' = Owners \ {c} /\ arg[c] \in PEBs
  BY <1>1, <1>2 DEF Owners, WlInv, OwnInv
<1>4. Owned' = Owned
  BY <1>1, <1>2, <1>3 DEF Owned, Owners
<1>5. TypeOK'
  <2>1. mapped' \subseteq PEBs
    BY <1>1, <1>3 DEF WlInv, TypeOK
  <2> QED BY <1>1, <1>2, <2>1 DEF WlInv, TypeOK, ClientTypeOK, trees, queue, move, flags
<1>6. Apart' /\ Unique' /\ NoneLost'
  BY <1>1, SamePlaces DEF WlInv, OnePlace, Unique, places, trees, queue, move
<1>7. OwnInv'
  <2>1. \A d \in Owners' : arg'[d] \in PEBs /\ arg'[d] \notin mapped'
    BY <1>1, <1>2, <1>3 DEF WlInv, OwnInv, Owners
  <2>2. \A d, e \in Owners' : arg'[d] = arg'[e] => d = e
    BY <1>2, <1>3 DEF WlInv, OwnInv, Owners
  <2>3. \A d \in Clients : pc'[d] \in {"scrub", "ensure"} => arg'[d] \in mapped'
    BY <1>1, <1>2 DEF WlInv, OwnInv
  <2> QED BY <1>1, <1>4, <2>1, <2>2, <2>3 DEF WlInv, OwnInv, InPq, Queued, InErase, Moving, trees, queue, move
<1>8. MoveInv'
  BY <1>1, <1>4 DEF WlInv, MoveInv, move
<1>9. JobInv'
  BY <1>1, <1>2, NotWorking DEF WlInv, JobInv
<1> QED BY <1>1, <1>4, <1>5, <1>6, <1>7, <1>8, <1>9 DEF WlInv, OnePlace, PoolSame, trees

\* EBA gives up a PEB it was given, or puts it.
LEMMA WriteFailsInv ==
    ASSUME WlInv, NEW c \in Clients, EbaWriteFails(c)
    PROVE  WlInv' /\ (PoolSame \/ \E p \in PEBs : PoolPut(p))
<1>1. /\ UNCHANGED <<trees, queue, works, move, wlScheduled, flags, job, mapped, bad, freed>>
      /\ pc[c] = "own" /\ (Call(c, "put", arg[c], TRUE) \/ Return(c))
  BY DEF EbaWriteFails
<1>2. c \in Owners /\ arg[c] \in PEBs /\ "put" \in PcType
  BY <1>1 DEF Owners, WlInv, OwnInv, PcType
<1>3. /\ ClientTypeOK' /\ (pc'[c] = "idle" \/ (pc'[c] = "put" /\ arg'[c] = arg[c]))
      /\ \A d \in Clients \ {c} : pc'[d] = pc[d] /\ arg'[d] = arg[d]
  BY <1>1, <1>2, ReturnFacts, CallFacts
<1>4. Owners' \subseteq Owners /\ \A d \in Owners' : arg'[d] = arg[d]
  BY <1>1, <1>3 DEF Owners
<1>5. Owned' \subseteq Owned
  BY <1>1, <1>4 DEF Owned
<1>6. TypeOK'
  BY <1>1, <1>3 DEF WlInv, TypeOK, ClientTypeOK, trees, queue, move, flags
<1>7. Apart' /\ Unique' /\ NoneLost'
  BY <1>1, SamePlaces DEF WlInv, OnePlace, Unique, places, trees, queue, move
<1>8. OwnInv'
  <2>1. \A d \in Clients : pc'[d] \in {"scrub", "ensure"} => arg'[d] \in mapped'
    BY <1>1, <1>3 DEF WlInv, OwnInv
  <2> QED BY <1>1, <1>4, <1>5, <2>1 DEF WlInv, OwnInv, InPq, Queued, InErase, Moving, trees, queue, move
<1>9. MoveInv'
  BY <1>1, <1>5 DEF WlInv, MoveInv, move
<1>10. JobInv'
  BY <1>1, <1>3, NotWorking DEF WlInv, JobInv
<1>11. PoolSame \/ PoolPut(arg[c])
  <2>1. arg[c] \in Owned /\ arg[c] \notin free \cup bad /\ free' = free /\ bad' = bad
    BY <1>1, <1>2 DEF Owned, WlInv, OwnInv, trees
  <2>2. CASE pc'[c] = "idle"
    <3>1. Owners' = Owners \ {c}
      BY <1>3, <2>2 DEF Owners
    <3>2. Owned' = Owned \ {arg[c]}
      BY <1>1, <1>2, <1>4, <3>1 DEF Owned, WlInv, OwnInv
    <3> QED BY <2>1, <3>2 DEF PoolPut
  <2>3. CASE pc'[c] = "put"
    <3>1. Owners' = Owners
      BY <1>1, <1>3, <2>3 DEF Owners
    <3> QED BY <1>1, <1>4, <2>1, <3>1 DEF PoolSame, Owned
  <2> QED BY <1>3, <2>2, <2>3
<1> QED BY <1>2, <1>6, <1>7, <1>8, <1>9, <1>10, <1>11 DEF WlInv, OnePlace

\* EBA un-maps a LEB and calls ubi_wl_put_peb().
LEMMA UnmapInv ==
    ASSUME WlInv, NEW c \in Clients, EbaUnmap(c)
    PROVE  WlInv' /\ PoolSame
<1>1. /\ UNCHANGED <<trees, queue, works, move, wlScheduled, flags, job, bad, freed>>
      /\ pc[c] = "idle"
  BY DEF EbaUnmap
<1>2. PICK p \in mapped, t \in BOOLEAN :
        ~Busy(p) /\ mapped' = mapped \ {p} /\ Call(c, "put", p, t)
  BY DEF EbaUnmap
<1>3. p \in PEBs /\ "put" \in PcType
  BY DEF WlInv, TypeOK, PcType
<1>4. /\ ClientTypeOK' /\ pc'[c] = "put" /\ arg'[c] = p
      /\ \A d \in Clients \ {c} : pc'[d] = pc[d] /\ arg'[d] = arg[d]
  BY <1>2, <1>3, CallFacts
<1>5. Owners' = Owners \cup {c} /\ c \notin Owners
  BY <1>1, <1>4 DEF Owners
<1>6. Owned' = Owned
  BY <1>1, <1>2, <1>4, <1>5 DEF Owned, Owners
<1>7. TypeOK'
  <2>1. mapped' \subseteq PEBs
    BY <1>2 DEF WlInv, TypeOK
  <2> QED BY <1>1, <1>4, <2>1 DEF WlInv, TypeOK, ClientTypeOK, trees, queue, move, flags
<1>8. Apart' /\ Unique' /\ NoneLost'
  BY <1>1, SamePlaces DEF WlInv, OnePlace, Unique, places, trees, queue, move
<1>9. OwnInv'
  <2>1. \A d \in Owners' : arg'[d] \in PEBs /\ arg'[d] \notin mapped'
    BY <1>2, <1>3, <1>4, <1>5 DEF WlInv, OwnInv, Owners
  <2>2. \A d, e \in Owners' : arg'[d] = arg'[e] => d = e
    BY <1>4, <1>5 DEF WlInv, OwnInv, Owners
  <2>3. \A d \in Clients : pc'[d] \in {"scrub", "ensure"} => arg'[d] \in mapped'
    BY <1>2, <1>4 DEF WlInv, OwnInv, Busy
  <2> QED BY <1>1, <1>6, <2>1, <2>2, <2>3 DEF WlInv, OwnInv, InPq, Queued, InErase, Moving, trees, queue, move
<1>10. MoveInv'
  BY <1>1, <1>6 DEF WlInv, MoveInv, move
<1>11. JobInv'
  BY <1>1, <1>4, NotWorking DEF WlInv, JobInv
<1> QED BY <1>1, <1>6, <1>7, <1>8, <1>9, <1>10, <1>11 DEF WlInv, OnePlace, PoolSame, trees

\* The PEB that is put is the target of the move in progress.
LEMMA PutTargetInv ==
    ASSUME WlInv, NEW c \in Clients, PutMoveTarget(c)
    PROVE  WlInv' /\ \E p \in PEBs : PoolPut(p)
<1>1. /\ UNCHANGED <<trees, queue, works, moveFrom, moveTo, moveMutex, wlScheduled, flags, job, mapped, bad, freed>>
      /\ pc[c] = "put" /\ arg[c] = moveTo /\ moveToPut' = TRUE /\ Return(c)
  BY DEF PutMoveTarget
<1>2. /\ ClientTypeOK' /\ pc'[c] = "idle"
      /\ \A d \in Clients \ {c} : pc'[d] = pc[d] /\ arg'[d] = arg[d]
  BY <1>1, ReturnFacts
<1>3. c \in Owners /\ Owners' = Owners \ {c} /\ arg[c] \in PEBs
  BY <1>1, <1>2 DEF Owners, WlInv, OwnInv
<1>4. moveTo \in Owned /\ Owned' = Owned \ {moveTo}
  BY <1>1, <1>2, <1>3 DEF Owned, Owners, WlInv, OwnInv
<1>5. TypeOK'
  BY <1>1, <1>2 DEF WlInv, TypeOK, ClientTypeOK, trees, queue, flags
<1>6. Apart' /\ Unique' /\ NoneLost'
  BY <1>1, SamePlaces DEF WlInv, OnePlace, Unique, places, trees, queue
<1>7. OwnInv'
  <2>1. \A d \in Owners' : arg'[d] \in PEBs /\ arg'[d] \notin mapped'
    BY <1>1, <1>2, <1>3 DEF WlInv, OwnInv, Owners
  <2>2. \A d, e \in Owners' : arg'[d] = arg'[e] => d = e
    BY <1>2, <1>3 DEF WlInv, OwnInv, Owners
  <2>3. \A d \in Clients : pc'[d] \in {"scrub", "ensure"} => arg'[d] \in mapped'
    BY <1>1, <1>2 DEF WlInv, OwnInv
  <2> QED BY <1>1, <1>4, <2>1, <2>2, <2>3 DEF WlInv, OwnInv, InPq, Queued, InErase, Moving, trees, queue
<1>8. MoveInv'
  <2>1. moveMutex # None
    BY <1>1, <1>3, NoneAssumption DEF WlInv, MoveInv
  <2>2. \A w \in Workers : job[w].kind # "copy"
    BY <1>4 DEF WlInv, MoveInv
  <2> QED BY <1>1, <1>4, <2>1, <2>2 DEF WlInv, MoveInv
<1>9. JobInv'
  BY <1>1, <1>2, NotWorking DEF WlInv, JobInv
<1>10. PoolPut(arg[c])
  <2>1. arg[c] \notin free \cup bad
    BY <1>1, <1>4 DEF WlInv, OwnInv
  <2> QED BY <1>1, <1>4, <2>1 DEF PoolPut, trees
<1> QED BY <1>3, <1>5, <1>6, <1>7, <1>8, <1>9, <1>10 DEF WlInv, OnePlace

\* ubi_wl_put_peb() unlinks the entry and queues it for erasure.
LEMMA UnlinkInv ==
    ASSUME WlInv, NEW c \in Clients, PutUnlink(c)
    PROVE  WlInv' /\ \E p \in PEBs : PoolPut(p)
<1> DEFINE p == arg[c]
           t == tort[c] \/ p \in erroneous \ (used \cup scrub)
<1>1. /\ UNCHANGED <<free, pqHead, move, wlScheduled, flags, job, mapped, bad, freed>>
      /\ pc[c] = "put" /\ p # moveFrom /\ p # moveTo /\ Return(c)
      /\ scrub' = IF p \in used THEN scrub ELSE scrub \ {p}
      /\ erroneous' = IF p \in used \cup scrub THEN erroneous ELSE erroneous \ {p}
      /\ IF p \in used \cup scrub \cup erroneous THEN UNCHANGED pq ELSE ProtQueueDel(p)
      /\ \/ used' = used \ {p} /\ works' = Append(works, EraseWork(p, t))
         \/ used' = used \cup {p} /\ UNCHANGED works
  BY DEF PutUnlink
<1>2. /\ ClientTypeOK' /\ pc'[c] = "idle"
      /\ \A d \in Clients \ {c} : pc'[d] = pc[d] /\ arg'[d] = arg[d]
  BY <1>1, ReturnFacts
<1>3. c \in Owners /\ Owners' = Owners \ {c} /\ p \in PEBs /\ p \in Owned
  BY <1>1, <1>2 DEF Owners, Owned, WlInv, OwnInv
<1>4. Owned' = Owned \ {p}
  BY <1>1, <1>2, <1>3 DEF Owned, Owners, WlInv, OwnInv
<1>5. t \in BOOLEAN
  <2>1. tort[c] \in BOOLEAN
    BY DEF WlInv, TypeOK
  <2> QED BY <2>1, Zenon
<1>6. /\ p \notin free \cup Queued \cup InErase \cup bad
      /\ p \notin Moving
  BY <1>1, <1>3 DEF WlInv, OwnInv, Moving
<1> HIDE DEF t, p
<1>7. PqType(pq') /\ PqUnique(pq') /\ InPq' = InPq \ {p}
  <2>1. PqType(pq) /\ PqUnique(pq)
    BY DEF WlInv, OnePlace, TypeOK, Unique, PqType
  <2>2. CASE p \in used \cup scrub \cup erroneous
    <3>1. p \notin InPq
      BY <2>2 DEF WlInv, OnePlace, Apart
    <3> QED BY <1>1, <2>1, <2>2, <3>1 DEF InPq
  <2>3. CASE p \notin used \cup scrub \cup erroneous
    <3>1. pq' = [i \in Slots |-> pq[i] \ {p}]
      BY <1>1, <2>3 DEF ProtQueueDel
    <3> QED BY <2>1, <3>1, PqDel DEF InPq
  <2> QED BY <2>2, <2>3
<1>8. /\ works' \in Seq(WorkType) /\ WorksUnique(works')
      /\ \/ used' = used \ {p} /\ Queued' = Queued \cup {p}
         \/ used' = used \cup {p} /\ Queued' = Queued
  <2>1. works \in Seq(WorkType) /\ WorksUnique(works) /\ p \notin QueuedOf(works)
    BY <1>6 DEF WlInv, OnePlace, TypeOK, Unique, Queued
  <2>2. CASE used' = used \ {p} /\ works' = Append(works, EraseWork(p, t))
    BY <2>1, <2>2, <1>3, <1>5, QueueErase DEF Queued
  <2>3. CASE used' = used \cup {p} /\ UNCHANGED works
    BY <2>1, <2>3 DEF Queued
  <2> QED BY <1>1, <2>2, <2>3
<1>9. InErase' = InErase /\ Moving' = Moving
  BY <1>1 DEF InErase, Moving, move
<1>10. TypeOK'
  <2>1. /\ used' \subseteq PEBs /\ scrub' \subseteq PEBs /\ erroneous' \subseteq PEBs
        /\ pq' \in [Slots -> SUBSET PEBs]
    BY <1>1, <1>3, <1>7, <1>8 DEF WlInv, TypeOK, PqType
  <2> QED BY <1>1, <1>2, <1>8, <2>1 DEF WlInv, TypeOK, ClientTypeOK, move, flags
<1>11. scrub' = scrub \ {p} /\ erroneous' = erroneous \ {p}
  BY <1>1 DEF WlInv, OnePlace, Apart
<1>12. Apart'
  BY <1>1, <1>6, <1>7, <1>8, <1>9, <1>11 DEF WlInv, OnePlace, Apart, move
<1>13. Unique' /\ NoneLost'
  BY <1>1, <1>6, <1>7, <1>8, <1>9, <1>11 DEF WlInv, OnePlace, Unique, NoneLost
<1>14. OwnInv'
  <2>1. \A d \in Owners' : arg'[d] \in PEBs /\ arg'[d] \notin mapped'
    BY <1>1, <1>2, <1>3 DEF WlInv, OwnInv, Owners
  <2>2. \A d, e \in Owners' : arg'[d] = arg'[e] => d = e
    BY <1>2, <1>3 DEF WlInv, OwnInv, Owners
  <2>3. \A d \in Clients : pc'[d] \in {"scrub", "ensure"} => arg'[d] \in mapped'
    BY <1>1, <1>2 DEF WlInv, OwnInv
  <2> QED BY <1>1, <1>4, <1>7, <1>8, <1>9, <1>11, <2>1, <2>2, <2>3 DEF WlInv, OwnInv
<1>15. MoveInv'
  BY <1>1, <1>4 DEF WlInv, MoveInv, move
<1>16. JobInv'
  BY <1>1, <1>2, NotWorking DEF WlInv, JobInv
<1>17. PoolPut(p)
  BY <1>1, <1>3, <1>4, <1>6 DEF PoolPut
<1> QED BY <1>3, <1>10, <1>12, <1>13, <1>14, <1>15, <1>16, <1>17 DEF WlInv, OnePlace

\* ubi_wl_scrub_peb() moves the entry to the scrub tree.
LEMMA ScrubLinkInv ==
    ASSUME WlInv, NEW c \in Clients, ScrubLink(c)
    PROVE  WlInv' /\ PoolSame
<1> DEFINE p == arg[c]
<1>1. /\ UNCHANGED <<free, erroneous, pqHead, works, move, wlScheduled, flags, job, mapped, bad, freed>>
      /\ pc[c] = "scrub" /\ p \notin {moveFrom, moveTo} \cup scrub \cup erroneous
      /\ used' = used \ {p} /\ scrub' = scrub \cup {p} /\ Goto(c, "ensure")
      /\ IF p \in used THEN UNCHANGED pq ELSE ProtQueueDel(p)
  BY DEF ScrubLink
<1>2. ClientTypeOK' /\ arg' = arg /\ pc'[c] = "ensure" /\ \A d \in Clients \ {c} : pc'[d] = pc[d]
  <2>1. ClientTypeOK /\ "ensure" \in PcType
    BY DEF WlInv, TypeOK, ClientTypeOK, PcType
  <2> QED BY <1>1, <2>1, ClientTypes DEF Goto, ClientTypeOK
<1>3. Owners' = Owners
  BY <1>1, <1>2 DEF Owners
<1>4. Owned' = Owned /\ InErase' = InErase /\ Moving' = Moving /\ Queued' = Queued
  BY <1>1, <1>2, <1>3 DEF Owned, InErase, Moving, Queued, move
<1>5. p \in mapped /\ p \in PEBs /\ p \in Owned /\ p \notin Moving
  BY <1>1 DEF WlInv, OwnInv, Owned, TypeOK, Moving
<1>6. p \notin free \cup Queued \cup InErase \cup bad
  BY <1>5 DEF WlInv, OwnInv
<1> HIDE DEF p
<1>7. PqType(pq') /\ PqUnique(pq') /\ InPq' = InPq \ {p}
  <2>1. PqType(pq) /\ PqUnique(pq)
    BY DEF WlInv, OnePlace, TypeOK, Unique, PqType
  <2>2. CASE p \in used
    <3>1. p \notin InPq
      BY <2>2 DEF WlInv, OnePlace, Apart
    <3> QED BY <1>1, <2>1, <2>2, <3>1 DEF InPq
  <2>3. CASE p \notin used
    <3>1. pq' = [i \in Slots |-> pq[i] \ {p}]
      BY <1>1, <2>3 DEF ProtQueueDel
    <3> QED BY <2>1, <3>1, PqDel DEF InPq
  <2> QED BY <2>2, <2>3
<1>8. TypeOK'
  <2>1. used' \subseteq PEBs /\ scrub' \subseteq PEBs /\ pq' \in [Slots -> SUBSET PEBs]
    BY <1>1, <1>5, <1>7 DEF WlInv, TypeOK, PqType
  <2> QED BY <1>1, <1>2, <2>1 DEF WlInv, TypeOK, ClientTypeOK, move, flags
<1>9. Apart'
  BY <1>1, <1>4, <1>5, <1>6, <1>7 DEF WlInv, OnePlace, Apart, move
<1>10. Unique' /\ NoneLost'
  BY <1>1, <1>4, <1>5, <1>6, <1>7 DEF WlInv, OnePlace, Unique, NoneLost
<1>11. OwnInv'
  <2>1. \A d \in Clients : pc'[d] \in {"scrub", "ensure"} => arg'[d] \in mapped'
    BY <1>1, <1>2 DEF WlInv, OwnInv
  <2> QED BY <1>1, <1>2, <1>3, <1>4, <1>7, <2>1 DEF WlInv, OwnInv
<1>12. MoveInv'
  BY <1>1, <1>4 DEF WlInv, MoveInv, move
<1>13. JobInv'
  BY <1>1, <1>2, NotWorking DEF WlInv, JobInv
<1> QED BY <1>1, <1>4, <1>8, <1>9, <1>10, <1>11, <1>12, <1>13 DEF WlInv, OnePlace, PoolSame

\* ubi_wl_scrub_peb() schedules the wear-leveling worker and returns.
LEMMA ScrubEnsureInv ==
    ASSUME WlInv, NEW c \in Clients, ScrubEnsure(c)
    PROVE  WlInv' /\ PoolSame
<1>1. /\ UNCHANGED <<trees, queue, move, flags, job, mapped, bad, freed>>
      /\ pc[c] = "ensure" /\ Return(c) /\ (EnsureWearLeveling \/ EnsureNoMem)
  BY DEF ScrubEnsure
<1>2. /\ works' \in Seq(WorkType) /\ wlScheduled' \in BOOLEAN
      /\ Queued' = Queued /\ WorksUnique(works')
  BY <1>1, Ensure DEF Queued
<1>3. /\ ClientTypeOK' /\ pc'[c] = "idle"
      /\ \A d \in Clients \ {c} : pc'[d] = pc[d] /\ arg'[d] = arg[d]
  BY <1>1, ReturnFacts
<1>4. Owners' = Owners /\ \A d \in Owners : arg'[d] = arg[d]
  BY <1>1, <1>3 DEF Owners
<1>5. Owned' = Owned /\ InErase' = InErase /\ Moving' = Moving /\ InPq' = InPq
  BY <1>1, <1>4 DEF Owned, InErase, Moving, InPq, move, queue
<1>6. TypeOK'
  BY <1>1, <1>2, <1>3 DEF WlInv, TypeOK, ClientTypeOK, trees, queue, move, flags
<1>7. Apart' /\ Unique' /\ NoneLost'
  BY <1>1, <1>2, <1>5 DEF WlInv, OnePlace, Apart, Unique, NoneLost, trees, queue, move
<1>8. OwnInv'
  <2>1. \A d \in Clients : pc'[d] \in {"scrub", "ensure"} => arg'[d] \in mapped'
    BY <1>1, <1>3 DEF WlInv, OwnInv
  <2> QED BY <1>1, <1>2, <1>4, <1>5, <2>1 DEF WlInv, OwnInv, trees
<1>9. MoveInv'
  BY <1>1, <1>5 DEF WlInv, MoveInv, move
<1>10. JobInv'
  BY <1>1, <1>3, NotWorking DEF WlInv, JobInv
<1> QED BY <1>1, <1>5, <1>6, <1>7, <1>8, <1>9, <1>10 DEF WlInv, OnePlace, PoolSame, trees

----------------------------------------------------------------------------
(* The theorems.                                                           *)

\* What one step does to the pool.
PoolStep ==
    \/ PoolSame
    \/ \E p \in PEBs : \/ PoolGet(p) \/ PoolPut(p) \/ PoolReserve(p) \/ PoolClean(p) \/ PoolRetire(p)
                       \/ \E q \in PEBs : PoolMove(p, q)

\* Every step keeps the invariant and is a step of the pool or changes
\* nothing in it.
LEMMA StepInv == WlInv /\ [Next]_vars => WlInv' /\ PoolStep
<1> SUFFICES ASSUME WlInv, [Next]_vars PROVE WlInv' /\ PoolStep
  OBVIOUS
<1>1. ASSUME NEW c \in Clients, ClientStep(c) PROVE WlInv' /\ PoolStep
  <2>1. CASE \/ GetBegin(c) \/ GetNoSpace(c) \/ GetProduce(c) \/ GetSpin(c) \/ GetErase(c)
             \/ EbaBitflip(c) \/ PutWaitMove(c) \/ ScrubNothing(c) \/ ScrubRetry(c)
             \/ FlushBegin(c) \/ FlushStep(c)
    BY <2>1, ClientMoves DEF PoolStep
  <2>2. CASE GetTake(c)
    BY <2>2, TakeInv DEF PoolStep
  <2>3. CASE EbaMap(c)
    BY <2>3, MapInv DEF PoolStep
  <2>4. CASE EbaWriteFails(c)
    BY <2>4, WriteFailsInv DEF PoolStep
  <2>5. CASE EbaUnmap(c)
    BY <2>5, UnmapInv DEF PoolStep
  <2>6. CASE PutMoveTarget(c)
    BY <2>6, PutTargetInv DEF PoolStep
  <2>7. CASE PutUnlink(c)
    BY <2>7, UnlinkInv DEF PoolStep
  <2>8. CASE ScrubLink(c)
    BY <2>8, ScrubLinkInv DEF PoolStep
  <2>9. CASE ScrubEnsure(c)
    BY <2>9, ScrubEnsureInv DEF PoolStep
  <2> QED BY <1>1, <2>1, <2>2, <2>3, <2>4, <2>5, <2>6, <2>7, <2>8, <2>9 DEF ClientStep
<1>2. ASSUME NEW w \in Workers, WorkerStep(w) PROVE WlInv' /\ PoolStep
  <2>1. CASE EraseEnsure(w) \/ WlNoMem(w) \/ WlCancel(w)
    BY <2>1, WorkerMoves DEF PoolStep
  <2>2. CASE StartWork(w)
    BY <2>2, StartInv DEF PoolStep
  <2>3. CASE EraseOk(w) \/ EraseTransient(w) \/ EraseMarkBad(w) \/ EraseFatal(w)
    BY <2>3, EraseEnds DEF PoolStep
  <2>4. CASE ServeProtQueue(w)
    BY <2>4, ServeInv DEF PoolStep
  <2>5. CASE WlSelect(w)
    BY <2>5, SelectInv DEF PoolStep
  <2>6. CASE CopyOk(w)
    BY <2>6, CopyInv DEF PoolStep
  <2>7. CASE WlRace(w) \/ WlTargetFails(w) \/ WlNoVidBitflips(w) \/ WlSourceFails(w)
    BY <2>7, NotMovedInv DEF PoolStep
  <2>8. CASE WlError(w)
    BY <2>8, MoveErrorInv DEF PoolStep
  <2>9. CASE WlMoved(w)
    BY <2>9, MovedInv DEF PoolStep
  <2> QED BY <1>2, <2>1, <2>2, <2>3, <2>4, <2>5, <2>6, <2>7, <2>8, <2>9 DEF WorkerStep
<1>3. CASE UNCHANGED vars
  <2>1. UNCHANGED <<trees, queue, works, move, wlScheduled, flags, job, client, mapped, bad, freed>>
    BY <1>3 DEF vars
  <2>2. TypeOK'
    BY <2>1 DEF WlInv, TypeOK, trees, queue, move, flags, client
  <2>3. Apart' /\ Unique' /\ NoneLost'
    BY <2>1, SamePlaces DEF WlInv, OnePlace, Unique, places, trees, queue, move
  <2>4. Owners' = Owners /\ Owned' = Owned
    BY <2>1 DEF Owners, Owned, client
  <2>5. OwnInv'
    BY <2>1, <2>4 DEF WlInv, OwnInv, InPq, Queued, InErase, Moving, trees, queue, move, client
  <2>6. MoveInv' /\ JobInv'
    BY <2>1, <2>4 DEF WlInv, MoveInv, JobInv, move, client
  <2> QED BY <2>1, <2>2, <2>3, <2>4, <2>5, <2>6 DEF WlInv, OnePlace, PoolStep, PoolSame, trees
<1> QED BY <1>1, <1>2, <1>3 DEF Next

\* The inductive invariant holds in every reachable state.
THEOREM Invariance == Spec => []WlInv
<1>1. WlInv /\ [Next]_vars => WlInv'
  BY StepInv
<1> QED BY <1>1, InitInv, PTL DEF Spec

\* The structures of wl.c keep their types.
THEOREM TypeCorrect == Spec => []TypeOK
<1>1. WlInv => TypeOK
  BY DEF WlInv
<1> QED BY <1>1, Invariance, PTL

\* Every WL entry is in exactly one tree, queue slot, work, worker or move,
\* whatever the threads, the failures and the sizes: no double list_del(),
\* no entry in two trees, none lost.
THEOREM InOnePlace == Spec => []OnePlace
<1>1. WlInv => OnePlace
  BY DEF WlInv
<1> QED BY <1>1, Invariance, PTL

\* No PEB that holds data, or that EBA was given, is ever queued for erasure,
\* erased, handed out or marked bad.
THEOREM LiveNeverErased == Spec => []NoLiveErase
<1>1. WlInv => NoLiveErase
  BY DEF WlInv, OwnInv, NoLiveErase
<1> QED BY <1>1, Invariance, PTL

\* ubi_wl_put_peb() and ubi_wl_scrub_peb() find the entry of their PEB.
THEOREM EntryAlwaysFound == Spec => []EntryFound
<1>1. WlInv => EntryFound
  <2> SUFFICES ASSUME WlInv, NEW c \in Clients, pc[c] \in {"put", "putwait", "scrub"},
                      arg[c] \notin freed
               PROVE  arg[c] \in used \cup scrub \cup erroneous \cup InPq \cup Moving
    BY DEF EntryFound
  <2>1. arg[c] \in Owned
    BY DEF WlInv, OwnInv, Owned, Owners
  <2> QED BY <2>1 DEF WlInv, OwnInv
<1> QED BY <1>1, Invariance, PTL

\* The assertions of wl.c on the move in progress hold.
THEOREM MoveAssertsHold == Spec => []MoveAsserts
<1>1. WlInv => MoveAsserts
  <2> SUFFICES ASSUME WlInv PROVE MoveAsserts
    OBVIOUS
  <2>1. ASSUME NEW c \in Clients, pc[c] = "put", arg[c] = moveTo PROVE ~moveToPut
    <3>1. moveTo \in Owned
      BY <2>1 DEF Owned, Owners
    <3> QED BY <3>1 DEF WlInv, MoveInv
  <2> QED BY <2>1 DEF WlInv, MoveInv, MoveAsserts
<1> QED BY <1>1, Invariance, PTL

\* A step of the pool in terms of the sets is one in terms of the status.
LEMMA PoolSteps == ASSUME PoolStep PROVE [Pool!PoolNext]_PoolStatus
<1>1. \A q \in PEBs : PoolStatus[q] = IF q \in Owned THEN "held" ELSE IF q \in free THEN "free"
                                      ELSE IF q \in bad THEN "bad" ELSE "dirty"
  BY DEF PoolStatus
<1>2. \A q \in PEBs : PoolStatus'[q] = IF q \in Owned' THEN "held" ELSE IF q \in free' THEN "free"
                                       ELSE IF q \in bad' THEN "bad" ELSE "dirty"
  BY DEF PoolStatus
<1>3. DOMAIN PoolStatus = PEBs /\ DOMAIN PoolStatus' = PEBs
      /\ PoolStatus = [q \in PEBs |-> PoolStatus[q]] /\ PoolStatus' = [q \in PEBs |-> PoolStatus'[q]]
  BY DEF PoolStatus
<1>4. CASE PoolSame
  BY <1>4 DEF PoolSame, PoolStatus
<1>5. ASSUME NEW p \in PEBs, PoolGet(p) PROVE Pool!Get(p)
  BY <1>1, <1>2, <1>3, <1>5 DEF PoolGet, Pool!Get
<1>6. ASSUME NEW p \in PEBs, PoolPut(p) PROVE Pool!Put(p)
  BY <1>1, <1>2, <1>3, <1>6 DEF PoolPut, Pool!Put
<1>7. ASSUME NEW p \in PEBs, PoolReserve(p) PROVE Pool!Reserve(p)
  BY <1>1, <1>2, <1>3, <1>7 DEF PoolReserve, Pool!Reserve
<1>8. ASSUME NEW p \in PEBs, NEW q \in PEBs, PoolMove(p, q) PROVE Pool!Move(p, q)
  BY <1>1, <1>2, <1>3, <1>8 DEF PoolMove, Pool!Move
<1>9. ASSUME NEW p \in PEBs, PoolClean(p) PROVE Pool!Clean(p)
  BY <1>1, <1>2, <1>3, <1>9 DEF PoolClean, Pool!Clean
<1>10. ASSUME NEW p \in PEBs, PoolRetire(p) PROVE Pool!Retire(p)
  BY <1>1, <1>2, <1>3, <1>10 DEF PoolRetire, Pool!Retire
<1> QED BY <1>4, <1>5, <1>6, <1>7, <1>8, <1>9, <1>10 DEF PoolStep, Pool!PoolNext

\* The wear-leveling sub-system implements PebPool: to the EBA layer it is a
\* pool of PEBs that are handed out only when erased and erased only when put
\* or moved.
THEOREM Refinement == Spec => KeepsPromise
<1>1. Init => Pool!PoolInit
  <2> SUFFICES ASSUME Init PROVE Pool!PoolInit
    OBVIOUS
  <2>1. bad = {}
    BY DEF Init, InitScan
  <2> QED BY <2>1 DEF PoolStatus, Pool!PoolInit
<1>2. WlInv /\ [Next]_vars => [Pool!PoolNext]_PoolStatus
  BY StepInv, PoolSteps
<1> QED BY <1>1, <1>2, Invariance, PTL DEF Spec, KeepsPromise, Pool!PoolSpec

----------------------------------------------------------------------------
(* The wear-leveling work.                                                 *)

IsWl(j) == j.kind \in {"wl", "copy", "moved"}
WlJobsOf(jb) == {w \in Workers : IsWl(jb[w])}
WlQueuedOf(ws) == {i \in DOMAIN ws : ws[i].func = "wl"}

\* WlScheduledOnce without cardinalities: without wl_scheduled there is no
\* wear-leveling work, with it there is one, queued or executed.
OneWork(jb, ws, scheduled) ==
    IF scheduled
    THEN \/ WlQueuedOf(ws) = {} /\ \E w \in Workers : WlJobsOf(jb) = {w}
         \/ WlJobsOf(jb) = {} /\ \E i \in DOMAIN ws : WlQueuedOf(ws) = {i}
    ELSE WlJobsOf(jb) = {} /\ WlQueuedOf(ws) = {}

WorkTypes == /\ works \in Seq(WorkType) /\ job \in [Workers -> JobType] /\ wlScheduled \in BOOLEAN
ScheduledInv == WorkTypes /\ OneWork(job, works, wlScheduled)

\* Appending a work, an erase work or the wear-leveling work.
LEMMA AppendWork ==
    ASSUME NEW S, NEW ws \in Seq(S), NEW wrk
    PROVE  WlQueuedOf(Append(ws, wrk)) =
           IF wrk.func = "wl" THEN WlQueuedOf(ws) \cup {Len(ws) + 1} ELSE WlQueuedOf(ws)
<1> DEFINE r == Append(ws, wrk)
<1>1. /\ DOMAIN r = DOMAIN ws \cup {Len(ws) + 1} /\ Len(ws) + 1 \notin DOMAIN ws
      /\ \A i \in DOMAIN ws : r[i] = ws[i]
      /\ r[Len(ws) + 1] = wrk
  OBVIOUS
<1> HIDE DEF r
<1> QED BY <1>1 DEF WlQueuedOf, r

\* An erase work is not the wear-leveling work.
LEMMA AppendErase ==
    ASSUME NEW S, NEW ws \in Seq(S), NEW p, NEW t
    PROVE  LET r == Append(ws, EraseWork(p, t)) IN
           r \in Seq(S \cup {EraseWork(p, t)}) /\ WlQueuedOf(r) = WlQueuedOf(ws)
<1>1. EraseWork(p, t).func # "wl" BY DEF EraseWork
<1>2. Append(ws, EraseWork(p, t)) \in Seq(S \cup {EraseWork(p, t)})
  <2> DEFINE T == S \cup {EraseWork(p, t)}
  <2>1. EraseWork(p, t) \in T /\ ws \in Seq(T) OBVIOUS
  <2> HIDE DEF T
  <2>2. Append(ws, EraseWork(p, t)) \in Seq(T) BY <2>1
  <2> QED BY <2>2 DEF T
<1> QED BY <1>1, <1>2, AppendWork

\* Taking the oldest work out of a queue with at most one wear-leveling work.
LEMMA PopWork ==
    ASSUME NEW ws \in Seq(WorkType), ws # <<>>
    PROVE  /\ Head(ws).func = "wl" => \A i : WlQueuedOf(ws) = {i} => WlQueuedOf(Tail(ws)) = {}
           /\ Head(ws).func # "wl" =>
                /\ WlQueuedOf(ws) = {} => WlQueuedOf(Tail(ws)) = {}
                /\ \A i \in DOMAIN ws : WlQueuedOf(ws) = {i} =>
                        i - 1 \in DOMAIN Tail(ws) /\ WlQueuedOf(Tail(ws)) = {i - 1}
           /\ Head(ws).func = "wl" => WlQueuedOf(ws) # {}
<1> DEFINE r == Tail(ws)
<1>1. /\ Head(ws) = ws[1] /\ 1 \in DOMAIN ws
      /\ r \in Seq(WorkType) /\ Len(r) = Len(ws) - 1 /\ Len(ws) \in Nat /\ Len(r) \in Nat
      /\ DOMAIN ws = 1 .. Len(ws) /\ DOMAIN r = 1 .. Len(r)
      /\ \A i \in DOMAIN r : r[i] = ws[i + 1]
  OBVIOUS
<1> HIDE DEF r
<1>2. \A i \in DOMAIN r : i + 1 \in DOMAIN ws /\ i + 1 # 1 /\ r[i] = ws[i + 1]
  BY <1>1
<1>3. \A j \in DOMAIN ws : j = 1 \/ (j - 1 \in DOMAIN r /\ r[j - 1] = ws[j])
  BY <1>1
<1>4. ASSUME Head(ws).func = "wl" PROVE 1 \in WlQueuedOf(ws)
  BY <1>1, <1>4 DEF WlQueuedOf
<1>5. ASSUME Head(ws).func = "wl", NEW i, WlQueuedOf(ws) = {i} PROVE WlQueuedOf(r) = {}
  <2>1. i = 1 BY <1>4, <1>5
  <2>2. ASSUME NEW k \in WlQueuedOf(r) PROVE FALSE
    <3>1. k \in DOMAIN r /\ r[k].func = "wl" BY DEF WlQueuedOf
    <3>2. k + 1 \in WlQueuedOf(ws) /\ k + 1 # 1 BY <3>1, <1>2 DEF WlQueuedOf
    <3> QED BY <3>2, <2>1, <1>5
  <2> QED BY <2>2
<1>6. ASSUME WlQueuedOf(ws) = {} PROVE WlQueuedOf(r) = {}
  BY <1>2, <1>6 DEF WlQueuedOf
<1>7. ASSUME Head(ws).func # "wl", NEW i \in DOMAIN ws, WlQueuedOf(ws) = {i}
      PROVE  i - 1 \in DOMAIN r /\ WlQueuedOf(r) = {i - 1}
  <2>1. ws[i].func = "wl" /\ i # 1 BY <1>1, <1>7 DEF WlQueuedOf
  <2>2. i - 1 \in DOMAIN r /\ r[i - 1] = ws[i] BY <2>1, <1>3
  <2>3. i - 1 \in WlQueuedOf(r) BY <2>1, <2>2 DEF WlQueuedOf
  <2>4. ASSUME NEW k \in WlQueuedOf(r) PROVE k = i - 1
    <3>1. k \in DOMAIN r /\ r[k].func = "wl" BY DEF WlQueuedOf
    <3>2. k + 1 \in WlQueuedOf(ws) BY <3>1, <1>2 DEF WlQueuedOf
    <3>3. k + 1 = i BY <3>2, <1>7
    <3> QED BY <3>1, <3>3, <1>1
  <2> QED BY <2>2, <2>3, <2>4
<1> QED BY <1>4, <1>5, <1>6, <1>7 DEF r

\* Giving worker w something else to do.
LEMMA JobChange ==
    ASSUME NEW jb \in [Workers -> JobType], NEW w \in Workers, NEW j
    PROVE  LET r == [jb EXCEPT ![w] = j] IN
           /\ IsWl(j) => WlJobsOf(r) = WlJobsOf(jb) \cup {w}
           /\ ~IsWl(j) => WlJobsOf(r) = WlJobsOf(jb) \ {w}
BY DEF WlJobsOf

\* The ways in which a step changes the works, the jobs and wl_scheduled.
WorkSame ==
    /\ WlQueuedOf(works') = WlQueuedOf(works) /\ DOMAIN works \subseteq DOMAIN works'
    /\ WlJobsOf(job') = WlJobsOf(job)
    /\ wlScheduled' = wlScheduled
WorkAdded ==
    /\ ~wlScheduled /\ wlScheduled'
    /\ \E i \in DOMAIN works' : WlQueuedOf(works') = WlQueuedOf(works) \cup {i}
    /\ WlJobsOf(job') = WlJobsOf(job)
WorkEnds(w) ==
    /\ IsWl(job[w]) /\ ~wlScheduled'
    /\ WlQueuedOf(works') = WlQueuedOf(works)
    /\ WlJobsOf(job') = WlJobsOf(job) \ {w}

\* Each of these keeps OneWork.
LEMMA OneWorkKept ==
    ASSUME ScheduledInv, NEW w \in Workers, WorkSame \/ WorkAdded \/ WorkEnds(w)
    PROVE  OneWork(job', works', wlScheduled')
<1>1. CASE WorkSame BY <1>1 DEF ScheduledInv, OneWork, WorkSame
<1>2. CASE WorkAdded BY <1>2 DEF ScheduledInv, OneWork, WorkAdded
<1>3. CASE WorkEnds(w)
  <2>1. w \in WlJobsOf(job) BY <1>3 DEF WlJobsOf, WorkEnds
  <2>2. wlScheduled /\ WlQueuedOf(works) = {} /\ WlJobsOf(job) = {w}
    BY <2>1 DEF ScheduledInv, OneWork
  <2> QED BY <1>3, <2>2 DEF OneWork, WorkEnds
<1> QED BY <1>1, <1>2, <1>3

\* ensure_wear_leveling() with memory, and without.
LEMMA EnsureWork ==
    ASSUME ScheduledInv, EnsureWearLeveling \/ EnsureNoMem, WlJobsOf(job') = WlJobsOf(job)
    PROVE  WorkSame \/ WorkAdded
<1>1. CASE UNCHANGED <<works, wlScheduled>> BY <1>1 DEF WorkSame
<1>2. CASE ~wlScheduled /\ wlScheduled' = TRUE /\ works' = Append(works, WlWork)
  <2>1. WlQueuedOf(works') = WlQueuedOf(works) \cup {Len(works) + 1}
    BY <1>2, AppendWork DEF WlWork, ScheduledInv, WorkTypes
  <2>2. Len(works) + 1 \in DOMAIN works' BY <1>2 DEF ScheduledInv, WorkTypes
  <2> QED BY <1>2, <2>1, <2>2 DEF WorkAdded
<1> QED BY <1>1, <1>2 DEF EnsureWearLeveling, EnsureNoMem

\* do_work() takes the oldest work from the queue: if it is the
\* wear-leveling work, its worker has it from now on.
LEMMA StartOne ==
    ASSUME ScheduledInv, NEW w \in Workers, StartWork(w)
    PROVE  OneWork(job', works', wlScheduled')
<1> DEFINE wrk == Head(works)
           j == [kind |-> wrk.func, e |-> wrk.e, flag |-> wrk.torture]
<1>1. /\ works \in Seq(WorkType) /\ works # <<>> /\ works' = Tail(works)
      /\ job' = [job EXCEPT ![w] = j] /\ wlScheduled' = wlScheduled
      /\ job \in [Workers -> JobType] /\ ~IsWl(job[w])
  BY DEF StartWork, MayWork, ScheduledInv, WorkTypes, IsWl, NoJob
<1>2. wrk \in WorkType BY <1>1
<1>3. wrk.func \in {"erase", "wl"} BY <1>2 DEF WorkType, WlWork
<1>4. IsWl(j) <=> wrk.func = "wl" BY <1>3 DEF IsWl
<1>5. w \notin WlJobsOf(job) BY <1>1 DEF WlJobsOf
<1>6. WlJobsOf(job') = IF wrk.func = "wl" THEN WlJobsOf(job) \cup {w} ELSE WlJobsOf(job)
  <2> HIDE DEF j, wrk
  <2>1. WlJobsOf(job) \ {w} = WlJobsOf(job) BY <1>5
  <2>2. /\ IsWl(j) => WlJobsOf(job') = WlJobsOf(job) \cup {w}
        /\ ~IsWl(j) => WlJobsOf(job') = WlJobsOf(job) \ {w}
    BY <1>1, JobChange
  <2> QED BY <2>1, <2>2, <1>4
<1> HIDE DEF wrk, j
<1>7. CASE wrk.func = "wl"
  <2>1. WlQueuedOf(works) # {} BY <1>1, <1>7, PopWork DEF wrk
  <2>2. wlScheduled /\ WlJobsOf(job) = {} /\ \E i \in DOMAIN works : WlQueuedOf(works) = {i}
    BY <2>1 DEF ScheduledInv, OneWork
  <2>3. WlQueuedOf(works') = {} BY <1>1, <1>7, <2>2, PopWork DEF wrk
  <2> QED BY <1>1, <1>6, <1>7, <2>2, <2>3 DEF OneWork
<1>8. CASE wrk.func # "wl"
  <2>1. CASE WlQueuedOf(works) = {}
    <3>1. WlQueuedOf(works') = {} BY <2>1, <1>1, <1>8, PopWork DEF wrk
    <3> QED BY <3>1, <2>1, <1>1, <1>6, <1>8 DEF ScheduledInv, OneWork
  <2>2. CASE WlQueuedOf(works) # {}
    <3>1. wlScheduled /\ WlJobsOf(job) = {} /\ \E i \in DOMAIN works : WlQueuedOf(works) = {i}
      BY <2>2 DEF ScheduledInv, OneWork
    <3>2. \E i \in DOMAIN works' : WlQueuedOf(works') = {i} BY <3>1, <1>1, <1>8, PopWork DEF wrk
    <3> QED BY <3>1, <3>2, <1>1, <1>6, <1>8 DEF OneWork
  <2> QED BY <2>1, <2>2
<1> QED BY <1>7, <1>8

\* A worker that goes on with the same kind of work.
LEMMA JobStays ==
    ASSUME ScheduledInv, NEW w \in Workers, NEW j, job' = [job EXCEPT ![w] = j], IsWl(j) <=> IsWl(job[w])
    PROVE  WlJobsOf(job') = WlJobsOf(job)
BY DEF ScheduledInv, WorkTypes, WlJobsOf

\* The end of a work takes its worker out of WlJobs if it was the
\* wear-leveling work.
LEMMA JobLeaves ==
    ASSUME ScheduledInv, NEW w \in Workers, DoneOk(w) \/ DoneErr(w)
    PROVE  WlJobsOf(job') = IF IsWl(job[w]) THEN WlJobsOf(job) \ {w} ELSE WlJobsOf(job)
<1>1. job' = [job EXCEPT ![w] = NoJob] /\ ~IsWl(NoJob) BY DEF DoneOk, DoneErr, NoJob, IsWl
<1>2. CASE IsWl(job[w]) BY <1>1, <1>2 DEF WlJobsOf, ScheduledInv, WorkTypes
<1>3. CASE ~IsWl(job[w]) BY <1>1, <1>3, JobStays
<1> QED BY <1>2, <1>3

\* Appending the erase works of PEBs.
LEMMA EraseAdded ==
    ASSUME ScheduledInv, NEW p, NEW t, works' = Append(works, EraseWork(p, t))
    PROVE  WlQueuedOf(works') = WlQueuedOf(works) /\ DOMAIN works \subseteq DOMAIN works'
<1>1. works \in Seq(WorkType) BY DEF ScheduledInv, WorkTypes
<1>2. DOMAIN works \subseteq DOMAIN works' BY <1>1
<1> QED BY <1>1, <1>2, AppendErase

\* Of what clients do, only ensure_wear_leveling() is about that work.
LEMMA ClientOne ==
    ASSUME ScheduledInv, NEW c \in Clients, ClientStep(c)
    PROVE  WorkSame \/ WorkAdded
<1>1. CASE PutUnlink(c)
  <2>1. job' = job /\ wlScheduled' = wlScheduled BY <1>1 DEF PutUnlink
  <2>2. CASE UNCHANGED works BY <2>1, <2>2 DEF WorkSame
  <2>3. CASE works' = Append(works, EraseWork(arg[c], tort[c] \/ arg[c] \in erroneous \ (used \cup scrub)))
    BY <2>1, <2>3, EraseAdded DEF WorkSame
  <2> QED BY <1>1, <2>2, <2>3 DEF PutUnlink
<1>2. CASE ScrubEnsure(c)
  BY <1>2, EnsureWork DEF ScrubEnsure
<1>3. CASE ~PutUnlink(c) /\ ~ScrubEnsure(c)
  <2>1. UNCHANGED <<works, job, wlScheduled>>
    BY <1>3 DEF ClientStep, GetBegin, GetNoSpace, GetProduce, GetSpin, GetTake, GetErase, EbaMap, EbaWriteFails,
       EbaUnmap, EbaBitflip, PutWaitMove, PutMoveTarget, ScrubNothing, ScrubRetry, ScrubLink, FlushBegin, FlushStep, vars
  <2> QED BY <2>1 DEF WorkSame
<1> QED BY <1>1, <1>2, <1>3

\* A worker keeps the number of works, schedules the one, or ends it.
LEMMA WorkerOne ==
    ASSUME ScheduledInv, "nomem" \notin Faults, NEW w \in Workers, WorkerStep(w), ~StartWork(w)
    PROVE  WorkSame \/ WorkAdded \/ WorkEnds(w)
<1>1. CASE EraseTransient(w)
  <2>1. WlJobsOf(job') = WlJobsOf(job) BY <1>1, JobLeaves DEF EraseTransient, IsWl
  <2> QED BY <1>1, <2>1, EraseAdded DEF EraseTransient, WorkSame
<1>2. CASE EraseMarkBad(w) \/ EraseFatal(w)
  <2>1. UNCHANGED <<works, wlScheduled>> /\ ~IsWl(job[w]) /\ (DoneOk(w) \/ DoneErr(w))
    BY <1>2 DEF EraseMarkBad, EraseFatal, IsWl
  <2>2. WlJobsOf(job') = WlJobsOf(job) BY <2>1, JobLeaves
  <2> QED BY <2>1, <2>2 DEF WorkSame
<1>3. CASE EraseOk(w) \/ ServeProtQueue(w)
  <2>1. ~IsWl(job[w]) /\ UNCHANGED <<works, wlScheduled>> BY <1>3 DEF EraseOk, ServeProtQueue, IsWl
  <2>2. PICK j : job' = [job EXCEPT ![w] = j] /\ ~IsWl(j) BY <1>3 DEF EraseOk, ServeProtQueue, IsWl, Job
  <2>3. WlJobsOf(job') = WlJobsOf(job) BY <2>1, <2>2, JobStays
  <2> QED BY <2>1, <2>3 DEF WorkSame
<1>4. CASE EraseEnsure(w)
  <2>1. ~IsWl(job[w]) /\ (DoneOk(w) \/ DoneErr(w)) /\ (EnsureWearLeveling \/ EnsureNoMem)
    BY <1>4 DEF EraseEnsure, IsWl
  <2>2. WlJobsOf(job') = WlJobsOf(job) BY <2>1, JobLeaves
  <2> QED BY <2>1, <2>2, EnsureWork
<1>5. CASE WlNoMem(w)
  BY <1>5 DEF WlNoMem
<1>6. CASE WlCancel(w) \/ WlError(w)
  <2>1. IsWl(job[w]) /\ ~wlScheduled' /\ UNCHANGED works /\ (DoneOk(w) \/ DoneErr(w))
    BY <1>6 DEF WlCancel, WlError, IsWl
  <2>2. WlJobsOf(job') = WlJobsOf(job) \ {w} BY <2>1, JobLeaves
  <2> QED BY <2>1, <2>2 DEF WorkEnds
<1>7. CASE WlSelect(w) \/ CopyOk(w)
  <2>1. IsWl(job[w]) /\ UNCHANGED <<works, wlScheduled>> BY <1>7 DEF WlSelect, CopyOk, IsWl
  <2>2. PICK j : job' = [job EXCEPT ![w] = j] /\ IsWl(j) BY <1>7 DEF WlSelect, CopyOk, IsWl, Job
  <2>3. WlJobsOf(job') = WlJobsOf(job) BY <2>1, <2>2, JobStays
  <2> QED BY <2>1, <2>3 DEF WorkSame
<1>8. CASE WlRace(w) \/ WlTargetFails(w) \/ WlNoVidBitflips(w) \/ WlSourceFails(w)
  <2>1. IsWl(job[w]) /\ \E t : WlRelease(w, t)
    BY <1>8 DEF WlRace, WlTargetFails, WlNoVidBitflips, WlSourceFails, IsWl
  <2>2. ~wlScheduled' /\ DoneOk(w) /\ \E t : works' = Append(works, EraseWork(moveTo, t))
    BY <2>1 DEF WlRelease
  <2>3. WlJobsOf(job') = WlJobsOf(job) \ {w} BY <2>1, <2>2, JobLeaves
  <2>4. WlQueuedOf(works') = WlQueuedOf(works) BY <2>2, EraseAdded
  <2> QED BY <2>1, <2>2, <2>3, <2>4 DEF WorkEnds
<1>9. CASE WlMoved(w)
  <2> DEFINE one == Append(works, EraseWork(moveFrom, FALSE))
  <2>1. /\ IsWl(job[w]) /\ ~wlScheduled' /\ DoneOk(w)
        /\ works' = IF moveToPut THEN Append(one, EraseWork(moveTo, FALSE)) ELSE one
    BY <1>9 DEF WlMoved, IsWl
  <2>2. WlJobsOf(job') = WlJobsOf(job) \ {w} BY <2>1, JobLeaves
  <2>3. works \in Seq(WorkType) BY DEF ScheduledInv, WorkTypes
  <2>4. one \in Seq(WorkType \cup {EraseWork(moveFrom, FALSE)}) /\ WlQueuedOf(one) = WlQueuedOf(works)
    BY <2>3, AppendErase
  <2> HIDE DEF one
  <2>5. WlQueuedOf(Append(one, EraseWork(moveTo, FALSE))) = WlQueuedOf(one)
    <3>1. PICK T : one \in Seq(T) BY <2>4
    <3>2. EraseWork(moveTo, FALSE).func # "wl" BY DEF EraseWork
    <3> QED BY <3>1, <3>2, AppendWork
  <2>6. WlQueuedOf(works') = WlQueuedOf(works) BY <2>1, <2>4, <2>5
  <2> QED BY <2>1, <2>2, <2>6 DEF WorkEnds
<1> QED BY <1>1, <1>2, <1>3, <1>4, <1>5, <1>6, <1>7, <1>8, <1>9 DEF WorkerStep

\* ubi_wl_init_scan() schedules at most one.
LEMMA InitOne == Init => OneWork(job, works, wlScheduled)
<1> SUFFICES ASSUME Init PROVE OneWork(job, works, wlScheduled)
  OBVIOUS
<1>2. PICK u \in SUBSET PEBs : \E s \in SUBSET u, er \in ListsOf(PEBs \ u), wl \in BOOLEAN :
        InitScan(u, s, er, wl)
  BY DEF Init
<1>7. PICK s \in SUBSET u, er \in ListsOf(PEBs \ u), wl \in BOOLEAN : InitScan(u, s, er, wl)
  BY <1>2
<1>1. WlJobsOf(job) = {} BY <1>7 DEF InitScan, WlJobsOf, IsWl, NoJob
<1> DEFINE ws == Erasures(er)
<1>3. ws \in Seq(WorkType) /\ WlQueuedOf(ws) = {}
  BY ScanList DEF WlQueuedOf
<1>4. works = IF wlScheduled THEN Append(ws, WlWork) ELSE ws
  BY <1>7 DEF InitScan
<1> HIDE DEF ws
<1>5. CASE ~wlScheduled
  BY <1>1, <1>3, <1>4, <1>5 DEF OneWork
<1>6. CASE wlScheduled
  <2>1. WlQueuedOf(works) = {Len(ws) + 1}
    BY <1>3, <1>4, <1>6, AppendWork DEF WlWork
  <2>2. Len(ws) + 1 \in DOMAIN works
    BY <2>1 DEF WlQueuedOf
  <2> QED BY <1>1, <1>6, <2>1, <2>2 DEF OneWork
<1> QED BY <1>5, <1>6, <1>7 DEF InitScan

\* Without allocation failures each step keeps the one wear-leveling work.
LEMMA StepOne ==
    ASSUME "nomem" \notin Faults, TypeOK, OneWork(job, works, wlScheduled), [Next]_vars
    PROVE  OneWork(job, works, wlScheduled)'
<1>1. ScheduledInv BY DEF ScheduledInv, WorkTypes, TypeOK
<1>2. ASSUME NEW c \in Clients, ClientStep(c) PROVE OneWork(job', works', wlScheduled')
  BY <1>1, <1>2, ClientOne, OneWorkKept DEF Workers
<1>3. ASSUME NEW w \in Workers, WorkerStep(w) PROVE OneWork(job', works', wlScheduled')
  <2>1. CASE StartWork(w) BY <2>1, <1>1, StartOne
  <2>2. CASE ~StartWork(w) BY <2>2, <1>1, <1>3, WorkerOne, OneWorkKept
  <2> QED BY <2>1, <2>2
<1>4. CASE UNCHANGED vars
  <2>1. UNCHANGED <<works, job, wlScheduled>> BY <1>4 DEF vars
  <2> QED BY <2>1
<1> QED BY <1>2, <1>3, <1>4 DEF Next

\* With at most one wear-leveling work, wl_scheduled counts it.
LEMMA OneWorkCounts == OneWork(job, works, wlScheduled) => WlScheduledOnce
<1> SUFFICES ASSUME OneWork(job, works, wlScheduled) PROVE WlScheduledOnce
  OBVIOUS
<1>1. WlJobs = WlJobsOf(job) /\ WlQueued = WlQueuedOf(works)
  BY DEF WlJobs, WlQueued, WlJobsOf, WlQueuedOf, IsWl
<1>2. Cardinality({}) = 0 /\ \A x : Cardinality({x}) = 1 BY FS_EmptySet, FS_Singleton
<1>3. CASE ~wlScheduled
  <2>1. WlJobs = {} /\ WlQueued = {} BY <1>1, <1>3 DEF OneWork
  <2> QED BY <2>1, <1>2, <1>3 DEF WlScheduledOnce
<1>4. CASE wlScheduled
  <2>1. \/ WlQueued = {} /\ \E w : WlJobs = {w}
        \/ WlJobs = {} /\ \E i : WlQueued = {i}
    BY <1>1, <1>4 DEF OneWork
  <2>2. \/ Cardinality(WlQueued) = 0 /\ Cardinality(WlJobs) = 1
        \/ Cardinality(WlJobs) = 0 /\ Cardinality(WlQueued) = 1
    BY <2>1, <1>2
  <2> QED BY <2>2, <1>4 DEF WlScheduledOnce
<1> QED BY <1>3, <1>4

\* Without allocation failures wl_scheduled is set exactly while one
\* wear-leveling work is queued or executed: with any number of threads that
\* execute works, no second move is scheduled and none is forgotten.
THEOREM ScheduledOnce == ASSUME "nomem" \notin Faults PROVE Spec => []WlScheduledOnce
<1> DEFINE One == OneWork(job, works, wlScheduled)
<1>1. Init => One BY InitOne
<1>2. TypeOK /\ One /\ [Next]_vars => One' BY StepOne
<1>3. One => WlScheduledOnce BY OneWorkCounts
<1> HIDE DEF One
<1> QED BY <1>1, <1>2, <1>3, TypeCorrect, PTL DEF Spec
=============================================================================
