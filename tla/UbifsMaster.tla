---------------------------- MODULE UbifsMaster ----------------------------
(***************************************************************************)
(* The master node of UBIFS (src/modules/ubifs: master.c, the first part   *)
(* of recovery.c, and mounting, re-mounting and un-mounting of super.c).   *)
(*                                                                         *)
(* The node is written twice, into two LEBs, each write behind the last    *)
(* one; when a LEB is full both are started anew, one after the other.  A  *)
(* cut of power may leave a torn node behind the last good one, or one of  *)
(* the LEBs un-mapped, or un-mapped but back with what it held before,     *)
(* because UBI erases in the background.                                   *)
(*                                                                         *)
(* A step is one operation on the flash.  The body of the node, what it    *)
(* says about the file system, is the business of the modules that extend  *)
(* this one, and so is the order in which the steps are taken.             *)
(***************************************************************************)
EXTENDS Integers, Sequences, SequencesExt

CONSTANTS
    Slots,      \* how many master nodes a LEB holds
    Exact       \* whether they fill it: leb_size is a multiple of their size

ASSUME MasterSlots == Slots \in Nat \ {0, 1} /\ Exact \in BOOLEAN

VARIABLES
    mleb,           \* what the two master LEBs hold
    mold,           \* what an un-mapped LEB held, <<>> when it is gone
    mst,            \* c->mst_node
    moffs,          \* c->mst_offs, counted in nodes from 1
    wpc,            \* the next flash operation on the master area
    goal,           \* what the master node is being written for
    life,           \* how far the file system is mounted
    ro_mount, need_recovery,
    rcvrd           \* c->rcvrd_mst_node is to be written at the re-mount

mvars == <<mleb, mold, mst, moffs, wpc, goal, life, ro_mount, need_recovery,
           rcvrd>>

Areas == 1 .. 2

Node(body, dirty, rcvry) == [body |-> body, dirty |-> dirty, rcvry |-> rcvry]

\* Torn nodes, with the common header intact and without.
Half == [torn |-> "half"]
Junk == [torn |-> "junk"]
Good(s) == s \notin {Half, Junk}

(***************************************************************************)
(* What get_master_node() makes of one LEB: the place of the last node, 0  *)
(* when there is none, and whether something torn follows.  Only the last  *)
(* place can be torn, as nothing is written behind it.                     *)
(***************************************************************************)
Headed(leb) ==
    IF leb # <<>> /\ leb[Len(leb)] = Junk THEN Len(leb) - 1 ELSE Len(leb)

LastNode(leb) ==
    LET n == Headed(leb)
    IN IF n = 0 \/ Good(leb[n]) THEN n
       ELSE IF n > 1 /\ Good(leb[n - 1]) THEN n - 1 ELSE 0

Torn(leb) == Len(leb) > LastNode(leb)

MasterFound(leb) ==
    Len(leb) =< LastNode(leb) + 1 /\ (Headed(leb) < 2 \/ LastNode(leb) > 0)

\* Mutant of MasterRule: the older of two copies is taken.
MasterRuleOlder(at1, at2, cor1, rcvry1, same) ==
    IF at1 = 0 THEN 2
    ELSE IF at2 = 0 THEN 1
    ELSE IF at2 + 1 = at1 THEN 2 ELSE 1

(***************************************************************************)
(* Which LEB ubifs_recover_master_node() takes the node from, 0 when it    *)
(* gives up: by where the last nodes are, whether something torn follows   *)
(* the first, whether recovery wrote it, and whether both are the same.    *)
(***************************************************************************)
MasterRule(at1, at2, cor1, rcvry1, same) ==
    IF at1 = 0 THEN IF at2 = Slots THEN 2 ELSE 0
    ELSE IF rcvry1 /\ at1 = 1 /\ ~cor1 THEN 1
    ELSE IF at2 = 0 THEN IF at1 = 1 /\ ~cor1 THEN 1 ELSE 0
    ELSE IF at1 = at2 THEN IF same THEN 1 ELSE 0
    ELSE IF /\ ~cor1
            /\ at2 + 1 = at1 \/ (at1 = 1 /\ at2 = Slots /\ Exact)
         THEN 1 ELSE 0

RecoverFrom(f) ==
    LET at1 == LastNode(f[1])
        at2 == LastNode(f[2])
    IN IF \A k \in Areas : MasterFound(f[k])
       THEN MasterRule(at1, at2, Torn(f[1]), at1 > 0 /\ f[1][at1].rcvry,
                       at1 > 0 /\ at2 > 0 /\ f[1][at1] = f[2][at2])
       ELSE 0

\* scan_for_master() finds two clean LEBs that say the same.
ScanAgrees(f) ==
    /\ \A k \in Areas : f[k] # <<>> /\ \A j \in DOMAIN f[k] : Good(f[k][j])
    /\ Len(f[1]) = Len(f[2]) /\ Last(f[1]) = Last(f[2])

Readable(f) == ScanAgrees(f) \/ RecoverFrom(f) # 0

ReadFrom(f) == IF ScanAgrees(f) THEN 1 ELSE RecoverFrom(f)

\* The node a mount takes; ubifs_read_master() clears the recovery flag.
Taken(leb) == [leb[LastNode(leb)] EXCEPT !.rcvry = FALSE]
ReadBack(f) == IF ReadFrom(f) = 1 THEN Taken(f[1]) ELSE Taken(f[2])

-----------------------------------------------------------------------------
MasterInit(body) ==
    /\ mleb = [k \in Areas |-> <<Node(body, FALSE, FALSE)>>]
    /\ mold = [k \in Areas |-> <<>>]
    /\ mst = Node(body, FALSE, FALSE)
    /\ moffs = 1
    /\ wpc = "idle" /\ goal = "none" /\ life = "off"
    /\ ro_mount = FALSE /\ need_recovery = FALSE /\ rcvrd = FALSE

\* ubifs_write_master() is called with this node.
WriteMaster(node, for) ==
    /\ wpc = "idle"
    /\ mst' = node
    /\ goal' = for
    /\ moffs' = IF moffs = Slots THEN 1 ELSE moffs + 1
    /\ wpc' = IF moffs = Slots THEN "unmap1" ELSE "write1"

Unmap(k, next) ==
    /\ mold' = [mold EXCEPT ![k] = mleb[k]]
    /\ mleb' = [mleb EXCEPT ![k] = <<>>]
    /\ wpc' = next

Put(k, leb, next) ==
    /\ mleb' = [mleb EXCEPT ![k] = leb]
    /\ mold' = [mold EXCEPT ![k] = <<>>]
    /\ wpc' = next

\* The operations of ubifs_write_master() on the flash.
WriteStep ==
    /\ \/ wpc = "unmap1" /\ Unmap(1, "write1")
       \/ /\ wpc = "write1"
          /\ Put(1, Append(mleb[1], mst),
                 IF moffs = 1 THEN "unmap2" ELSE "write2")
       \/ wpc = "unmap2" /\ Unmap(2, "write2")
       \/ wpc = "write2" /\ Put(2, Append(mleb[2], mst), "idle")
    /\ UNCHANGED <<mst, moffs, goal, life, ro_mount, need_recovery, rcvrd>>

(***************************************************************************)
(* ubifs_read_master() at mount.  Recovery is done on the flash, unless    *)
(* the mount is read-only, when it is put off until the re-mount.          *)
(***************************************************************************)
ReadMaster(ro) ==
    /\ life = "off" /\ wpc = "idle"
    /\ ro_mount' = ro
    /\ IF ~Readable(mleb)
       THEN /\ life' = "dead"
            /\ UNCHANGED <<mst, moffs, wpc, goal, need_recovery, rcvrd>>
       ELSE LET node == ReadBack(mleb)
                rec == ~ScanAgrees(mleb)
            IN /\ life' = "mounting"
               /\ mst' = IF rec /\ ro THEN [node EXCEPT !.dirty = TRUE]
                                      ELSE node
               /\ moffs' = IF rec THEN 1 ELSE Len(mleb[1])
               /\ rcvrd' = (rec /\ ro)
               /\ need_recovery' = mst'.dirty
               /\ wpc' = IF rec /\ ~ro THEN "rcv1" ELSE "idle"
               /\ goal' = IF ro THEN "mount" ELSE "dirty"
    /\ UNCHANGED <<mleb, mold>>

\* A mutant: one copy is enough.
RecoverStepOnce ==
    /\ wpc = "rcv1" /\ Put(1, <<[mst EXCEPT !.rcvry = TRUE]>>, "idle")
    /\ UNCHANGED <<mst, moffs, goal, life, ro_mount, need_recovery, rcvrd>>

\* write_rcvrd_mst_node(): both LEBs are replaced atomically.
RecoverStep ==
    /\ \/ wpc = "rcv1" /\ Put(1, <<[mst EXCEPT !.rcvry = TRUE]>>, "rcv2")
       \/ wpc = "rcv2" /\ Put(2, <<[mst EXCEPT !.rcvry = TRUE]>>, "idle")
    /\ UNCHANGED <<mst, moffs, goal, life, ro_mount, need_recovery, rcvrd>>

\* A read-write mount marks the file system dirty before it changes it.
MarkDirty ==
    /\ wpc = "idle" /\ goal = "dirty"
    /\ WriteMaster([mst EXCEPT !.dirty = TRUE], "mount")
    /\ UNCHANGED <<mleb, mold, life, ro_mount, need_recovery, rcvrd>>

(***************************************************************************)
(* ubifs_put_super() and ubifs_remount_ro() leave a clean master node.     *)
(***************************************************************************)
MarkClean(body, for) ==
    /\ life = "rw"
    /\ WriteMaster(Node(body, FALSE, FALSE), for)
    /\ UNCHANGED <<mleb, mold, life, ro_mount, need_recovery, rcvrd>>

\* Recovered or not, the memory of an un-mounted file system is gone.
Off == life' = "off" /\ goal' = "none" /\ ro_mount' = FALSE
       /\ need_recovery' = FALSE /\ rcvrd' = FALSE /\ wpc' = "idle"
       /\ mst' = mst /\ moffs' = 1

(***************************************************************************)
(* What the flash may hold after a cut.  A write in progress leaves a torn *)
(* node or nothing, and an un-mapped LEB may be back.                      *)
(***************************************************************************)
Writing(k) == wpc = IF k = 1 THEN "write1" ELSE "write2"

AfterCut(k) ==
    {mleb[k]} \cup (IF mleb[k] = <<>> THEN {mold[k]} ELSE {})
        \cup (IF Writing(k) THEN {Append(mleb[k], s) : s \in {Half, Junk}}
              ELSE {})

MasterCut ==
    /\ \E a \in AfterCut(1), b \in AfterCut(2) : mleb' = <<a, b>>
    /\ mold' = [k \in Areas |-> <<>>]
    /\ Off

-----------------------------------------------------------------------------
(***************************************************************************)
(* Properties.                                                             *)
(***************************************************************************)

\* A node is only ever written to erased flash: the offset in memory and what
\* the LEB holds agree, after every recovery and re-mount.
WritesErased ==
    /\ wpc = "write1" => Len(mleb[1]) = moffs - 1
    /\ wpc = "write2" => Len(mleb[2]) = moffs - 1

\* The master area can be read whenever the power is cut, and what it says
\* does not depend on how the cut leaves it: the two copies and the rules of
\* ubifs_recover_master_node() see to it.
MasterReadable ==
    /\ WritesErased
    /\ life # "dead" => Readable(mleb)
    /\ life # "dead" /\ wpc # "idle" =>
        \A a \in AfterCut(1), b \in AfterCut(2) :
            /\ Readable(<<a, b>>)
            /\ ReadBack(<<a, b>>) = ReadBack(mleb)

\* The two copies implement one register that is written atomically
\* (ubifs_write_master(), recovery.c).
Register == INSTANCE MasterRegister
    WITH value <- ReadBack(mleb),
         pending <- IF wpc \in {"unmap1", "write1", "rcv1"} THEN {mst} ELSE {}

Atomic == Register!Spec

=============================================================================
