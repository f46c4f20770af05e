-------------------------- MODULE UbifsMasterProofs --------------------------
(***************************************************************************)
(* Proofs about the master area (UbifsMaster) under everything the file    *)
(* system of UbifsOrphan does, for LEBs of any number of nodes, any number *)
(* of inodes, cuts, commits and mounts.                                    *)
(*                                                                         *)
(* First, what a mount reads from the few kinds of pairs of LEBs that      *)
(* occur, with and without something torn at the end.  Then the invariant: *)
(* which of these pairs is on the flash at each operation of a write or of *)
(* a recovery.  That no step leaves them, and the value that is read, give *)
(* both theorems.                                                          *)
(***************************************************************************)
EXTENDS UbifsOrphan, SequenceTheorems, TLAPS

(***************************************************************************)
(* The contents of a LEB: nodes, and possibly something torn behind them.  *)
(***************************************************************************)
IsNode(n) == n = Node(n.body, n.dirty, n.rcvry) /\ n.rcvry \in BOOLEAN

Leb(s) ==
    /\ s \in Seq(Range(s)) /\ Len(s) <= Slots
    /\ \A j \in 1 .. Len(s) : IF Good(s[j]) THEN IsNode(s[j]) ELSE j = Len(s)

Clean(s) == Leb(s) /\ \A j \in 1 .. Len(s) : Good(s[j])

\* n nodes in both LEBs, the last of which is the same.
Same(s, t, n) ==
    /\ Clean(s) /\ Clean(t) /\ n \in 1 .. Slots
    /\ Len(s) = n /\ Len(t) = n /\ s[n] = t[n]

Plain(n) == [n EXCEPT !.rcvry = FALSE]

Rcvry == [mst EXCEPT !.rcvry = TRUE]

(***************************************************************************)
(* The invariant.                                                          *)
(***************************************************************************)
\* A torn or lost copy can be read around, as long as nothing is written.
Recoverable == Readable(mleb)

Mounted == life \in {"mounting", "ro", "recovering", "rw"}

AreaTypes ==
    /\ mleb = [k \in Areas |-> mleb[k]] /\ \A k \in Areas : Leb(mleb[k])
    /\ mold = [k \in Areas |-> mold[k]]
    /\ moffs \in 1 .. Slots
    /\ IsNode(mst) /\ ~mst.rcvry
    /\ wpc \in {"idle", "unmap1", "write1", "unmap2", "write2", "rcv1", "rcv2"}

\* What is on the flash at each operation on it.
AreaInv ==
    /\ wpc = "idle" /\ Mounted /\ ~rcvrd => Same(mleb[1], mleb[2], moffs)
    /\ wpc = "idle" /\ life # "dead" => Recoverable
    /\ wpc = "unmap1" => moffs = 1 /\ Same(mleb[1], mleb[2], Slots)
    /\ wpc = "write1" => IF moffs = 1
                         THEN mleb[1] = <<>> /\ Same(mold[1], mleb[2], Slots)
                         ELSE Same(mleb[1], mleb[2], moffs - 1)
    /\ wpc \in {"unmap2", "write2"} =>
          Clean(mleb[1]) /\ Len(mleb[1]) = moffs /\ mleb[1][moffs] = mst
    /\ wpc = "unmap2" => moffs = 1 /\ Clean(mleb[2]) /\ Len(mleb[2]) = Slots
    /\ wpc = "write2" => IF moffs = 1
                         THEN mleb[2] = <<>> /\ Clean(mold[2]) /\ Len(mold[2]) = Slots
                         ELSE Clean(mleb[2]) /\ Len(mleb[2]) = moffs - 1
    /\ wpc = "rcv1" => moffs = 1 /\ Recoverable
    /\ wpc = "rcv2" => moffs = 1 /\ mleb[1] = <<Rcvry>>
    /\ mold[1] # <<>> => wpc = "write1" /\ moffs = 1
    /\ mold[2] # <<>> => wpc = "write2" /\ moffs = 1

\* When the master node is written, and for what.
MountInv ==
    /\ rcvrd => /\ life \in {"mounting", "ro", "dead"} /\ goal \notin {"dirty", "remount"}
                /\ wpc = "idle" /\ moffs = 1 /\ need_recovery /\ ro_mount
    /\ goal = "dirty" => life = "mounting"
    /\ goal \in {"umount", "ro"} => life = "rw" /\ cpc = "none"
    /\ life \in {"off", "dead"} => wpc = "idle"
    /\ life = "off" => ~rcvrd
    /\ life = "ro" /\ goal # "remount" => wpc = "idle"
    /\ cpc # "none" => life \in {"recovering", "rw"}

MasterInv == AreaTypes /\ AreaInv /\ MountInv

-----------------------------------------------------------------------------
(***************************************************************************)
(* Nodes, and LEBs that grow.                                              *)
(***************************************************************************)
LEMMA NodeGood ==
    ASSUME NEW n, IsNode(n)
    PROVE  Good(n)
<1>1. n.body = Node(n.body, n.dirty, n.rcvry).body /\ "dirty" \in DOMAIN n
  BY DEF IsNode, Node
<1>2. "dirty" \notin DOMAIN Half /\ "dirty" \notin DOMAIN Junk BY DEF Half, Junk
<1> QED BY <1>1, <1>2 DEF Good

LEMMA TornNotGood == ~Good(Half) /\ ~Good(Junk)
BY DEF Good

LEMMA NodeExcept ==
    ASSUME NEW n, IsNode(n), NEW d, NEW b, NEW r \in BOOLEAN
    PROVE  /\ IsNode([n EXCEPT !.dirty = d]) /\ [n EXCEPT !.dirty = d].rcvry = n.rcvry
           /\ IsNode([n EXCEPT !.body = b]) /\ [n EXCEPT !.body = b].rcvry = n.rcvry
           /\ IsNode([n EXCEPT !.rcvry = r]) /\ [n EXCEPT !.rcvry = r].rcvry = r
BY DEF IsNode, Node

LEMMA PlainTwice ==
    ASSUME NEW n, IsNode(n), ~n.rcvry
    PROVE  Plain(n) = n /\ Plain([n EXCEPT !.rcvry = TRUE]) = n
BY DEF IsNode, Node, Plain

LEMMA EmptyLeb == Clean(<<>>)
<1>1. <<>> \in Seq(Range(<<>>)) BY EmptySeq
<1> QED BY <1>1, EmptySeq, MasterSlots DEF Clean, Leb

LEMMA OneNode ==
    ASSUME NEW n, IsNode(n)
    PROVE  Clean(<<n>>) /\ Len(<<n>>) = 1 /\ <<n>>[1] = n
<1>1. Len(<<n>>) = 1 /\ <<n>>[1] = n /\ DOMAIN <<n>> = {1} OBVIOUS
<1>2. n \in Range(<<n>>) BY <1>1 DEF Range
<1>3. <<n>> \in Seq(Range(<<n>>)) BY <1>2
<1>4. \A j \in 1 .. Len(<<n>>) : j = 1 BY <1>1
<1> QED BY <1>1, <1>3, <1>4, NodeGood, MasterSlots DEF Clean, Leb

LEMMA AppendIs ==
    ASSUME NEW s, s \in Seq(Range(s)), NEW n
    PROVE  /\ Append(s, n) \in Seq(Range(Append(s, n)))
           /\ Len(s) \in Nat /\ Len(Append(s, n)) = Len(s) + 1
           /\ Append(s, n)[Len(s) + 1] = n
           /\ \A j \in 1 .. Len(s) : Append(s, n)[j] = s[j]
<1> DEFINE t == Append(s, n)
           S == Range(s) \cup {n}
<1>1. s \in Seq(S) BY SeqMonotonic
<1>2. t \in Seq(S) /\ Len(t) = Len(s) + 1 /\ Len(s) \in Nat /\ t[Len(s) + 1] = n
      /\ \A j \in 1 .. Len(s) : t[j] = s[j]
  BY <1>1, AppendProperties, LenProperties
<1>3. DOMAIN t = 1 .. Len(t) /\ t \in [1 .. Len(t) -> S] BY <1>2, LenProperties
<1>4. t \in [1 .. Len(t) -> Range(t)] BY <1>3 DEF Range
<1>5. Len(t) \in Nat BY <1>2, LenProperties
<1>6. t \in UNION {[1 .. k -> Range(t)] : k \in Nat} BY <1>4, <1>5
<1>7. t \in Seq(Range(t)) BY <1>6, SeqDef
<1> QED BY <1>2, <1>7

LEMMA AppendNode ==
    ASSUME NEW s, Clean(s), Len(s) < Slots, NEW n, IsNode(n)
    PROVE  Clean(Append(s, n)) /\ Len(Append(s, n)) = Len(s) + 1
           /\ Append(s, n)[Len(s) + 1] = n
BY AppendIs, NodeGood, MasterSlots DEF Clean, Leb

LEMMA AppendTorn ==
    ASSUME NEW s, Clean(s), Len(s) < Slots, NEW n \in {Half, Junk}
    PROVE  Leb(Append(s, n)) /\ Len(Append(s, n)) = Len(s) + 1
           /\ ~Good(Append(s, n)[Len(s) + 1])
           /\ \A j \in 1 .. Len(s) : Append(s, n)[j] = s[j] /\ Good(s[j])
BY AppendIs, TornNotGood, MasterSlots DEF Clean, Leb

(***************************************************************************)
(* What get_master_node() makes of a LEB.                                  *)
(***************************************************************************)
LEMMA LebLen ==
    ASSUME NEW s, Leb(s)
    PROVE  Len(s) \in 0 .. Slots /\ (s = <<>> <=> Len(s) = 0) /\ DOMAIN s = 1 .. Len(s)
BY LenProperties, EmptySeq, MasterSlots DEF Leb

LEMMA LastIs ==
    ASSUME NEW s, Leb(s)
    PROVE  /\ MasterFound(s) /\ LastNode(s) \in 0 .. Slots
           /\ \A j \in 1 .. LastNode(s) : IsNode(s[j])
           /\ IF Clean(s) THEN LastNode(s) = Len(s) /\ ~Torn(s)
                          ELSE LastNode(s) = Len(s) - 1 /\ Torn(s) /\ ~Good(s[Len(s)])
<1> DEFINE n == Len(s)
<1>1. n \in Nat /\ n \in 0 .. Slots /\ Slots \in Nat /\ (s = <<>> <=> n = 0) BY LebLen, MasterSlots
<1>2. CASE Clean(s)
  <2>1. \A j \in 1 .. n : Good(s[j]) /\ IsNode(s[j]) /\ s[j] # Junk
    BY <1>2, TornNotGood DEF Clean, Leb
  <2>2. Headed(s) = n BY <1>1, <2>1 DEF Headed
  <2>3. LastNode(s) = n BY <1>1, <2>1, <2>2 DEF LastNode
  <2> QED BY <1>1, <1>2, <2>1, <2>2, <2>3 DEF MasterFound, Torn
<1>3. CASE ~Clean(s)
  <2>1. n > 0 /\ ~Good(s[n]) /\ \A j \in 1 .. n - 1 : Good(s[j]) /\ IsNode(s[j])
    BY <1>1, <1>3 DEF Clean, Leb
  <2>2. n = 1 \/ Good(s[n - 1])
    <3>1. n > 0 BY <2>1
    <3> HIDE DEF n
    <3>2. n = 1 \/ n - 1 \in 1 .. n - 1 BY <1>1, <3>1
    <3> QED BY <2>1, <3>2
  <2>3. CASE s[n] = Junk
    <3>1. Headed(s) = n - 1 BY <1>1, <2>1, <2>3 DEF Headed
    <3>2. n - 1 = 0 \/ Good(s[n - 1]) BY <2>2
    <3>3. LastNode(s) = n - 1 BY <3>1, <3>2 DEF LastNode
    <3> QED BY <1>1, <1>3, <2>1, <3>1, <3>3 DEF MasterFound, Torn
  <2>4. CASE s[n] # Junk
    <3>1. Headed(s) = n BY <1>1, <2>1, <2>4 DEF Headed
    <3>2. n = 1 \/ Good(s[n - 1]) BY <2>2
    <3>3. LastNode(s) = n - 1 BY <1>1, <2>1, <3>1, <3>2 DEF LastNode
    <3> QED BY <1>1, <1>3, <2>1, <3>1, <3>3 DEF MasterFound, Torn
  <2> QED BY <2>3, <2>4
<1> QED BY <1>2, <1>3

(***************************************************************************)
(* What a mount reads from a pair of LEBs.                                 *)
(***************************************************************************)
\* The node at the place n of the LEB k.
Reads(f, k, n) == Readable(f) /\ ReadBack(f) = Plain(f[k][n])

\* Where the rules say LEB 1, a scan that agrees says the same.
LEMMA ReadsFirst ==
    ASSUME NEW f, Leb(f[1]), Leb(f[2]), RecoverFrom(f) = 1
    PROVE  Reads(f, 1, LastNode(f[1]))
BY DEF Reads, Readable, ReadBack, Taken, ReadFrom, Plain

LEMMA TornAlone ==
    ASSUME NEW n \in {Half, Junk}
    PROVE  Leb(Append(<<>>, n)) /\ LastNode(Append(<<>>, n)) = 0
<1> DEFINE s == Append(<<>>, n)
<1>1. Clean(<<>>) /\ Len(<<>>) = 0 /\ 0 < Slots BY EmptyLeb, MasterSlots
<1>2. Leb(s) /\ Len(s) = 0 + 1 /\ ~Good(s[0 + 1]) BY <1>1, AppendTorn
<1>3. Len(s) = 1 /\ ~Good(s[1]) BY <1>2
<1>4. ~Clean(s) BY <1>3 DEF Clean
<1> QED BY <1>2, <1>3, <1>4, LastIs

LEMMA RuleIs ==
    ASSUME NEW f, Leb(f[1]), Leb(f[2])
    PROVE  RecoverFrom(f) =
               MasterRule(LastNode(f[1]), LastNode(f[2]), Torn(f[1]),
                   LastNode(f[1]) > 0 /\ f[1][LastNode(f[1])].rcvry,
                   LastNode(f[1]) > 0 /\ LastNode(f[2]) > 0
                       /\ f[1][LastNode(f[1])] = f[2][LastNode(f[2])])
<1>1. MasterFound(f[1]) /\ MasterFound(f[2]) BY LastIs
<1> QED BY <1>1 DEF RecoverFrom, Areas

\* The same place in both LEBs, whatever is torn behind it.
LEMMA ReadsSame ==
    ASSUME NEW f, Leb(f[1]), Leb(f[2]), NEW n \in 1 .. Slots,
           LastNode(f[1]) = n, LastNode(f[2]) = n, f[1][n] = f[2][n]
    PROVE  Reads(f, 1, n)
<1>1. RecoverFrom(f) = 1 BY RuleIs, MasterSlots DEF MasterRule
<1> QED BY <1>1, ReadsFirst

\* LEB 1 was written, LEB 2 was not.
LEMMA ReadsAhead ==
    ASSUME NEW f, Clean(f[1]), Leb(f[2]), NEW n \in 1 .. Slots,
           Len(f[1]) = n, LastNode(f[2]) = n - 1
    PROVE  Reads(f, 1, n)
<1>1. LastNode(f[1]) = n /\ ~Torn(f[1]) /\ Leb(f[1]) BY LastIs DEF Clean
<1>2. RecoverFrom(f) = 1 BY <1>1, RuleIs, MasterSlots DEF MasterRule
<1> QED BY <1>1, <1>2, ReadsFirst

\* LEB 1 was started anew, LEB 2 is full.
LEMMA ReadsWrapped ==
    ASSUME Exact, NEW f, Clean(f[1]), Leb(f[2]), Len(f[1]) = 1, LastNode(f[2]) = Slots
    PROVE  Reads(f, 1, 1)
<1>1. LastNode(f[1]) = 1 /\ ~Torn(f[1]) /\ Leb(f[1]) BY LastIs DEF Clean
<1>2. RecoverFrom(f) = 1 BY <1>1, RuleIs, MasterSlots DEF MasterRule
<1> QED BY <1>1, <1>2, ReadsFirst

\* LEB 1 was written by a recovery that was cut before LEB 2.
LEMMA ReadsRecovered ==
    ASSUME NEW f, Clean(f[1]), Leb(f[2]), Len(f[1]) = 1, f[1][1].rcvry
    PROVE  Reads(f, 1, 1)
<1>1. LastNode(f[1]) = 1 /\ ~Torn(f[1]) /\ Leb(f[1]) BY LastIs DEF Clean
<1>2. RecoverFrom(f) = 1 BY <1>1, RuleIs, MasterSlots DEF MasterRule
<1> QED BY <1>1, <1>2, ReadsFirst

\* LEB 1 was un-mapped, LEB 2 is full.
LEMMA ReadsSecond ==
    ASSUME NEW f, Leb(f[1]), Clean(f[2]), LastNode(f[1]) = 0, Len(f[2]) = Slots
    PROVE  Reads(f, 2, Slots)
<1>1. LastNode(f[2]) = Slots /\ Leb(f[2]) BY LastIs DEF Clean
<1>2. RecoverFrom(f) = 2 BY <1>1, RuleIs, MasterSlots DEF MasterRule
<1>3. ~ScanAgrees(f)
  <2>1. CASE Clean(f[1])
    <3>1. Len(f[1]) = 0 BY <2>1, LastIs
    <3> QED BY <3>1, LebLen DEF ScanAgrees, Areas
  <2>2. CASE ~Clean(f[1])
    <3>1. ~Good(f[1][Len(f[1])]) /\ LastNode(f[1]) = Len(f[1]) - 1 BY <2>2, LastIs
    <3>2. Len(f[1]) \in Nat /\ DOMAIN f[1] = 1 .. Len(f[1]) BY LebLen, MasterSlots
    <3>3. Len(f[1]) - 1 = 0 BY <3>1
    <3>4. Len(f[1]) = 1 BY <3>2, <3>3
    <3>5. 1 \in DOMAIN f[1] /\ ~Good(f[1][1]) BY <3>1, <3>2, <3>4
    <3> QED BY <3>5 DEF ScanAgrees, Areas
  <2> QED BY <2>1, <2>2
<1>4. ReadFrom(f) = 2 /\ Readable(f) BY <1>2, <1>3 DEF ReadFrom, Readable
<1> QED BY <1>1, <1>4 DEF Reads, ReadBack, Taken, Plain

\* Both LEBs clean and alike.
LEMMA ReadsClean ==
    ASSUME NEW f, NEW n, Same(f[1], f[2], n)
    PROVE  Reads(f, 1, n)
<1>1. LastNode(f[1]) = n /\ LastNode(f[2]) = n BY LastIs DEF Same, Clean
<1> QED BY <1>1, ReadsSame DEF Same, Clean

\* A scan agrees on two LEBs that are alike.
LEMMA ScanIsSame ==
    ASSUME NEW f, Leb(f[1]), Leb(f[2]), ScanAgrees(f)
    PROVE  Same(f[1], f[2], Len(f[1]))
<1>1. /\ f[1] # <<>> /\ \A j \in DOMAIN f[1] : Good(f[1][j])
      /\ \A j \in DOMAIN f[2] : Good(f[2][j])
      /\ Len(f[1]) = Len(f[2]) /\ f[1][Len(f[1])] = f[2][Len(f[2])]
  BY DEF ScanAgrees, Areas, Last
<1>2. Clean(f[1]) /\ Clean(f[2]) BY <1>1, LebLen DEF Clean
<1> QED BY <1>1, <1>2, LebLen, MasterSlots DEF Same

\* What a mount takes is a node.
LEMMA ReadBackIsNode ==
    ASSUME NEW f, Leb(f[1]), Leb(f[2]), Readable(f)
    PROVE  IsNode(ReadBack(f)) /\ ~ReadBack(f).rcvry
<1>1. PICK k \in Areas : ReadFrom(f) = k /\ LastNode(f[k]) > 0
  <2>1. CASE ScanAgrees(f)
    <3>1. Same(f[1], f[2], Len(f[1])) BY <2>1, ScanIsSame
    <3>2. LastNode(f[1]) > 0 BY <3>1, LastIs DEF Same
    <3> QED BY <2>1, <3>2 DEF ReadFrom, Areas
  <2>2. CASE ~ScanAgrees(f)
    <3>1. RecoverFrom(f) # 0 /\ ReadFrom(f) = RecoverFrom(f) BY <2>2 DEF Readable, ReadFrom
    <3>2. LastNode(f[1]) \in 0 .. Slots /\ LastNode(f[2]) \in 0 .. Slots BY LastIs
    <3> QED BY <3>1, <3>2, RuleIs, MasterSlots DEF MasterRule, Areas
  <2> QED BY <2>1, <2>2
<1>2. IsNode(f[k][LastNode(f[k])])
  <2>1. Leb(f[k]) BY DEF Areas
  <2>2. LastNode(f[k]) \in 0 .. Slots /\ LastNode(f[k]) \in 1 .. LastNode(f[k])
    BY <1>1, <2>1, LastIs, MasterSlots
  <2> QED BY <2>1, <2>2, LastIs
<1>3. CASE k = 1
  <2>1. ReadBack(f) = Taken(f[1]) BY <1>1, <1>3 DEF ReadBack
  <2>2. IsNode(f[1][LastNode(f[1])]) BY <1>2, <1>3
  <2>3. IsNode(Taken(f[1])) /\ Taken(f[1]).rcvry = FALSE
    BY <2>2, NodeExcept DEF Taken
  <2> QED BY <2>1, <2>3
<1>4. CASE k = 2
  <2>1. ReadBack(f) = Taken(f[2]) BY <1>1, <1>4 DEF ReadBack
  <2>2. IsNode(f[2][LastNode(f[2])]) BY <1>2, <1>4
  <2>3. IsNode(Taken(f[2])) /\ Taken(f[2]).rcvry = FALSE
    BY <2>2, NodeExcept DEF Taken
  <2> QED BY <2>1, <2>3
<1> QED BY <1>3, <1>4 DEF Areas

(***************************************************************************)
(* Whatever a cut leaves at any operation can be read, and says the same.  *)
(***************************************************************************)
\* The value of the register.
Value ==
    IF wpc \in {"unmap2", "write2", "rcv2"} THEN mst
    ELSE IF wpc = "write1" /\ moffs = 1 THEN Plain(mleb[2][Slots])
    ELSE ReadBack(mleb)

CutGood(a, b) ==
    Leb(a) /\ Leb(b) /\ Readable(<<a, b>>) /\ ReadBack(<<a, b>>) = Value

LEMMA PairIs ==
    ASSUME AreaTypes
    PROVE  <<mleb[1], mleb[2]>> = mleb /\ Leb(mleb[1]) /\ Leb(mleb[2])
BY DEF AreaTypes, Areas

\* While neither LEB is un-mapped or written, a cut changes nothing.
LEMMA CutQuiet ==
    ASSUME AreaTypes, AreaInv, life # "dead", wpc \in {"idle", "rcv1", "unmap1"},
           NEW a \in AfterCut(1), NEW b \in AfterCut(2)
    PROVE  CutGood(a, b)
<1>1. a = mleb[1] /\ b = mleb[2] BY DEF AfterCut, Writing, AreaInv
<1>2. Readable(mleb)
  <2>1. CASE wpc = "unmap1" BY <2>1, ReadsClean DEF AreaInv, Reads
  <2> QED BY <2>1 DEF AreaInv, Recoverable
<1> QED BY <1>1, <1>2, PairIs DEF CutGood, Value

\* The first LEB is started anew, the second is full.
LEMMA CutWrite1Anew ==
    ASSUME AreaTypes, AreaInv, wpc = "write1", moffs = 1,
           NEW a \in AfterCut(1), NEW b \in AfterCut(2)
    PROVE  CutGood(a, b)
<1> DEFINE f == <<a, b>>
<1>1. Same(mold[1], mleb[2], Slots) /\ mleb[1] = <<>> BY DEF AreaInv
<1>2. b = mleb[2] BY <1>1, LebLen, MasterSlots DEF AfterCut, Writing, Same, Clean
<1>3. a \in {<<>>, mold[1], Append(<<>>, Half), Append(<<>>, Junk)}
  BY <1>1 DEF AfterCut, Writing
<1>4. CASE a = mold[1]
  <2>1. Same(f[1], f[2], Slots) BY <1>1, <1>2, <1>4
  <2>2. Reads(f, 1, Slots) BY <2>1, ReadsClean
  <2> QED BY <1>2, <2>1, <2>2 DEF CutGood, Value, Reads, Same, Clean
<1>5. CASE a # mold[1]
  <2>1. Leb(a) /\ LastNode(a) = 0
    <3>1. CASE a = <<>> BY <3>1, EmptyLeb, EmptySeq, LastIs DEF Clean
    <3>2. CASE \E n \in {Half, Junk} : a = Append(<<>>, n) BY <3>2, TornAlone
    <3> QED BY <1>3, <1>5, <3>1, <3>2
  <2>2. Clean(f[2]) /\ Leb(f[2]) /\ Len(f[2]) = Slots BY <1>1, <1>2 DEF Same, Clean
  <2>3. Reads(f, 2, Slots) BY <2>1, <2>2, ReadsSecond
  <2> QED BY <1>2, <2>1, <2>2, <2>3 DEF CutGood, Value, Reads
<1> QED BY <1>4, <1>5

\* What a cut in the writing of a LEB leaves of it.
LEMMA CutAppend ==
    ASSUME NEW s, Clean(s), Len(s) \in 1 .. Slots - 1,
           NEW a \in {s} \cup {Append(s, n) : n \in {Half, Junk}}
    PROVE  Leb(a) /\ LastNode(a) = Len(s) /\ a[Len(s)] = s[Len(s)]
<1>1. CASE a = s BY <1>1, LastIs DEF Clean
<1>2. CASE a # s
  <2>1. PICK n \in {Half, Junk} : a = Append(s, n) BY <1>2
  <2>2. Leb(a) /\ Len(a) = Len(s) + 1 /\ ~Good(a[Len(a)]) /\ a[Len(s)] = s[Len(s)]
    BY <2>1, AppendTorn, MasterSlots
  <2>3. ~Clean(a) BY <2>2, MasterSlots DEF Clean
  <2> QED BY <2>2, <2>3, LastIs, MasterSlots
<1> QED BY <1>1, <1>2

LEMMA CutWrite1 ==
    ASSUME AreaTypes, AreaInv, wpc = "write1", moffs # 1,
           NEW a \in AfterCut(1), NEW b \in AfterCut(2)
    PROVE  CutGood(a, b)
<1> DEFINE f == <<a, b>>
           m == moffs - 1
<1>1. Same(mleb[1], mleb[2], m) /\ m \in 1 .. Slots - 1
  BY MasterSlots DEF AreaInv, AreaTypes, Same
<1>2. mleb[1] # <<>> /\ mleb[2] # <<>> BY <1>1, LebLen, MasterSlots DEF Same, Clean
<1>3. b = mleb[2] /\ a \in {mleb[1]} \cup {Append(mleb[1], n) : n \in {Half, Junk}}
  BY <1>2 DEF AfterCut, Writing
<1>4. Leb(a) /\ LastNode(a) = m /\ a[m] = mleb[1][m] BY <1>1, <1>3, CutAppend DEF Same
<1>5. Leb(b) /\ LastNode(b) = m /\ b[m] = mleb[1][m] BY <1>1, <1>3, LastIs DEF Same, Clean
<1>6. Reads(f, 1, m) BY <1>1, <1>4, <1>5, ReadsSame DEF Same
<1>7. Reads(mleb, 1, m) BY <1>1, ReadsClean
<1> QED BY <1>4, <1>5, <1>6, <1>7 DEF CutGood, Value, Reads

\* The second LEB is about to be started anew, or it is being.
LEMMA CutWrite2Anew ==
    ASSUME Exact, AreaTypes, AreaInv, wpc \in {"unmap2", "write2"}, moffs = 1,
           NEW a \in AfterCut(1), NEW b \in AfterCut(2)
    PROVE  CutGood(a, b)
<1> DEFINE f == <<a, b>>
<1>1. Clean(mleb[1]) /\ Len(mleb[1]) = 1 /\ mleb[1][1] = mst BY DEF AreaInv
<1>2. a = mleb[1] BY <1>1, LebLen DEF AfterCut, Writing, Clean
<1>3. Leb(b) /\ (LastNode(b) = Slots \/ LastNode(b) = 0)
  <2>1. CASE wpc = "unmap2"
    <3>1. Clean(mleb[2]) /\ Len(mleb[2]) = Slots BY <2>1 DEF AreaInv
    <3>2. b = mleb[2] BY <2>1, <3>1, LebLen, MasterSlots DEF AfterCut, Writing, Clean
    <3> QED BY <3>1, <3>2, LastIs DEF Clean
  <2>2. CASE wpc = "write2"
    <3>1. mleb[2] = <<>> /\ Clean(mold[2]) /\ Len(mold[2]) = Slots BY <2>2 DEF AreaInv
    <3>2. b \in {<<>>, mold[2], Append(<<>>, Half), Append(<<>>, Junk)}
      BY <2>2, <3>1 DEF AfterCut, Writing
    <3>3. CASE b = mold[2] BY <3>1, <3>3, LastIs DEF Clean
    <3>4. CASE b = <<>> BY <3>4, EmptyLeb, EmptySeq, LastIs DEF Clean
    <3>5. CASE \E n \in {Half, Junk} : b = Append(<<>>, n) BY <3>5, TornAlone
    <3> QED BY <3>2, <3>3, <3>4, <3>5
  <2> QED BY <2>1, <2>2
<1>4. Reads(f, 1, 1)
  <2>1. CASE LastNode(b) = Slots BY <1>1, <1>2, <1>3, <2>1, ReadsWrapped
  <2>2. CASE LastNode(b) = 0
    <3>1. 1 \in 1 .. Slots /\ LastNode(b) = 1 - 1 BY <2>2, MasterSlots
    <3> QED BY <1>1, <1>2, <1>3, <3>1, ReadsAhead
  <2> QED BY <1>3, <2>1, <2>2
<1>5. Plain(mst) = mst BY PlainTwice DEF AreaTypes
<1> QED BY <1>1, <1>2, <1>3, <1>4, <1>5 DEF CutGood, Value, Reads, Clean

LEMMA CutWrite2 ==
    ASSUME AreaTypes, AreaInv, wpc = "write2", moffs # 1,
           NEW a \in AfterCut(1), NEW b \in AfterCut(2)
    PROVE  CutGood(a, b)
<1> DEFINE f == <<a, b>>
<1>1. /\ Clean(mleb[1]) /\ Len(mleb[1]) = moffs /\ mleb[1][moffs] = mst
      /\ Clean(mleb[2]) /\ Len(mleb[2]) = moffs - 1 /\ moffs \in 1 .. Slots
      /\ Len(mleb[2]) \in 1 .. Slots - 1
  BY MasterSlots DEF AreaInv, AreaTypes
<1>2. mleb[1] # <<>> /\ mleb[2] # <<>> BY <1>1, LebLen, MasterSlots DEF Clean
<1>3. a = mleb[1] /\ b \in {mleb[2]} \cup {Append(mleb[2], n) : n \in {Half, Junk}}
  BY <1>2 DEF AfterCut, Writing
<1>4. Leb(b) /\ LastNode(b) = moffs - 1 BY <1>1, <1>3, CutAppend
<1>5. Reads(f, 1, moffs) BY <1>1, <1>3, <1>4, ReadsAhead
<1>6. Plain(mst) = mst BY PlainTwice DEF AreaTypes
<1> QED BY <1>1, <1>3, <1>4, <1>5, <1>6 DEF CutGood, Value, Reads, Clean

\* A recovery has written the first LEB.
LEMMA CutRcv2 ==
    ASSUME AreaTypes, AreaInv, wpc = "rcv2",
           NEW a \in AfterCut(1), NEW b \in AfterCut(2)
    PROVE  CutGood(a, b)
<1>1. mleb[1] = <<Rcvry>> /\ mold[2] = <<>> BY DEF AreaInv
<1>2. IsNode(Rcvry) /\ Rcvry.rcvry BY NodeExcept DEF AreaTypes, Rcvry
<1>3. Clean(<<Rcvry>>) /\ Len(<<Rcvry>>) = 1 /\ <<Rcvry>>[1] = Rcvry BY <1>2, OneNode
<1>4. a = <<Rcvry>> /\ b = mleb[2] BY <1>1 DEF AfterCut, Writing
<1>5. Reads(<<a, b>>, 1, 1) BY <1>2, <1>3, <1>4, PairIs, ReadsRecovered
<1>6. Plain(Rcvry) = mst BY PlainTwice DEF AreaTypes, Rcvry
<1> QED BY <1>3, <1>4, <1>5, <1>6, PairIs DEF CutGood, Value, Reads, Clean

LEMMA CutOutcome ==
    ASSUME Exact, AreaTypes, AreaInv, life # "dead",
           NEW a \in AfterCut(1), NEW b \in AfterCut(2)
    PROVE  CutGood(a, b)
<1>1. wpc \in {"idle", "unmap1", "write1", "unmap2", "write2", "rcv1", "rcv2"}
  BY DEF AreaTypes
<1>2. wpc = "unmap2" => moffs = 1 BY DEF AreaInv
<1> QED BY <1>1, <1>2, CutQuiet, CutWrite1, CutWrite1Anew, CutWrite2, CutWrite2Anew, CutRcv2

\* Without a cut the same is read.
LEMMA ReadNow ==
    ASSUME Exact, AreaTypes, AreaInv, life # "dead"
    PROVE  Readable(mleb) /\ ReadBack(mleb) = Value
<1>1. mleb[1] \in AfterCut(1) /\ mleb[2] \in AfterCut(2) BY DEF AfterCut
<1> QED BY <1>1, CutOutcome, PairIs DEF CutGood

LEMMA InvImpliesReadable ==
    ASSUME Exact, AreaTypes, AreaInv
    PROVE  MasterReadable
<1>1. WritesErased
  BY EmptySeq, MasterSlots DEF WritesErased, AreaInv, AreaTypes, Same
<1> QED BY <1>1, ReadNow, CutOutcome DEF MasterReadable, CutGood

-----------------------------------------------------------------------------
(***************************************************************************)
(* The steps.                                                              *)
(***************************************************************************)
RegisterStep == [Register!Next]_(Register!rvars)

LEMMA ReadLater ==
    Exact /\ (AreaTypes /\ AreaInv /\ life # "dead")' => (ReadBack(mleb) = Value)'
<1>1. Exact /\ AreaTypes /\ AreaInv /\ life # "dead" => ReadBack(mleb) = Value BY ReadNow
<1>2. (Exact /\ AreaTypes /\ AreaInv /\ life # "dead" => ReadBack(mleb) = Value)' BY <1>1, PTL
<1> QED BY <1>2

\* A step that leaves the master area alone.
LEMMA AreaLeft ==
    ASSUME MasterInv, UNCHANGED <<mleb, mold, mst, moffs, wpc>>,
           (Mounted /\ ~rcvrd)' => Mounted /\ ~rcvrd, life' # "dead" => life # "dead"
    PROVE  AreaTypes' /\ AreaInv' /\ RegisterStep
<1>1. AreaTypes' BY DEF MasterInv, AreaTypes
<1>2. AreaInv' BY DEF MasterInv, AreaInv, Recoverable, Rcvry
<1>3. RegisterStep BY DEF RegisterStep, Register!rvars
<1> QED BY <1>1, <1>2, <1>3

\* ubifs_write_master() is called.
LEMMA AreaAnnounced ==
    ASSUME MasterInv, wpc = "idle", Mounted, ~rcvrd,
           IsNode(mst'), ~mst'.rcvry,
           moffs' = IF moffs = Slots THEN 1 ELSE moffs + 1,
           wpc' = IF moffs = Slots THEN "unmap1" ELSE "write1",
           UNCHANGED <<mleb, mold, life>>
    PROVE  AreaTypes' /\ AreaInv' /\ RegisterStep
<1>1. Same(mleb[1], mleb[2], moffs) /\ mold[1] = <<>> /\ mold[2] = <<>>
  BY DEF MasterInv, AreaInv
<1>2. AreaTypes' BY MasterSlots DEF MasterInv, AreaTypes
<1>3. AreaInv'
  <2>1. CASE moffs = Slots BY <1>1, <2>1 DEF AreaInv
  <2>2. CASE moffs # Slots
    <3>1. moffs' = moffs + 1 /\ moffs' - 1 = moffs /\ moffs' # 1
      BY <2>2, MasterSlots DEF MasterInv, AreaTypes
    <3> QED BY <1>1, <2>2, <3>1 DEF AreaInv
  <2> QED BY <2>1, <2>2
<1>4. RegisterStep BY DEF RegisterStep, Register!Next, Register!Begin
<1> QED BY <1>2, <1>3, <1>4

\* The operations of ubifs_write_master() on the flash.
LEMMA AreaWritten ==
    ASSUME Exact, MasterInv, life # "dead", WriteStep
    PROVE  AreaTypes' /\ AreaInv' /\ RegisterStep
<1> DEFINE n == Append(mleb[1], mst)
           m == Append(mleb[2], mst)
<1>0. AreaTypes /\ AreaInv BY DEF MasterInv
<1>1. /\ UNCHANGED <<mst, moffs, life, rcvrd>> /\ IsNode(mst) /\ ~mst.rcvry
      /\ moffs \in 1 .. Slots /\ Leb(mleb[1]) /\ Leb(mleb[2])
      /\ mleb = [k \in Areas |-> mleb[k]] /\ mold = [k \in Areas |-> mold[k]]
  BY <1>0 DEF WriteStep, AreaTypes, Areas
<1>2. ReadBack(mleb) = Value BY <1>0, ReadNow
<1>3. CASE wpc = "unmap1"
  <2>1. /\ wpc' = "write1" /\ mold'[1] = mleb[1] /\ mold'[2] = mold[2] /\ mleb'[1] = <<>>
        /\ mleb'[2] = mleb[2]
        /\ mleb' = [k \in Areas |-> mleb'[k]] /\ mold' = [k \in Areas |-> mold'[k]]
    BY <1>1, <1>3 DEF WriteStep, Unmap, Areas
  <2>2. moffs = 1 /\ Same(mleb[1], mleb[2], Slots) /\ mold[2] = <<>>
    BY <1>0, <1>3 DEF AreaInv
  <2>3. AreaTypes' BY <1>1, <2>1, EmptyLeb DEF AreaTypes, Areas, Clean
  <2>4. AreaInv' BY <1>1, <2>1, <2>2 DEF AreaInv
  <2>5. ReadBack(mleb)' = Plain(mleb[2][Slots])
    BY <1>1, <2>1, <2>2, <2>3, <2>4, ReadLater DEF Value
  <2>6. ReadBack(mleb) = Plain(mleb[2][Slots])
    BY <1>3, <2>2, ReadsClean DEF Reads, Same
  <2> QED BY <1>1, <1>3, <2>1, <2>3, <2>4, <2>5, <2>6 DEF RegisterStep, Register!rvars
<1>4. CASE wpc = "write1"
  <2>1. /\ wpc' = (IF moffs = 1 THEN "unmap2" ELSE "write2") /\ mleb'[1] = n
        /\ mleb'[2] = mleb[2] /\ mold'[1] = <<>> /\ mold'[2] = mold[2]
        /\ mleb' = [k \in Areas |-> mleb'[k]] /\ mold' = [k \in Areas |-> mold'[k]]
    BY <1>1, <1>4 DEF WriteStep, Put, Areas
  <2>2. /\ Clean(mleb[1]) /\ Len(mleb[1]) = moffs - 1 /\ Clean(mleb[2])
        /\ Len(mleb[2]) = (IF moffs = 1 THEN Slots ELSE moffs - 1) /\ mold[2] = <<>>
    BY <1>0, <1>1, <1>4, EmptyLeb, EmptySeq, MasterSlots DEF AreaInv, Same
  <2>3. Clean(n) /\ Len(n) = moffs /\ n[moffs] = mst
    BY <1>1, <2>2, AppendNode, MasterSlots
  <2>4. AreaTypes'
    <3> HIDE DEF n
    <3>1. \A k \in Areas : Leb(mleb'[k]) BY <1>1, <2>1, <2>3 DEF Areas, Clean
    <3> QED BY <1>1, <2>1, <3>1 DEF AreaTypes
  <2>5. AreaInv' BY <1>1, <2>1, <2>2, <2>3 DEF AreaInv
  <2>6. ReadBack(mleb)' = mst BY <1>1, <2>1, <2>4, <2>5, ReadLater DEF Value
  <2> QED BY <1>1, <1>4, <2>1, <2>4, <2>5, <2>6 DEF RegisterStep, Register!Next, Register!End
<1>5. CASE wpc = "unmap2"
  <2>1. /\ wpc' = "write2" /\ mold'[2] = mleb[2] /\ mold'[1] = mold[1] /\ mleb'[2] = <<>>
        /\ mleb'[1] = mleb[1]
        /\ mleb' = [k \in Areas |-> mleb'[k]] /\ mold' = [k \in Areas |-> mold'[k]]
    BY <1>1, <1>5 DEF WriteStep, Unmap, Areas
  <2>2. /\ moffs = 1 /\ Clean(mleb[1]) /\ Len(mleb[1]) = moffs /\ mleb[1][moffs] = mst
        /\ Clean(mleb[2]) /\ Len(mleb[2]) = Slots /\ mold[1] = <<>>
    BY <1>0, <1>5 DEF AreaInv
  <2>3. AreaTypes' BY <1>1, <2>1, EmptyLeb DEF AreaTypes, Areas, Clean
  <2>4. AreaInv' BY <1>1, <2>1, <2>2 DEF AreaInv
  <2>5. ReadBack(mleb)' = mst BY <1>1, <2>1, <2>3, <2>4, ReadLater DEF Value
  <2>6. ReadBack(mleb) = mst BY <1>2, <1>5 DEF Value
  <2> QED BY <1>1, <1>5, <2>1, <2>3, <2>4, <2>5, <2>6 DEF RegisterStep, Register!rvars
<1>6. CASE wpc = "write2"
  <2>1. /\ wpc' = "idle" /\ mleb'[2] = m /\ mleb'[1] = mleb[1]
        /\ mold'[2] = <<>> /\ mold'[1] = mold[1]
        /\ mleb' = [k \in Areas |-> mleb'[k]] /\ mold' = [k \in Areas |-> mold'[k]]
    BY <1>1, <1>6 DEF WriteStep, Put, Areas
  <2>2. /\ Clean(mleb[1]) /\ Len(mleb[1]) = moffs /\ mleb[1][moffs] = mst
        /\ Clean(mleb[2]) /\ Len(mleb[2]) = moffs - 1 /\ mold[1] = <<>>
    BY <1>0, <1>1, <1>6, EmptyLeb, EmptySeq, MasterSlots DEF AreaInv
  <2>3. Clean(m) /\ Len(m) = moffs /\ m[moffs] = mst
    <3>1. Len(mleb[2]) < Slots /\ Len(mleb[2]) + 1 = moffs BY <1>1, <2>2, MasterSlots
    <3> QED BY <1>1, <2>2, <3>1, AppendNode
  <2>4. AreaTypes'
    <3> HIDE DEF m
    <3>1. \A k \in Areas : Leb(mleb'[k]) BY <1>1, <2>1, <2>3 DEF Areas, Clean
    <3> QED BY <1>1, <2>1, <3>1 DEF AreaTypes
  <2>5. Same(mleb'[1], mleb'[2], moffs) BY <1>1, <2>1, <2>2, <2>3 DEF Same
  <2>6. Reads(mleb', 1, moffs) BY <2>5, ReadsClean
  <2>7. AreaInv' BY <1>1, <2>1, <2>2, <2>5, <2>6 DEF AreaInv, Reads, Recoverable
  <2>8. ReadBack(mleb)' = mst /\ ReadBack(mleb) = mst
    BY <1>1, <1>2, <1>6, <2>1, <2>2, <2>6, PlainTwice DEF Reads, Value
  <2> QED BY <1>1, <1>6, <2>1, <2>4, <2>7, <2>8 DEF RegisterStep, Register!rvars
<1> QED BY <1>3, <1>4, <1>5, <1>6 DEF WriteStep

LEMMA AreasExcept ==
    ASSUME NEW f, f = [j \in Areas |-> f[j]], NEW k \in Areas, NEW x,
           NEW g, g = [f EXCEPT ![k] = x]
    PROVE  g = [j \in Areas |-> g[j]] /\ g[k] = x /\ \A j \in Areas \ {k} : g[j] = f[j]
OBVIOUS

\* write_rcvrd_mst_node().
LEMMA AreaRecovered ==
    ASSUME Exact, MasterInv, life # "dead", RecoverStep
    PROVE  AreaTypes' /\ AreaInv' /\ RegisterStep
<1>1. AreaTypes /\ AreaInv /\ UNCHANGED <<mst, moffs, life, rcvrd>> BY DEF MasterInv, RecoverStep
<1>2. IsNode(mst) /\ ~mst.rcvry /\ moffs = 1 /\ mold[1] = <<>> /\ mold[2] = <<>>
      /\ moffs \in 1 .. Slots
  BY <1>1 DEF AreaTypes, AreaInv, RecoverStep
<1>3. IsNode(Rcvry) /\ Plain(Rcvry) = mst BY <1>2, NodeExcept, PlainTwice DEF Rcvry
<1>4. Clean(<<Rcvry>>) /\ Len(<<Rcvry>>) = 1 /\ <<Rcvry>>[1] = Rcvry BY <1>3, OneNode
<1>5. CASE wpc = "rcv1"
  <2>1. /\ wpc' = "rcv2" /\ mleb'[1] = <<Rcvry>> /\ mleb'[2] = mleb[2]
        /\ mold'[1] = <<>> /\ mold'[2] = <<>> /\ Rcvry' = Rcvry
        /\ mleb' = [k \in Areas |-> mleb'[k]] /\ mold' = [k \in Areas |-> mold'[k]]
    <3>1. Put(1, <<Rcvry>>, "rcv2") BY <1>5 DEF RecoverStep, Rcvry
    <3>2. mleb' = [mleb EXCEPT ![1] = <<Rcvry>>] /\ mold' = [mold EXCEPT ![1] = <<>>]
      BY <3>1 DEF Put
    <3>3. mleb = [j \in Areas |-> mleb[j]] /\ mold = [j \in Areas |-> mold[j]]
      BY <1>1 DEF AreaTypes
    <3>4. 1 \in Areas /\ 2 \in Areas BY DEF Areas
    <3>5. /\ mleb' = [j \in Areas |-> mleb'[j]] /\ mleb'[1] = <<Rcvry>>
          /\ \A j \in Areas \ {1} : mleb'[j] = mleb[j]
      BY <3>2, <3>3, <3>4, AreasExcept
    <3>6. /\ mold' = [j \in Areas |-> mold'[j]] /\ mold'[1] = <<>>
          /\ \A j \in Areas \ {1} : mold'[j] = mold[j]
      BY <3>2, <3>3, <3>4, AreasExcept
    <3> QED BY <1>1, <1>2, <3>1, <3>4, <3>5, <3>6 DEF Put, Rcvry
  <2>2. AreaTypes' BY <1>1, <1>2, <1>4, <2>1 DEF AreaTypes, Areas, Clean
  <2>3. AreaInv' BY <1>1, <1>2, <2>1 DEF AreaInv
  <2>4. ReadBack(mleb)' = mst BY <1>1, <2>1, <2>2, <2>3, ReadLater DEF Value
  <2> QED BY <1>1, <1>5, <2>1, <2>2, <2>3, <2>4 DEF RegisterStep, Register!Next, Register!End
<1>6. CASE wpc = "rcv2"
  <2>1. /\ wpc' = "idle" /\ mleb'[1] = mleb[1] /\ mleb'[2] = <<Rcvry>>
        /\ mold'[1] = <<>> /\ mold'[2] = <<>>
        /\ mleb' = [k \in Areas |-> mleb'[k]] /\ mold' = [k \in Areas |-> mold'[k]]
    <3>1. Put(2, <<Rcvry>>, "idle") BY <1>6 DEF RecoverStep, Rcvry
    <3>2. mleb' = [mleb EXCEPT ![2] = <<Rcvry>>] /\ mold' = [mold EXCEPT ![2] = <<>>]
      BY <3>1 DEF Put
    <3>3. mleb = [j \in Areas |-> mleb[j]] /\ mold = [j \in Areas |-> mold[j]]
      BY <1>1 DEF AreaTypes
    <3>4. 1 \in Areas /\ 2 \in Areas BY DEF Areas
    <3>5. /\ mleb' = [j \in Areas |-> mleb'[j]] /\ mleb'[2] = <<Rcvry>>
          /\ \A j \in Areas \ {2} : mleb'[j] = mleb[j]
      BY <3>2, <3>3, <3>4, AreasExcept
    <3>6. /\ mold' = [j \in Areas |-> mold'[j]] /\ mold'[2] = <<>>
          /\ \A j \in Areas \ {2} : mold'[j] = mold[j]
      BY <3>2, <3>3, <3>4, AreasExcept
    <3> QED BY <1>1, <1>2, <3>1, <3>4, <3>5, <3>6 DEF Put, Rcvry
  <2>2. mleb[1] = <<Rcvry>> BY <1>1, <1>6 DEF AreaInv
  <2>3. AreaTypes' BY <1>1, <1>2, <1>4, <2>1, <2>2 DEF AreaTypes, Areas, Clean
  <2>4. Same(mleb'[1], mleb'[2], 1) BY <1>2, <1>4, <2>1, <2>2 DEF Same
  <2>5. Reads(mleb', 1, 1) BY <2>4, ReadsClean
  <2>6. AreaInv' BY <1>1, <1>2, <2>1, <2>4, <2>5 DEF AreaInv, Reads, Recoverable
  <2>7. ReadBack(mleb)' = mst /\ ReadBack(mleb) = mst
    BY <1>1, <1>3, <1>4, <1>6, <2>1, <2>2, <2>5, ReadNow DEF Reads, Value
  <2> QED BY <1>1, <1>6, <2>1, <2>3, <2>6, <2>7 DEF RegisterStep, Register!rvars
<1> QED BY <1>5, <1>6 DEF RecoverStep

\* ubifs_read_master() finds something to read; it may have to be recovered.
LEMMA AreaMounted ==
    ASSUME MasterInv, NEW ro \in BOOLEAN, ReadMaster(ro), cpc' = cpc
    PROVE  AreaTypes' /\ AreaInv' /\ MountInv' /\ RegisterStep
<1> DEFINE node == ReadBack(mleb)
           rec == ~ScanAgrees(mleb)
<1>1. /\ AreaTypes /\ life = "off" /\ wpc = "idle" /\ Readable(mleb)
      /\ mold[1] = <<>> /\ mold[2] = <<>> /\ Leb(mleb[1]) /\ Leb(mleb[2])
  BY DEF ReadMaster, MasterInv, AreaInv, Recoverable, AreaTypes, Areas
<1>2. /\ life' = "mounting" /\ ro_mount' = ro /\ UNCHANGED <<mleb, mold>>
      /\ mst' = (IF rec /\ ro THEN [node EXCEPT !.dirty = TRUE] ELSE node)
      /\ moffs' = (IF rec THEN 1 ELSE Len(mleb[1]))
      /\ rcvrd' = (rec /\ ro) /\ need_recovery' = mst'.dirty
      /\ wpc' = (IF rec /\ ~ro THEN "rcv1" ELSE "idle")
      /\ goal' = (IF ro THEN "mount" ELSE "dirty")
  BY <1>1 DEF ReadMaster
<1>3. IsNode(node) /\ ~node.rcvry BY <1>1, ReadBackIsNode
<1>4. IsNode(mst') /\ ~mst'.rcvry /\ (rec /\ ro => mst'.dirty)
  BY <1>2, <1>3, NodeExcept DEF IsNode, Node
<1>5. ~rec => Same(mleb[1], mleb[2], Len(mleb[1])) /\ Len(mleb[1]) \in 1 .. Slots
  BY <1>1, ScanIsSame DEF Same
<1>6. AreaTypes' BY <1>1, <1>2, <1>4, <1>5, MasterSlots DEF AreaTypes
<1>7. AreaInv' BY <1>1, <1>2, <1>5 DEF AreaInv, Recoverable
<1>8. MountInv' BY <1>1, <1>2, <1>4 DEF MountInv, MasterInv
<1>9. RegisterStep
  BY <1>1, <1>2 DEF RegisterStep, Register!Next, Register!Begin, Register!rvars
<1> QED BY <1>6, <1>7, <1>8, <1>9

\* The power is cut.
LEMMA AreaCut ==
    ASSUME Exact, MasterInv, life # "dead", MasterCut, cpc' = "none"
    PROVE  AreaTypes' /\ AreaInv' /\ MountInv' /\ RegisterStep
<1>1. AreaTypes /\ AreaInv BY DEF MasterInv
<1>2. PICK a \in AfterCut(1), b \in AfterCut(2) : mleb' = <<a, b>> BY DEF MasterCut
<1>3. CutGood(a, b) BY <1>1, CutOutcome
<1>4. /\ mold' = [k \in Areas |-> <<>>] /\ life' = "off" /\ goal' = "none" /\ wpc' = "idle"
      /\ ~rcvrd' /\ mst' = mst /\ moffs' = 1
  BY DEF MasterCut, Off
<1>5. AreaTypes'
  <2>1. mleb' = [k \in Areas |-> mleb'[k]] BY <1>2 DEF Areas
  <2>2. \A k \in Areas : Leb(mleb'[k]) BY <1>2, <1>3 DEF Areas, CutGood
  <2> QED BY <1>1, <1>4, <2>1, <2>2, MasterSlots DEF AreaTypes, Areas
<1>6. AreaInv' BY <1>2, <1>3, <1>4 DEF AreaInv, Recoverable, CutGood, Mounted, Areas
<1>7. MountInv' BY <1>4 DEF MountInv
<1>8. ReadBack(mleb)' = ReadBack(mleb) BY <1>1, <1>2, <1>3, ReadNow DEF CutGood
<1> QED BY <1>4, <1>5, <1>6, <1>7, <1>8 DEF RegisterStep, Register!Next, Register!End

-----------------------------------------------------------------------------
(***************************************************************************)
(* Each operation of the file system is one of these steps.                *)
(***************************************************************************)
Kept == MasterInv' /\ RegisterStep

\* Commits and un-linkings that do not write the master node.
LEMMA OrphansKeep ==
    ASSUME MasterInv, UNCHANGED mvars,
           cpc' = cpc \/ Running \/ life = "recovering" \/ cpc # "none"
    PROVE  Kept
<1>1. UNCHANGED <<mleb, mold, mst, moffs, wpc, goal, life, need_recovery, ro_mount, rcvrd>>
  BY DEF mvars
<1>2. AreaTypes' /\ AreaInv' /\ RegisterStep BY <1>1, AreaLeft DEF Mounted
<1>3. MountInv' BY <1>1 DEF MasterInv, MountInv, Running
<1> QED BY <1>2, <1>3 DEF Kept, MasterInv

LEMMA NewBody ==
    ASSUME MasterInv, NEW b, mst' = [mst EXCEPT !.body = b]
    PROVE  IsNode(mst') /\ ~mst'.rcvry
<1>1. IsNode(mst) /\ ~mst.rcvry BY DEF MasterInv, AreaTypes
<1> QED BY <1>1 DEF IsNode, Node

LEMMA DirtyNode ==
    ASSUME MasterInv, mst' = [mst EXCEPT !.dirty = TRUE]
    PROVE  IsNode(mst') /\ ~mst'.rcvry
<1>1. IsNode(mst) /\ ~mst.rcvry BY DEF MasterInv, AreaTypes
<1> QED BY <1>1 DEF IsNode, Node

LEMMA EraseKeeps ==
    ASSUME MasterInv, EraseDeleted
    PROVE  Kept
<1>1. /\ cpc # "none" /\ cpc' = "master" /\ wpc = "idle" /\ goal' = "commit"
      /\ mst' = [mst EXCEPT !.body = [fresh EXCEPT !.no_orphs = no_orphs]]
      /\ moffs' = IF moffs = Slots THEN 1 ELSE moffs + 1
      /\ wpc' = IF moffs = Slots THEN "unmap1" ELSE "write1"
      /\ UNCHANGED <<mleb, mold, life, ro_mount, need_recovery, rcvrd>>
  BY DEF EraseDeleted, WriteMaster
<1>2. life \in {"recovering", "rw"} /\ ~rcvrd BY <1>1 DEF MasterInv, MountInv
<1>3. IsNode(mst') /\ ~mst'.rcvry BY <1>1, NewBody
<1>4. AreaTypes' /\ AreaInv' /\ RegisterStep BY <1>1, <1>2, <1>3, AreaAnnounced DEF Mounted
<1>5. MountInv' BY <1>1, <1>2 DEF MountInv
<1> QED BY <1>4, <1>5 DEF Kept, MasterInv

LEMMA CommitEndKeeps ==
    ASSUME MasterInv, CommitEnd
    PROVE  Kept
<1>1. /\ cpc = "master" /\ cpc' = "none" /\ life' = "rw" /\ goal' = "none" /\ wpc = "idle"
      /\ UNCHANGED <<mleb, mold, mst, moffs, wpc, ro_mount, rcvrd>>
  BY DEF CommitEnd
<1>2. life \in {"recovering", "rw"} /\ ~rcvrd BY <1>1 DEF MasterInv, MountInv
<1>3. AreaTypes' /\ AreaInv' /\ RegisterStep BY <1>1, <1>2, AreaLeft DEF Mounted
<1>4. MountInv' BY <1>1, <1>2 DEF MountInv
<1> QED BY <1>3, <1>4 DEF Kept, MasterInv

LEMMA LeaveCleanKeeps ==
    ASSUME MasterInv, NEW for \in {"umount", "ro"}, LeaveClean(for)
    PROVE  Kept
<1>1. /\ cpc = "none" /\ cpc' = cpc /\ life = "rw" /\ wpc = "idle" /\ goal' = for
      /\ mst' = Node([mst.body EXCEPT !.no_orphs = TRUE], FALSE, FALSE)
      /\ moffs' = IF moffs = Slots THEN 1 ELSE moffs + 1
      /\ wpc' = IF moffs = Slots THEN "unmap1" ELSE "write1"
      /\ UNCHANGED <<mleb, mold, life, ro_mount, need_recovery, rcvrd>>
  BY DEF LeaveClean, MarkClean, WriteMaster
<1>2. ~rcvrd BY <1>1 DEF MasterInv, MountInv
<1>3. IsNode(mst') /\ ~mst'.rcvry BY <1>1 DEF IsNode, Node
<1>4. AreaTypes' /\ AreaInv' /\ RegisterStep BY <1>1, <1>2, <1>3, AreaAnnounced DEF Mounted
<1>5. MountInv' BY <1>1, <1>2 DEF MountInv
<1> QED BY <1>4, <1>5 DEF Kept, MasterInv

LEMMA UnmountedKeeps ==
    ASSUME MasterInv, Unmounted
    PROVE  Kept
<1>1. /\ wpc = "idle" /\ life \in {"rw", "ro"} /\ UNCHANGED <<mleb, mold, mst>>
      /\ life' = "off" /\ goal' = "none" /\ ~rcvrd' /\ wpc' = "idle" /\ moffs' = 1
      /\ cpc' = "none"
  BY DEF Unmounted, Gone, Off, Forget
<1>2. AreaTypes' BY <1>1, MasterSlots DEF MasterInv, AreaTypes
<1>3. AreaInv' BY <1>1 DEF MasterInv, AreaInv, Recoverable, Mounted
<1>4. MountInv' BY <1>1 DEF MountInv
<1>5. RegisterStep BY <1>1 DEF RegisterStep, Register!rvars
<1> QED BY <1>2, <1>3, <1>4, <1>5 DEF Kept, MasterInv

LEMMA ReadOnlyKeeps ==
    ASSUME MasterInv, ReadOnlyNow
    PROVE  Kept
<1>1. /\ wpc = "idle" /\ goal = "ro" /\ life = "rw" /\ life' = "ro" /\ goal' = "none"
      /\ UNCHANGED <<mleb, mold, mst, moffs, wpc, rcvrd, cpc>>
  BY DEF ReadOnlyNow
<1>2. cpc = "none" /\ ~rcvrd BY <1>1 DEF MasterInv, MountInv
<1>3. AreaTypes' /\ AreaInv' /\ RegisterStep BY <1>1, <1>2, AreaLeft DEF Mounted
<1>4. MountInv' BY <1>1, <1>2 DEF MountInv
<1> QED BY <1>3, <1>4 DEF Kept, MasterInv

LEMMA MasterOpKeeps ==
    ASSUME Exact, MasterInv, MasterOp
    PROVE  Kept
<1>1. life \notin {"off", "dead"} /\ UNCHANGED cpc BY DEF MasterOp, ovars
<1>2. CASE WriteStep \/ RecoverStep
  <2>1. AreaTypes' /\ AreaInv' /\ RegisterStep BY <1>1, <1>2, AreaWritten, AreaRecovered
  <2>2. wpc # "idle" /\ UNCHANGED <<goal, life, ro_mount, need_recovery, rcvrd>>
    BY <1>2 DEF WriteStep, RecoverStep
  <2>3. ~rcvrd /\ (life = "ro" => goal = "remount") BY <2>2 DEF MasterInv, MountInv
  <2>4. MountInv' BY <1>1, <2>2, <2>3 DEF MasterInv, MountInv
  <2> QED BY <2>1, <2>4 DEF Kept, MasterInv
<1>3. CASE MarkDirty
  <2>1. /\ wpc = "idle" /\ goal = "dirty" /\ goal' = "mount"
        /\ mst' = [mst EXCEPT !.dirty = TRUE]
        /\ moffs' = IF moffs = Slots THEN 1 ELSE moffs + 1
        /\ wpc' = IF moffs = Slots THEN "unmap1" ELSE "write1"
        /\ UNCHANGED <<mleb, mold, life, ro_mount, need_recovery, rcvrd>>
    BY <1>3 DEF MarkDirty, WriteMaster
  <2>2. life = "mounting" /\ ~rcvrd BY <2>1 DEF MasterInv, MountInv
  <2>3. IsNode(mst') /\ ~mst'.rcvry BY <2>1, DirtyNode
  <2>4. AreaTypes' /\ AreaInv' /\ RegisterStep
    BY <2>1, <2>2, <2>3, AreaAnnounced DEF Mounted
  <2>5. MountInv' BY <1>1, <2>1, <2>2 DEF MasterInv, MountInv
  <2> QED BY <2>4, <2>5 DEF Kept, MasterInv
<1> QED BY <1>2, <1>3 DEF MasterOp

LEMMA MountOrphansKeep ==
    ASSUME MasterInv, MountOrphans
    PROVE  Kept
<1>1. /\ life = "mounting" /\ wpc = "idle" /\ goal = "mount" /\ goal' = "none"
      /\ life' \in {"dead", "ro", "recovering", "rw"}
      /\ (life' \in {"recovering", "rw"} => ~ro_mount)
      /\ UNCHANGED <<mleb, mold, mst, moffs, wpc, ro_mount, need_recovery, rcvrd, cpc>>
  BY DEF MountOrphans
<1>2. cpc = "none" /\ (rcvrd => ro_mount /\ moffs = 1 /\ need_recovery)
  BY <1>1 DEF MasterInv, MountInv
<1>3. AreaTypes' /\ AreaInv' /\ RegisterStep BY <1>1, AreaLeft DEF Mounted
<1>4. MountInv' BY <1>1, <1>2 DEF MountInv
<1> QED BY <1>3, <1>4 DEF Kept, MasterInv

LEMMA RemountRwKeeps ==
    ASSUME MasterInv, RemountRw
    PROVE  Kept
<1>1. /\ life = "ro" /\ goal = "none" /\ goal' = "remount" /\ ~rcvrd'
      /\ mst' = [mst EXCEPT !.dirty = TRUE]
      /\ UNCHANGED <<mleb, mold, life, need_recovery, cpc>>
  BY DEF RemountRw
<1>2. wpc = "idle" /\ cpc = "none" BY <1>1 DEF MasterInv, MountInv
<1>3. IsNode(mst') /\ ~mst'.rcvry BY <1>1, DirtyNode
<1>4. MountInv' BY <1>1, <1>2 DEF MountInv
<1>5. AreaTypes' /\ AreaInv' /\ RegisterStep
  <2>1. CASE ~need_recovery
    <3>1. /\ ~rcvrd /\ moffs' = (IF moffs = Slots THEN 1 ELSE moffs + 1)
          /\ wpc' = (IF moffs = Slots THEN "unmap1" ELSE "write1")
      BY <2>1 DEF RemountRw, MasterInv, MountInv
    <3> QED BY <1>1, <1>2, <1>3, <3>1, AreaAnnounced DEF Mounted
  <2>2. CASE need_recovery
    <3>1. moffs' = moffs /\ wpc' = (IF rcvrd THEN "rcv1" ELSE "idle") BY <2>2 DEF RemountRw
    <3>2. /\ (rcvrd => moffs = 1) /\ Recoverable /\ mold[1] = <<>> /\ mold[2] = <<>>
          /\ (~rcvrd => Same(mleb[1], mleb[2], moffs))
      BY <1>1, <1>2 DEF MasterInv, MountInv, AreaInv, Mounted
    <3>3. AreaTypes' BY <1>1, <1>3, <3>1 DEF MasterInv, AreaTypes
    <3>4. AreaInv' BY <1>1, <3>1, <3>2 DEF AreaInv, Recoverable
    <3>5. RegisterStep
      BY <1>1, <1>2, <3>1 DEF RegisterStep, Register!Next, Register!Begin, Register!rvars
    <3> QED BY <3>3, <3>4, <3>5
  <2> QED BY <2>1, <2>2
<1> QED BY <1>4, <1>5 DEF Kept, MasterInv

LEMMA RemountDoneKeeps ==
    ASSUME MasterInv, RemountDone
    PROVE  Kept
<1>1. /\ life = "ro" /\ goal = "remount" /\ wpc = "idle" /\ goal' = "none"
      /\ life' \in {"recovering", "rw"} /\ UNCHANGED <<mleb, mold, mst, moffs, wpc, rcvrd, cpc>>
  BY DEF RemountDone, ovars
<1>2. ~rcvrd /\ cpc = "none" BY <1>1 DEF MasterInv, MountInv
<1>3. AreaTypes' /\ AreaInv' /\ RegisterStep BY <1>1, <1>2, AreaLeft DEF Mounted
<1>4. MountInv' BY <1>1, <1>2 DEF MountInv
<1> QED BY <1>3, <1>4 DEF Kept, MasterInv

-----------------------------------------------------------------------------
LEMMA MasterStarts ==
    ASSUME Init
    PROVE  MasterInv /\ Register!Init
<1> DEFINE body == Body([i \in Inos |-> "linked"], 1, 0, TRUE)
           n == Node(body, FALSE, FALSE)
<1>1. /\ mleb = [k \in Areas |-> <<n>>] /\ mold = [k \in Areas |-> <<>>] /\ mst = n
      /\ moffs = 1 /\ wpc = "idle" /\ goal = "none" /\ life = "off" /\ ~rcvrd /\ cpc = "none"
  BY DEF Init, MasterInit
<1> HIDE DEF body
<1>2. IsNode(n) /\ ~n.rcvry BY DEF IsNode, Node
<1> HIDE DEF n
<1>3. mleb[1] = <<n>> /\ mleb[2] = <<n>> /\ mold[1] = <<>> /\ mold[2] = <<>>
  BY <1>1 DEF Areas
<1>4. Clean(<<n>>) /\ Len(<<n>>) = 1 /\ 1 \in 1 .. Slots BY <1>2, OneNode, MasterSlots
<1>5. Same(mleb[1], mleb[2], 1) BY <1>3, <1>4 DEF Same
<1>6. Recoverable BY <1>5, ReadsClean DEF Reads, Recoverable
<1>7. AreaTypes
  <2>1. mleb = [k \in Areas |-> mleb[k]] /\ mold = [k \in Areas |-> mold[k]] BY <1>1
  <2>2. \A k \in Areas : Leb(mleb[k]) BY <1>3, <1>4 DEF Areas, Clean
  <2> QED BY <1>1, <1>2, <1>4, <2>1, <2>2 DEF AreaTypes
<1>8. AreaInv BY <1>1, <1>3, <1>6 DEF AreaInv, Mounted
<1>9. MountInv BY <1>1 DEF MountInv
<1>10. Register!Init BY <1>1 DEF Register!Init
<1> QED BY <1>7, <1>8, <1>9, <1>10 DEF MasterInv

LEMMA MasterStep ==
    ASSUME Exact, MasterInv, [Next]_vars
    PROVE  Kept
<1>1. CASE UNCHANGED vars BY <1>1, OrphansKeep DEF vars, ovars
<1>2. ASSUME NEW i \in Inos, Unlink(i) \/ Evict(i) PROVE Kept
  BY <1>2, OrphansKeep DEF Unlink, Evict, mvars
<1>3. CASE CommitStart BY <1>3, OrphansKeep DEF CommitStart
<1>4. CASE CommitOrphans BY <1>4, OrphansKeep DEF CommitOrphans
<1>5. CASE FillOrphNode \/ WriteOrphNode
  <2>1. CASE FillOrphNode BY <2>1, OrphansKeep DEF FillOrphNode, OrphansGoOut
  <2>2. CASE WriteOrphNode BY <2>2, OrphansKeep DEF WriteOrphNode
  <2> QED BY <1>5, <2>1, <2>2
<1>6. CASE UnmapUnused BY <1>6, OrphansKeep DEF UnmapUnused
<1>7. CASE EraseDeleted BY <1>7, EraseKeeps
<1>8. CASE CommitEnd BY <1>8, CommitEndKeeps
<1>9. ASSUME NEW for \in {"umount", "ro"}, LeaveClean(for) PROVE Kept
  BY <1>9, LeaveCleanKeeps
<1>10. CASE Unmounted BY <1>10, UnmountedKeeps
<1>11. CASE ReadOnlyNow BY <1>11, ReadOnlyKeeps
<1>12. CASE PowerCut BY <1>12, AreaCut DEF PowerCut, Forget, Kept, MasterInv
<1>13. ASSUME NEW ro \in BOOLEAN, Mount(ro) PROVE Kept
  BY <1>13, AreaMounted DEF Mount, Kept, MasterInv
<1>14. CASE MasterOp BY <1>14, MasterOpKeeps
<1>15. CASE MountOrphans BY <1>15, MountOrphansKeep
<1>16. CASE RemountRw BY <1>16, RemountRwKeeps
<1>17. CASE RemountDone BY <1>17, RemountDoneKeeps
<1> QED
  BY <1>1, <1>2, <1>3, <1>4, <1>5, <1>6, <1>7, <1>8, <1>9, <1>10, <1>11, <1>12,
     <1>13, <1>14, <1>15, <1>16, <1>17 DEF Next, Commit

\* Whatever the file system does and whenever the power is cut, the invariant
\* holds: it is inductive.
THEOREM MasterInvariant == Exact => (Spec => []MasterInv)
<1> SUFFICES ASSUME Exact PROVE Spec => []MasterInv
  OBVIOUS
<1>1. Init => MasterInv BY MasterStarts
<1>2. MasterInv /\ [Next]_vars => MasterInv' BY MasterStep DEF Kept
<1> QED BY <1>1, <1>2, PTL DEF Spec

\* The master area can be read at every moment, and what a cut of the power
\* leaves of it says the same (ubifs_recover_master_node()); the node is only
\* written to erased flash (ubifs_write_master()).
THEOREM MasterAlwaysReadable == Exact => (Spec => []MasterReadable)
<1> SUFFICES ASSUME Exact PROVE Spec => []MasterReadable
  OBVIOUS
<1>1. MasterInv => MasterReadable BY InvImpliesReadable DEF MasterInv
<1>2. Spec => []MasterInv BY MasterInvariant
<1> QED BY <1>1, <1>2, PTL

\* The two LEBs, the rules of recovery and the order of the writes implement
\* one register: a master node is written at one instant or never.
THEOREM MasterIsAtomic == Exact => (Spec => Atomic)
<1> SUFFICES ASSUME Exact PROVE Spec => Atomic
  OBVIOUS
<1>1. Init => Register!Init BY MasterStarts
<1>2. MasterInv /\ [Next]_vars => [Register!Next]_(Register!rvars)
  BY MasterStep DEF Kept, RegisterStep
<1>3. Spec => []MasterInv BY MasterInvariant
<1> QED BY <1>1, <1>2, <1>3, PTL DEF Spec, Atomic, Register!Spec
=============================================================================
