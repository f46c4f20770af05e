---------------------------- MODULE UbiVolProofs ----------------------------
(***************************************************************************)
(* Proofs about UbiVol: the counters of volumes and of PEBs are in order,  *)
(* a change of the volume table is atomic, the volumes in RAM are those of *)
(* the table, and no volume shows old contents.                            *)
(*                                                                         *)
(* One invariant is proved after the other, each with those before it:     *)
(* HolderInv (users and requests), FlashTypes, PebInv (PEBs), LayInv (the  *)
(* layout volume), TableInv (the table and the volumes) and DataInv (the   *)
(* LEBs).                                                                  *)
(***************************************************************************)
EXTENDS UbiVol, FiniteSums

-----------------------------------------------------------------------------
(*****************************************************************************)
(* How volumes and the processes that use them are counted.                  *)
(*****************************************************************************)

\* min_t() of two numbers.
LEMMA MinTwo == ASSUME NEW a \in Int, NEW b \in Int PROVE Min({a, b}) = IF a <= b THEN a ELSE b
<1> DEFINE P(m) == m \in {a, b} /\ \A y \in {a, b} : m <= y
           r == IF a <= b THEN a ELSE b
<1>1. P(r) OBVIOUS
<1>2. \A m : P(m) => m = r OBVIOUS
<1>3. Min({a, b}) = CHOOSE m : P(m) BY DEF Min
<1> HIDE DEF P
<1> QED BY <1>1, <1>2, <1>3

\* max_t() of two numbers.
LEMMA MaxTwo == ASSUME NEW a \in Int, NEW b \in Int PROVE Max({a, b}) = IF a >= b THEN a ELSE b
<1> DEFINE P(m) == m \in {a, b} /\ \A y \in {a, b} : m >= y
           r == IF a >= b THEN a ELSE b
<1>1. P(r) OBVIOUS
<1>2. \A m : P(m) => m = r OBVIOUS
<1>3. Max({a, b}) = CHOOSE m : P(m) BY DEF Max
<1> HIDE DEF P
<1> QED BY <1>1, <1>2, <1>3

\* The lowest volume ID of a set of volumes is one of them.
LEMMA MinVol == ASSUME NEW S, S \subseteq Vols, S # {} PROVE Min(S) \in S
<1>1. IsWellFoundedOn(OpToRel(<, Nat), Nat) BY NatLessThanWellFounded
<1>2. S \subseteq Nat BY VolSizes
<1>3. PICK x \in S : \A y \in S : ~(<<y, x>> \in OpToRel(<, Nat)) BY <1>1, <1>2, WFMin
<1>4. \A y \in S : ~ y < x BY <1>2, <1>3 DEF OpToRel
<1>5. x \in S /\ \A y \in S : x <= y BY <1>2, <1>4
<1> QED BY <1>5 DEF Min

\* Two states of a volume that differ in their users at most.
SameVolume(r, q) ==
    /\ q.size = r.size /\ q.name = r.name /\ q.mark = r.mark /\ q.listed = r.listed

\* ubi_open_volume() counts one more user and leaves the rest of the volume.
LEMMA EnteredIs ==
    ASSUME NEW r \in Volumes, NEW m \in Modes
    PROVE  /\ Entered(r, m) \in Volumes
           /\ SameVolume(r, Entered(r, m)) /\ Entered(r, m).updating = r.updating
           /\ Entered(r, m).refs = r.refs + 1
           /\ \A k \in Modes : Entered(r, m).use[k] = IF k = m THEN r.use[k] + 1 ELSE r.use[k]
<1> DEFINE u == [r.use EXCEPT ![m] = r.use[m] + 1]
<1>1. u \in [Modes -> Nat] /\ \A k \in Modes : u[k] = IF k = m THEN r.use[k] + 1 ELSE r.use[k]
  BY DEF Volumes
<1>2. r.refs + 1 \in Nat BY DEF Volumes
<1>3. Entered(r, m) = [r EXCEPT !.use = u, !.refs = r.refs + 1] BY DEF Entered
<1> HIDE DEF u
<1>4. Entered(r, m) \in Volumes BY <1>1, <1>2, <1>3 DEF Volumes
<1>5. Entered(r, m).use = u /\ Entered(r, m).refs = r.refs + 1 BY <1>3 DEF Volumes
<1>6. SameVolume(r, Entered(r, m)) /\ Entered(r, m).updating = r.updating
  BY <1>3 DEF Volumes, SameVolume
<1> QED BY <1>1, <1>4, <1>5, <1>6

\* ubi_close_volume() counts one user less and leaves the rest of the volume.
LEMMA LeftIs ==
    ASSUME NEW r \in Volumes, NEW m \in Modes, r.use[m] > 0, r.refs > 0
    PROVE  /\ Left(r, m) \in Volumes
           /\ SameVolume(r, Left(r, m)) /\ Left(r, m).updating = r.updating
           /\ Left(r, m).refs = r.refs - 1
           /\ \A k \in Modes : Left(r, m).use[k] = IF k = m THEN r.use[k] - 1 ELSE r.use[k]
<1> DEFINE u == [r.use EXCEPT ![m] = r.use[m] - 1]
<1>0. r.use \in [Modes -> Nat] /\ r.refs \in Nat BY DEF Volumes
<1>1. u \in [Modes -> Nat] /\ \A k \in Modes : u[k] = IF k = m THEN r.use[k] - 1 ELSE r.use[k]
  BY <1>0
<1>2. r.refs - 1 \in Nat BY <1>0
<1>3. Left(r, m) = [r EXCEPT !.use = u, !.refs = r.refs - 1] BY DEF Left
<1> HIDE DEF u
<1>4. Left(r, m) \in Volumes BY <1>1, <1>2, <1>3 DEF Volumes
<1>5. Left(r, m).use = u /\ Left(r, m).refs = r.refs - 1 BY <1>3 DEF Volumes
<1>6. SameVolume(r, Left(r, m)) /\ Left(r, m).updating = r.updating
  BY <1>3 DEF Volumes, SameVolume
<1> QED BY <1>1, <1>4, <1>5, <1>6

Holding(D, m) == {c \in Clients : D[c] = m}
Anyone(D) == {c \in Clients : D[c] # None}
Uses == [Clients -> Modes \cup {None}]

Alone(D) ==
    /\ \A c, d \in Clients : D[c] = "ex" /\ D[d] # None => c = d
    /\ \A c, d \in Clients : D[c] = "rw" /\ D[d] = "rw" => c = d

\* The counters of volume r, open in the modes D, shown by the processes S.
Counts(r, D, S) ==
    /\ Anyone(D) \cup S # {} => r # None
    /\ r # None => /\ \A m \in Modes : r.use[m] = Cardinality(Holding(D, m))
                   /\ r.refs = Cardinality(Anyone(D)) + Cardinality(S)
    /\ Alone(D)

\* How many processes are in a set, after one of them enters or leaves.
LEMMA ClientSets ==
    ASSUME NEW S \in SUBSET Clients
    PROVE  /\ IsFiniteSet(S) /\ Cardinality(S) \in Nat
           /\ Cardinality(S) = 0 <=> S = {}
           /\ \A c \in Clients :
                Cardinality(S \cup {c}) = IF c \in S THEN Cardinality(S) ELSE Cardinality(S) + 1
           /\ \A c \in Clients :
                Cardinality(S \ {c}) = IF c \in S THEN Cardinality(S) - 1 ELSE Cardinality(S)
<1>1. IsFiniteSet(S) BY VolSizes, FS_Subset
<1> QED BY <1>1, FS_CardinalityType, FS_EmptySet, FS_AddElement, FS_RemoveElement

\* Who has a volume open is a process.
LEMMA HoldingSubset == \A D, m : Holding(D, m) \in SUBSET Clients /\ Anyone(D) \in SUBSET Clients
BY DEF Holding, Anyone

\* Nobody, or nobody in such a mode, has a volume open whose counter is 0.
LEMMA NobodyHolds ==
    ASSUME NEW r \in Volumes, NEW D \in Uses, NEW S \in SUBSET Clients, Counts(r, D, S),
           NEW m \in Modes
    PROVE  /\ r.use[m] = 0 <=> \A c \in Clients : D[c] # m
           /\ r.use[m] > 0 <=> \E c \in Clients : D[c] = m
<1>1. r # None BY VolNone
<1>2. r.use[m] = Cardinality(Holding(D, m)) BY <1>1 DEF Counts
<1>3. r.use[m] \in Nat /\ (r.use[m] = 0 <=> Holding(D, m) = {})
  BY <1>2, ClientSets, HoldingSubset
<1> QED BY <1>3 DEF Holding

\* The three modes of a descriptor are different ones.
LEMMA ModesDiffer == "ro" # "rw" /\ "ro" # "ex" /\ "rw" # "ex" /\ None \notin Modes
BY VolNone

\* The counters stay right when a process opens the volume (kapi.c).
LEMMA CountsEnter ==
    ASSUME NEW r \in Volumes, NEW D \in Uses, NEW S \in SUBSET Clients, Counts(r, D, S),
           NEW c \in Clients, D[c] = None, NEW m \in Modes,
           r.use["ex"] = 0, m \in {"rw", "ex"} => r.use["rw"] = 0, m = "ex" => r.use["ro"] = 0
    PROVE  Counts(Entered(r, m), [D EXCEPT ![c] = m], S)
<1> DEFINE E == [D EXCEPT ![c] = m]
<1>0. r # None /\ Entered(r, m) # None BY VolNone, EnteredIs
<1>1. \A d \in Clients : E[d] = IF d = c THEN m ELSE D[d] BY DEF Uses
<1>2. \A k \in Modes : Holding(E, k) = IF k = m THEN Holding(D, k) \cup {c} ELSE Holding(D, k)
  BY <1>1, ModesDiffer DEF Holding
<1>3. Anyone(E) = Anyone(D) \cup {c} BY <1>1, ModesDiffer DEF Anyone
<1>4. c \notin Anyone(D) /\ \A k \in Modes : c \notin Holding(D, k)
  BY ModesDiffer DEF Anyone, Holding
<1>5. \A k \in Modes : Entered(r, m).use[k] = Cardinality(Holding(E, k))
  <2> SUFFICES ASSUME NEW k \in Modes PROVE Entered(r, m).use[k] = Cardinality(Holding(E, k))
    OBVIOUS
  <2>1. r.use[k] = Cardinality(Holding(D, k)) BY <1>0 DEF Counts
  <2>2. Entered(r, m).use[k] = IF k = m THEN r.use[k] + 1 ELSE r.use[k] BY EnteredIs
  <2>3. Cardinality(Holding(D, k) \cup {c}) = Cardinality(Holding(D, k)) + 1
    BY <1>4, ClientSets, HoldingSubset
  <2> HIDE DEF E
  <2> QED BY <1>2, <2>1, <2>2, <2>3
<1>6. Entered(r, m).refs = Cardinality(Anyone(E)) + Cardinality(S)
  <2>1. r.refs = Cardinality(Anyone(D)) + Cardinality(S) BY <1>0 DEF Counts
  <2>2. Cardinality(Anyone(E)) = Cardinality(Anyone(D)) + 1
    <3> HIDE DEF E
    <3>1. Anyone(D) \in SUBSET Clients BY HoldingSubset
    <3> QED BY <1>3, <1>4, <3>1, ClientSets
  <2>3. Entered(r, m).refs = r.refs + 1 BY EnteredIs
  <2>4. Cardinality(Anyone(D)) \in Nat /\ Cardinality(S) \in Nat BY ClientSets, HoldingSubset
  <2> QED BY <2>1, <2>2, <2>3, <2>4
<1>7. Alone(E)
  <2>1. \A d \in Clients : D[d] # "ex" BY NobodyHolds DEF Modes
  <2>2. m \in {"rw", "ex"} => \A d \in Clients : D[d] # "rw" BY NobodyHolds DEF Modes
  <2>3. m = "ex" => \A d \in Clients : D[d] # "ro" BY NobodyHolds DEF Modes
  <2>4. \A d \in Clients : D[d] \in {"ro", "rw", "ex", None} BY DEF Uses, Modes
  <2>5. m \in {"ro", "rw", "ex"} BY DEF Modes
  <2>6. Alone(D) BY DEF Counts
  <2> HIDE DEF E
  <2> QED BY <1>1, <2>1, <2>2, <2>3, <2>4, <2>5, <2>6, ModesDiffer DEF Alone
<1> QED BY <1>0, <1>5, <1>6, <1>7 DEF Counts

\* A descriptor is counted: no counter falls below zero at a close.
LEMMA LeftTyped ==
    ASSUME NEW r \in Volumes, NEW D \in Uses, NEW S \in SUBSET Clients, Counts(r, D, S),
           NEW c \in Clients, NEW m \in Modes, D[c] = m
    PROVE  r.use[m] > 0 /\ r.refs > 0
<1>1. r.use[m] > 0 BY NobodyHolds
<1>2. r.refs = Cardinality(Anyone(D)) + Cardinality(S) BY VolNone DEF Counts
<1>3. Anyone(D) # {} BY VolNone DEF Anyone
<1>4. Cardinality(Anyone(D)) \in Nat /\ Cardinality(Anyone(D)) # 0 /\ Cardinality(S) \in Nat
  BY <1>3, ClientSets, HoldingSubset
<1> QED BY <1>1, <1>2, <1>4

\* The counters stay right when a process closes the volume (kapi.c).
LEMMA CountsLeave ==
    ASSUME NEW r \in Volumes, NEW D \in Uses, NEW S \in SUBSET Clients, Counts(r, D, S),
           NEW c \in Clients, NEW m \in Modes, D[c] = m
    PROVE  Left(r, m) \in Volumes /\ Counts(Left(r, m), [D EXCEPT ![c] = None], S)
<1> DEFINE E == [D EXCEPT ![c] = None]
<1>a. r.use[m] > 0 /\ r.refs > 0 BY LeftTyped
<1>b. Left(r, m) \in Volumes BY <1>a, LeftIs
<1>0. r # None /\ Left(r, m) # None BY <1>b, VolNone
<1>1. \A d \in Clients : E[d] = IF d = c THEN None ELSE D[d] BY DEF Uses
<1>2. \A k \in Modes : Holding(E, k) = IF k = m THEN Holding(D, k) \ {c} ELSE Holding(D, k)
  BY <1>1, ModesDiffer DEF Holding
<1>3. Anyone(E) = Anyone(D) \ {c} BY <1>1, ModesDiffer DEF Anyone
<1>4. c \in Anyone(D) /\ c \in Holding(D, m)
  BY ModesDiffer DEF Anyone, Holding
<1>5. \A k \in Modes : Left(r, m).use[k] = Cardinality(Holding(E, k))
  <2> SUFFICES ASSUME NEW k \in Modes PROVE Left(r, m).use[k] = Cardinality(Holding(E, k))
    OBVIOUS
  <2>1. r.use[k] = Cardinality(Holding(D, k)) BY <1>0 DEF Counts
  <2>2. Left(r, m).use[k] = IF k = m THEN r.use[k] - 1 ELSE r.use[k] BY <1>a, LeftIs
  <2>3. k = m => Cardinality(Holding(D, k) \ {c}) = Cardinality(Holding(D, k)) - 1
    BY <1>4, ClientSets, HoldingSubset
  <2> HIDE DEF E
  <2> QED BY <1>2, <2>1, <2>2, <2>3
<1>6. Left(r, m).refs = Cardinality(Anyone(E)) + Cardinality(S)
  <2>1. r.refs = Cardinality(Anyone(D)) + Cardinality(S) BY <1>0 DEF Counts
  <2>2. Cardinality(Anyone(E)) = Cardinality(Anyone(D)) - 1
    <3> HIDE DEF E
    <3>1. Anyone(D) \in SUBSET Clients BY HoldingSubset
    <3> QED BY <1>3, <1>4, <3>1, ClientSets
  <2>3. Left(r, m).refs = r.refs - 1 BY <1>a, LeftIs
  <2>4. Cardinality(Anyone(D)) \in Nat /\ Cardinality(S) \in Nat BY ClientSets, HoldingSubset
  <2> QED BY <2>1, <2>2, <2>3, <2>4
<1>7. Alone(E)
  <2>1. Alone(D) BY DEF Counts
  <2> HIDE DEF E
  <2> QED BY <1>1, <2>1, VolNone DEF Alone, Modes
<1> QED BY <1>b, <1>0, <1>5, <1>6, <1>7 DEF Counts

\* ref_count stays right when a read of an attribute begins or ends.
LEMMA CountsShow ==
    ASSUME NEW r \in Volumes, NEW q \in Volumes, NEW D \in Uses, NEW S \in SUBSET Clients,
           Counts(r, D, S), NEW c \in Clients, q.use = r.use
    PROVE  /\ c \notin S /\ q.refs = r.refs + 1 => Counts(q, D, S \cup {c})
           /\ c \in S /\ q.refs = r.refs - 1 => Counts(q, D, S \ {c})
<1>0. r # None /\ q # None BY VolNone
<1>1. /\ \A m \in Modes : r.use[m] = Cardinality(Holding(D, m))
      /\ r.refs = Cardinality(Anyone(D)) + Cardinality(S)
      /\ Alone(D)
  BY <1>0 DEF Counts
<1>2. /\ Cardinality(S \cup {c}) = IF c \in S THEN Cardinality(S) ELSE Cardinality(S) + 1
      /\ Cardinality(S \ {c}) = IF c \in S THEN Cardinality(S) - 1 ELSE Cardinality(S)
      /\ Cardinality(Anyone(D)) \in Nat /\ Cardinality(S) \in Nat
  BY ClientSets, HoldingSubset
<1>3. c \notin S /\ q.refs = r.refs + 1 => q.refs = Cardinality(Anyone(D)) + Cardinality(S \cup {c})
  BY <1>1, <1>2
<1>4. c \in S /\ q.refs = r.refs - 1 => q.refs = Cardinality(Anyone(D)) + Cardinality(S \ {c})
  BY <1>1, <1>2
<1> QED BY <1>0, <1>1, <1>3, <1>4 DEF Counts

\* The counters stay right when another field of the volume changes.
LEMMA CountsOther ==
    ASSUME NEW r \in Volumes, NEW q \in Volumes, NEW D \in Uses, NEW S \in SUBSET Clients,
           Counts(r, D, S), q.use = r.use, q.refs = r.refs
    PROVE  Counts(q, D, S)
BY VolNone DEF Counts

\* A volume without users, or no volume, has counters that are right.
LEMMA NobodyCounts ==
    ASSUME NEW D \in Uses, NEW S \in SUBSET Clients, Anyone(D) = {}, S = {}
    PROVE  /\ Counts(None, D, S)
           /\ \A q \in Volumes : q.use = Unused /\ q.refs = 0 => Counts(q, D, S)
<1>1. \A c \in Clients : D[c] = None BY DEF Anyone
<1>2. Alone(D) BY <1>1, VolNone DEF Alone, Modes
<1>3. \A m \in Modes : Holding(D, m) = {} BY <1>1, VolNone DEF Holding
<1>4. Cardinality({}) = 0 BY FS_EmptySet
<1> QED BY <1>2, <1>3, <1>4 DEF Counts, Unused

\* Who has a volume open in exclusive mode and finds no other reference to it
\* is alone.
LEMMA OnlyHolder ==
    ASSUME NEW r \in Volumes, NEW D \in Uses, NEW S \in SUBSET Clients, Counts(r, D, S),
           NEW c \in Clients, D[c] = "ex"
    PROVE  /\ Anyone(D) = {c} /\ Anyone([D EXCEPT ![c] = None]) = {}
           /\ r.refs <= 1 => S = {}
<1>1. Anyone(D) = {c} BY VolNone DEF Counts, Alone, Anyone, Modes
<1>2. Anyone([D EXCEPT ![c] = None]) = {} BY <1>1 DEF Anyone, Uses
<1>3. r.refs = Cardinality(Anyone(D)) + Cardinality(S) BY VolNone DEF Counts
<1>4. Cardinality(Anyone(D)) = 1 BY <1>1, FS_Singleton
<1>5. Cardinality(S) \in Nat /\ (Cardinality(S) = 0 <=> S = {}) BY ClientSets
<1>6. r.refs <= 1 => Cardinality(S) = 0 BY <1>3, <1>4, <1>5
<1> QED BY <1>1, <1>2, <1>5, <1>6

\* An exclusive descriptor becomes one for writing, or the other way round.
LEMMA CountsSwap ==
    ASSUME NEW r \in Volumes, NEW q \in Volumes, NEW D \in Uses, NEW S \in SUBSET Clients,
           Counts(r, D, S), NEW c \in Clients, Anyone(D) = {c}, NEW m \in Modes,
           q.refs = r.refs, q.use = Only(m)
    PROVE  Counts(q, [D EXCEPT ![c] = m], S)
<1> DEFINE E == [D EXCEPT ![c] = m]
<1>1. \A d \in Clients : E[d] = IF d = c THEN m ELSE None BY DEF Uses, Anyone
<1>2. Anyone(E) = {c} /\ \A k \in Modes : Holding(E, k) = IF k = m THEN {c} ELSE {}
  BY <1>1, VolNone DEF Anyone, Holding
<1> HIDE DEF E
<1>3. Cardinality({c}) = 1 /\ Cardinality({}) = 0 BY FS_EmptySet, FS_Singleton
<1>4. \A k \in Modes : q.use[k] = IF k = m THEN 1 ELSE 0 BY DEF Only, Unused
<1>5. \A k \in Modes : q.use[k] = Cardinality(Holding(E, k)) BY <1>2, <1>3, <1>4
<1>6. q.refs = Cardinality(Anyone(E)) + Cardinality(S) BY <1>2, VolNone DEF Counts
<1>7. Alone(E) BY <1>1, VolNone DEF Alone, Modes
<1>8. q # None BY VolNone
<1> QED BY <1>5, <1>6, <1>7, <1>8 DEF Counts, E

-----------------------------------------------------------------------------
(*****************************************************************************)
(* The holder invariant: who has a volume open, who holds device_mutex, and  *)
(* what the request of a process has open.                                   *)
(*****************************************************************************)

HasMutex(p) == p \in {"flush", "table", "apply"}
OneVolume == {"remove", "resize", "mark", "clear"}

\* The volumes open in the modes D are those of S, in exclusive mode.
Owns(D, S) == \A v \in Vols : D[v] = IF v \in S THEN "ex" ELSE None

\* What a process that is at p with the request j has open.
JobRule(p, j, D) ==
    /\ p = "idle" => \A v, w \in Vols : D[v] # None /\ D[w] # None => v = w
    /\ p = "show" => j.vol \in Vols /\ Owns(D, {})
    /\ p = "flush" => j.op = "create"
    /\ p = "lock" => j.op \in OneVolume \cup {"rename"}
    /\ p \in {"table", "apply"} => j.op # "none"
    /\ p \in {"flush", "lock", "table", "apply"} =>
        /\ j.op = "create" => /\ j.vol \in Vols /\ Owns(D, {})
                              /\ j.rec \in Records /\ j.rec.size > 0
                              /\ j.rec.name \in Names /\ ~j.rec.mark
        /\ j.op \in OneVolume => j.vol \in Vols /\ Owns(D, {j.vol})
        /\ j.op = "resize" => j.rec \in Records /\ j.rec.size > 0
        /\ j.op \in {"mark", "clear"} => j.rec \in Records
        /\ j.op = "rename" => j.todo = {} /\ Owns(D, Listed(j))
    /\ p \in {"rnopen", "rnfind", "rnnamed"} => j.op = "rename" /\ j.todo \subseteq DOMAIN j.names
    /\ p = "rnopen" => j.drop = {} /\ Owns(D, DOMAIN j.names \ j.todo)
    /\ p \in {"rnfind", "rnnamed"} => Owns(D, Listed(j))
    /\ p = "rnnamed" => j.vol \in Vols
    /\ p \in {"wipe", "write"} => j.op = "mark" /\ j.vol \in Vols /\ Owns(D, {j.vol})

UsesOf(v) == [c \in Clients |-> desc[c][v]]
Readers(v) == {c \in Clients : pc[c] = "show" /\ job[c].vol = v}

\* The volume v is being removed by a process at p with request j.
RemoveOf(p, j, v) == p \in {"table", "apply"} /\ j.op = "remove" /\ j.vol = v

HolderTypes ==
    /\ dev \in {"on", "refused"} /\ ro \in BOOLEAN
    /\ vols \in [Vols -> Volumes \cup {None}]
    /\ vtbl \in Tables
    /\ mutex \in Clients \cup {None}
    /\ pc \in [Clients -> Pcs] /\ job \in [Clients -> Jobs]
    /\ desc \in [Clients -> [Vols -> Modes \cup {None}]]
    /\ torn \subseteq Vols

MutexRule == \A c \in Clients : HasMutex(pc[c]) <=> mutex = c
JobInv == \A c \in Clients : JobRule(pc[c], job[c], desc[c])
Counted == \A v \in Vols : Counts(vols[v], UsesOf(v), Readers(v))

\* Which volumes exist and can be found.
LifeInv ==
    /\ \A v \in Vols : vols[v] # None /\ ~vols[v].listed =>
            \E c \in Clients : RemoveOf(pc[c], job[c], v)
    /\ \A c \in Clients, v \in Vols : RemoveOf(pc[c], job[c], v) =>
            vols[v] # None /\ ~vols[v].listed /\ Readers(v) = {}
    /\ \A c \in Clients : HasMutex(pc[c]) /\ job[c].op = "create" => vols[job[c].vol] = None
    /\ dev = "refused" => /\ vols = Closed /\ torn = {}
                          /\ \A c \in Clients : pc[c] = "idle" /\ desc[c] = Closed
    /\ \A c \in Clients, v \in torn : desc[c][v] # None => pc[c] # "idle" /\ job[c].op = "rename"

HolderInv == HolderTypes /\ MutexRule /\ JobInv /\ Counted /\ LifeInv

\* The types of the users of a volume.
LEMMA UsesTyped ==
    ASSUME HolderTypes, NEW v \in Vols
    PROVE  UsesOf(v) \in Uses /\ Readers(v) \in SUBSET Clients
BY DEF HolderTypes, UsesOf, Readers, Uses

\* A step of process c that leaves it at p with request j and the volumes open
\* in the modes D.
Moves(c, p, j, D) ==
    /\ p \in Pcs /\ j \in Jobs /\ D \in [Vols -> Modes \cup {None}]
    /\ pc' = [pc EXCEPT ![c] = p] /\ job' = [job EXCEPT ![c] = j] /\ desc' = [desc EXCEPT ![c] = D]
    /\ IF HasMutex(p) THEN mutex' = c /\ mutex \in {c, None}
       ELSE mutex' = IF HasMutex(pc[c]) THEN None ELSE mutex
    /\ JobRule(p, j, D)

\* It leaves counters that are right.
MovesCounts(c, p, j, D) ==
    \A v \in Vols : Counts(vols'[v], [UsesOf(v) EXCEPT ![c] = D[v]],
        IF p = "show" /\ j.vol = v THEN Readers(v) \cup {c} ELSE Readers(v) \ {c})

\* Only a removal hides a volume, and only the end of an operation makes one.
MovesLife(c, p, j, D) ==
    /\ \A v \in Vols : vols'[v] # None /\ ~vols'[v].listed =>
          RemoveOf(p, j, v) \/ (vols[v] # None /\ ~vols[v].listed /\ ~RemoveOf(pc[c], job[c], v))
    /\ \A v \in Vols : RemoveOf(p, j, v) => vols'[v] # None /\ ~vols'[v].listed /\ Readers(v) = {}
    /\ \A v \in Vols : vols[v] # None /\ ~vols[v].listed /\ ~RemoveOf(pc[c], job[c], v) =>
          vols'[v] # None /\ ~vols'[v].listed
    /\ p = "show" => vols[j.vol] # None /\ vols[j.vol].listed
    /\ HasMutex(p) /\ j.op = "create" => vols'[j.vol] = None
    /\ HasMutex(pc[c]) \/ \A v \in Vols : vols[v] = None => vols'[v] = None
    /\ \A v \in torn' : D[v] # None => p # "idle" /\ j.op = "rename"
    /\ \A v \in torn', d \in Clients \ {c} : v \in torn \/ desc[d][v] = None

DeviceOn == dev = "on" /\ dev' = dev /\ ro' \in BOOLEAN /\ torn' \subseteq Vols

\* A step of one process preserves the holder invariant when the process ends
\* where its request allows it and the counters and the volumes are right.
LEMMA ClientStep ==
    ASSUME HolderInv, NEW c \in Clients, NEW p, NEW j, NEW D,
           DeviceOn, vols' \in [Vols -> Volumes \cup {None}], vtbl' \in Tables,
           Moves(c, p, j, D), MovesCounts(c, p, j, D), MovesLife(c, p, j, D)
    PROVE  HolderInv'
<1> USE DEF DeviceOn, Moves, MovesCounts, MovesLife
<1>0. HolderTypes BY DEF HolderInv
<1>1. /\ pc'[c] = p /\ job'[c] = j /\ desc'[c] = D
      /\ \A d \in Clients \ {c} : pc'[d] = pc[d] /\ job'[d] = job[d] /\ desc'[d] = desc[d]
  BY <1>0 DEF HolderTypes
<1>2. HolderTypes'
  <2>1. pc' \in [Clients -> Pcs] /\ job' \in [Clients -> Jobs]
        /\ desc' \in [Clients -> [Vols -> Modes \cup {None}]]
    BY <1>0 DEF HolderTypes
  <2>2. mutex' \in Clients \cup {None} BY <1>0 DEF HolderTypes
  <2> QED BY <1>0, <2>1, <2>2 DEF HolderTypes
<1>3. MutexRule'
  <2>1. MutexRule BY DEF HolderInv
  <2>2. mutex' = c <=> HasMutex(p) BY <2>1, VolNone DEF MutexRule
  <2>3. \A d \in Clients \ {c} : mutex' = d <=> mutex = d BY <2>1, VolNone DEF MutexRule
  <2> QED BY <1>1, <2>1, <2>2, <2>3 DEF MutexRule
<1>4. JobInv' BY <1>1 DEF JobInv, HolderInv
<1>5. \A v \in Vols : UsesOf(v)' = [UsesOf(v) EXCEPT ![c] = D[v]]
  BY <1>0, <1>1 DEF UsesOf, HolderTypes
<1>6. \A v \in Vols : Readers(v)' = IF p = "show" /\ j.vol = v THEN Readers(v) \cup {c} ELSE Readers(v) \ {c}
  BY <1>1 DEF Readers
<1>7. Counted'
  <2> SUFFICES ASSUME NEW v \in Vols PROVE Counts(vols'[v], UsesOf(v)', Readers(v)')
    BY DEF Counted
  <2> QED BY <1>5, <1>6
<1>8. \A v \in Vols : vols'[v] # None /\ ~vols'[v].listed => \E d \in Clients : RemoveOf(pc'[d], job'[d], v)
  <2> SUFFICES ASSUME NEW v \in Vols, vols'[v] # None, ~vols'[v].listed
               PROVE  \E d \in Clients : RemoveOf(pc'[d], job'[d], v)
    OBVIOUS
  <2>1. CASE RemoveOf(p, j, v) BY <2>1, <1>1
  <2>2. CASE vols[v] # None /\ ~vols[v].listed /\ ~RemoveOf(pc[c], job[c], v)
    <3>1. PICK d \in Clients : RemoveOf(pc[d], job[d], v) BY <2>2 DEF HolderInv, LifeInv
    <3>2. d # c BY <2>2, <3>1
    <3> QED BY <1>1, <3>1, <3>2
  <2> QED BY <2>1, <2>2
<1>9. \A d \in Clients, v \in Vols : RemoveOf(pc'[d], job'[d], v) =>
          vols'[v] # None /\ ~vols'[v].listed /\ Readers(v)' = {}
  <2> SUFFICES ASSUME NEW d \in Clients, NEW v \in Vols, RemoveOf(pc'[d], job'[d], v)
               PROVE  vols'[v] # None /\ ~vols'[v].listed /\ Readers(v)' = {}
    OBVIOUS
  <2>1. CASE d = c
    <3>1. RemoveOf(p, j, v) BY <1>1, <2>1
    <3>2. p # "show" BY <3>1 DEF RemoveOf
    <3> QED BY <3>1, <3>2, <1>6
  <2>2. CASE d # c
    <3>1. RemoveOf(pc[d], job[d], v) BY <1>1, <2>2
    <3>2. vols[v] # None /\ ~vols[v].listed /\ Readers(v) = {} BY <3>1 DEF HolderInv, LifeInv
    <3>3. mutex = d BY <3>1 DEF HolderInv, MutexRule, RemoveOf, HasMutex
    <3>4. ~HasMutex(pc[c]) BY <2>2, <3>3 DEF HolderInv, MutexRule
    <3>5. ~RemoveOf(pc[c], job[c], v) BY <3>4 DEF RemoveOf, HasMutex
    <3>6. ~(p = "show" /\ j.vol = v) BY <3>2
    <3> QED BY <3>2, <3>5, <3>6, <1>6
  <2> QED BY <2>1, <2>2
<1>10. \A d \in Clients : HasMutex(pc'[d]) /\ job'[d].op = "create" => vols'[job'[d].vol] = None
  <2> SUFFICES ASSUME NEW d \in Clients, HasMutex(pc'[d]), job'[d].op = "create"
               PROVE  vols'[job'[d].vol] = None
    OBVIOUS
  <2>1. CASE d = c BY <2>1, <1>1
  <2>2. CASE d # c
    <3>1. HasMutex(pc[d]) /\ job[d].op = "create" BY <1>1, <2>2
    <3>2. mutex = d BY <3>1 DEF HolderInv, MutexRule
    <3>3. ~HasMutex(pc[c]) BY <2>2, <3>2 DEF HolderInv, MutexRule
    <3>4. vols[job[d].vol] = None BY <3>1 DEF HolderInv, LifeInv
    <3>5. job[d].vol \in Vols BY <3>1 DEF HolderInv, JobInv, JobRule, HasMutex
    <3> QED BY <1>1, <2>2, <3>3, <3>4, <3>5
  <2> QED BY <2>1, <2>2
<1>11. dev' # "refused" OBVIOUS
<1>12. \A d \in Clients, v \in torn' : desc'[d][v] # None => pc'[d] # "idle" /\ job'[d].op = "rename"
  BY <1>1 DEF HolderInv, LifeInv
<1>13. LifeInv' BY <1>8, <1>9, <1>10, <1>11, <1>12 DEF LifeInv
<1> QED BY <1>2, <1>3, <1>4, <1>7, <1>13 DEF HolderInv

\* What changes neither volumes nor requests preserves the holder invariant.
LEMMA HolderFrame ==
    ASSUME HolderInv, UNCHANGED <<dev, vols, vtbl, mutex, pc, job, desc, torn>>, ro' \in BOOLEAN
    PROVE  HolderInv'
<1>1. HolderTypes' BY DEF HolderInv, HolderTypes
<1>2. MutexRule' BY DEF HolderInv, MutexRule
<1>3. JobInv' BY DEF HolderInv, JobInv
<1>4. Counted' BY DEF HolderInv, Counted, UsesOf, Readers
<1>5. LifeInv' BY DEF HolderInv, LifeInv, Readers
<1> QED BY <1>1, <1>2, <1>3, <1>4, <1>5 DEF HolderInv

\* A step of process c that touches neither a volume nor a descriptor.
LEMMA QuietStep ==
    ASSUME HolderInv, NEW c \in Clients, NEW p \in Pcs, NEW j \in Jobs,
           dev = "on", UNCHANGED <<dev, vols, desc, torn>>, ro' \in BOOLEAN, vtbl' \in Tables,
           pc' = [pc EXCEPT ![c] = p], job' = [job EXCEPT ![c] = j],
           IF HasMutex(p) THEN mutex' = c /\ mutex \in {c, None}
           ELSE mutex' = IF HasMutex(pc[c]) THEN None ELSE mutex,
           JobRule(p, j, desc[c]),
           p # "show", pc[c] # "show",
           \A v \in Vols : RemoveOf(p, j, v) <=> RemoveOf(pc[c], job[c], v),
           HasMutex(p) /\ j.op = "create" => vols[j.vol] = None,
           \A v \in torn : desc[c][v] # None => p # "idle" /\ j.op = "rename"
    PROVE  HolderInv'
<1>0. HolderTypes BY DEF HolderInv
<1> DEFINE D == desc[c]
<1>1. D \in [Vols -> Modes \cup {None}] BY <1>0 DEF HolderTypes
<1>2. desc' = [desc EXCEPT ![c] = D] BY <1>0 DEF HolderTypes
<1>3. \A v \in Vols : [UsesOf(v) EXCEPT ![c] = D[v]] = UsesOf(v) BY DEF UsesOf
<1>4. \A v \in Vols : Readers(v) \ {c} = Readers(v) BY DEF Readers
<1>5. \A v \in Vols : Counts(vols'[v], [UsesOf(v) EXCEPT ![c] = D[v]],
          IF p = "show" /\ j.vol = v THEN Readers(v) \cup {c} ELSE Readers(v) \ {c})
  <2> SUFFICES ASSUME NEW v \in Vols
               PROVE  Counts(vols[v], [UsesOf(v) EXCEPT ![c] = D[v]], Readers(v) \ {c})
    OBVIOUS
  <2>1. Counts(vols[v], UsesOf(v), Readers(v)) BY DEF HolderInv, Counted
  <2> HIDE DEF D
  <2> QED BY <1>3, <1>4, <2>1
<1>6. \A v \in Vols : RemoveOf(p, j, v) => vols'[v] # None /\ ~vols'[v].listed /\ Readers(v) = {}
  BY DEF HolderInv, LifeInv
<1>7. \A v \in Vols : vols'[v] # None /\ ~vols'[v].listed =>
          RemoveOf(p, j, v) \/ (vols[v] # None /\ ~vols[v].listed /\ ~RemoveOf(pc[c], job[c], v))
  OBVIOUS
<1>8. vols' \in [Vols -> Volumes \cup {None}] /\ torn' \subseteq Vols BY <1>0 DEF HolderTypes
<1> HIDE DEF D
<1>9. \A v \in torn' : D[v] # None => p # "idle" /\ j.op = "rename" BY DEF D
<1>10. Moves(c, p, j, D) BY <1>1, <1>2 DEF Moves, D
<1>11. MovesCounts(c, p, j, D) BY <1>5 DEF MovesCounts
<1>12. MovesLife(c, p, j, D) BY <1>6, <1>7, <1>9 DEF MovesLife
<1>13. DeviceOn BY <1>8 DEF DeviceOn
<1> QED BY <1>8, <1>10, <1>11, <1>12, <1>13, ClientStep

\* Process c closes what it has open; before that the volumes are vs.
LEMMA ClosedByIs ==
    ASSUME HolderTypes, NEW c \in Clients, NEW vs \in [Vols -> Volumes \cup {None}],
           NEW v \in Vols, vs[v] # None => Counts(vs[v], UsesOf(v), Readers(v)),
           vs[v] = None => Anyone([UsesOf(v) EXCEPT ![c] = None]) = {} /\ Readers(v) = {}
    PROVE  /\ ClosedBy(vs, c)[v] \in Volumes \cup {None}
           /\ ClosedBy(vs, c)[v] = None <=> vs[v] = None
           /\ vs[v] # None => SameVolume(vs[v], ClosedBy(vs, c)[v])
           /\ Counts(ClosedBy(vs, c)[v], [UsesOf(v) EXCEPT ![c] = None], Readers(v))
<1> DEFINE m == desc[c][v]
<1>1. UsesOf(v)[c] = m BY DEF UsesOf
<1>2. m \in Modes \cup {None} /\ UsesOf(v) \in Uses /\ Readers(v) \in SUBSET Clients
  BY UsesTyped DEF HolderTypes
<1>3. ClosedBy(vs, c)[v] = IF vs[v] = None \/ m = None THEN vs[v] ELSE Left(vs[v], m)
  BY DEF ClosedBy
<1> HIDE DEF m
<1>4. CASE vs[v] = None
  <2>1. [UsesOf(v) EXCEPT ![c] = None] \in Uses BY <1>2 DEF Uses
  <2>2. Counts(None, [UsesOf(v) EXCEPT ![c] = None], Readers(v)) BY <1>4, <1>2, <2>1, NobodyCounts
  <2> QED BY <1>3, <1>4, <2>2
<1>5. CASE vs[v] # None /\ m = None
  <2>1. [UsesOf(v) EXCEPT ![c] = None] = UsesOf(v) BY <1>1, <1>2, <1>5 DEF Uses
  <2>2. ClosedBy(vs, c)[v] = vs[v] /\ vs[v] \in Volumes BY <1>3, <1>5
  <2>3. Counts(vs[v], UsesOf(v), Readers(v)) BY <1>5
  <2>4. Counts(ClosedBy(vs, c)[v], [UsesOf(v) EXCEPT ![c] = None], Readers(v)) BY <2>1, <2>2, <2>3
  <2> QED BY <1>5, <2>2, <2>4 DEF SameVolume
<1>6. CASE vs[v] # None /\ m # None
  <2>1. vs[v] \in Volumes /\ m \in Modes BY <1>6, <1>2
  <2>2. vs[v].use[m] > 0 /\ vs[v].refs > 0 BY <1>1, <1>2, <1>6, <2>1, LeftTyped
  <2>3. SameVolume(vs[v], Left(vs[v], m)) BY <2>1, <2>2, LeftIs
  <2>4. Left(vs[v], m) \in Volumes /\ Counts(Left(vs[v], m), [UsesOf(v) EXCEPT ![c] = None], Readers(v))
    BY <1>1, <1>2, <1>6, <2>1, CountsLeave
  <2> QED BY <1>3, <1>6, <2>3, <2>4, VolNone
<1> QED BY <1>4, <1>5, <1>6

\* No request is a request.
LEMMA NoJobTyped == NoJob \in Jobs /\ NoJob.op = "none"
<1>1. {} \in SUBSET Vols /\ <<>> \in [{} -> Names] BY SMT
<1>2. <<>> \in Renames BY <1>1 DEF Renames
<1> QED BY <1>1, <1>2 DEF NoJob, Jobs

\* Nothing is open with no descriptor.
LEMMA ClosedOwns == Closed \in [Vols -> Modes \cup {None}] /\ Owns(Closed, {}) /\ \A v \in Vols : Closed[v] = None
BY DEF Closed, Owns

\* The volumes are vs before process c closes what it has open.
EndsWell(c, vs) ==
    /\ vs \in [Vols -> Volumes \cup {None}]
    /\ pc[c] # "show" /\ mutex' = IF HasMutex(pc[c]) THEN None ELSE mutex
    /\ \A v \in Vols : vs[v] # None => Counts(vs[v], UsesOf(v), Readers(v))
    /\ \A v \in Vols : vs[v] = None => vols[v] = None \/ (desc[c][v] = "ex" /\ Readers(v) = {})
    /\ \A v \in Vols : vs[v] # None /\ ~vs[v].listed <=>
          vols[v] # None /\ ~vols[v].listed /\ ~RemoveOf(pc[c], job[c], v)
    /\ HasMutex(pc[c]) \/ \A v \in Vols : vols[v] = None => vs[v] = None
    /\ \A v \in torn', d \in Clients \ {c} : v \in torn \/ desc[d][v] = None

\* The end of an ioctl, which closes its volumes, preserves the holder
\* invariant.
LEMMA EndStep ==
    ASSUME HolderInv, NEW c \in Clients, NEW vs, DeviceOn, vtbl' \in Tables,
           Ends(c, vs), EndsWell(c, vs)
    PROVE  HolderInv'
<1> USE DEF EndsWell, DeviceOn
<1>0. HolderTypes BY DEF HolderInv
<1>1. \A v \in Vols : vs[v] = None => Anyone([UsesOf(v) EXCEPT ![c] = None]) = {} /\ Readers(v) = {}
  <2> SUFFICES ASSUME NEW v \in Vols, vs[v] = None
               PROVE  Anyone([UsesOf(v) EXCEPT ![c] = None]) = {} /\ Readers(v) = {}
    OBVIOUS
  <2>0. UsesOf(v) \in Uses /\ Readers(v) \in SUBSET Clients /\ Counts(vols[v], UsesOf(v), Readers(v))
    BY <1>0, UsesTyped DEF HolderInv, Counted
  <2>1. CASE vols[v] = None
    <3>1. Anyone(UsesOf(v)) = {} /\ Readers(v) = {} BY <2>0, <2>1 DEF Counts
    <3> QED BY <2>0, <3>1 DEF Anyone, Uses
  <2>2. CASE vols[v] # None
    <3>1. UsesOf(v)[c] = "ex" /\ Readers(v) = {} BY <2>2 DEF UsesOf
    <3>2. vols[v] \in Volumes BY <1>0, <2>2 DEF HolderTypes
    <3> QED BY <2>0, <3>1, <3>2, OnlyHolder
  <2> QED BY <2>1, <2>2
<1>2. \A v \in Vols :
        /\ ClosedBy(vs, c)[v] \in Volumes \cup {None}
        /\ ClosedBy(vs, c)[v] = None <=> vs[v] = None
        /\ vs[v] # None => ClosedBy(vs, c)[v].listed = vs[v].listed
        /\ Counts(ClosedBy(vs, c)[v], [UsesOf(v) EXCEPT ![c] = None], Readers(v))
  BY <1>0, <1>1, ClosedByIs DEF SameVolume
<1>3. vols' = ClosedBy(vs, c) BY DEF Ends
<1>4. vols' \in [Vols -> Volumes \cup {None}] BY <1>2, <1>3 DEF ClosedBy
<1>5. \A v \in Vols : /\ vols'[v] = None <=> vs[v] = None
                      /\ vs[v] # None => vols'[v].listed = vs[v].listed
                      /\ Counts(vols'[v], [UsesOf(v) EXCEPT ![c] = None], Readers(v))
  BY <1>2, <1>3
<1> DEFINE p == "idle"
           j == NoJob
           D == Closed
<1>6. p \in Pcs /\ j \in Jobs /\ D \in [Vols -> Modes \cup {None}] BY NoJobTyped, ClosedOwns DEF Pcs
<1>7. pc' = [pc EXCEPT ![c] = p] /\ job' = [job EXCEPT ![c] = j] /\ desc' = [desc EXCEPT ![c] = D]
  BY DEF Ends
<1>8. \A v \in Vols : Readers(v) \ {c} = Readers(v) BY DEF Readers
<1>9. \A v \in Vols : Counts(vols'[v], [UsesOf(v) EXCEPT ![c] = D[v]],
          IF p = "show" /\ j.vol = v THEN Readers(v) \cup {c} ELSE Readers(v) \ {c})
  <2> SUFFICES ASSUME NEW v \in Vols
               PROVE  Counts(vols'[v], [UsesOf(v) EXCEPT ![c] = D[v]], Readers(v) \ {c})
    OBVIOUS
  <2>1. D[v] = None BY DEF Closed
  <2> QED BY <1>5, <1>8, <2>1
<1>10. JobRule(p, j, D) BY NoJobTyped, ClosedOwns DEF JobRule
<1>11. ~HasMutex(p) /\ \A v \in Vols : ~RemoveOf(p, j, v) BY DEF HasMutex, RemoveOf
<1>12. \A v \in torn' : D[v] = None BY ClosedOwns
<1>13. p # "show" OBVIOUS
<1>14. IF HasMutex(p) THEN mutex' = c /\ mutex \in {c, None}
       ELSE mutex' = IF HasMutex(pc[c]) THEN None ELSE mutex
  BY <1>11
<1>15. \A v \in Vols : vols'[v] # None /\ ~vols'[v].listed <=>
          vols[v] # None /\ ~vols[v].listed /\ ~RemoveOf(pc[c], job[c], v)
  BY <1>5
<1>16. HasMutex(pc[c]) \/ \A v \in Vols : vols[v] = None => vols'[v] = None
  BY <1>5
<1> HIDE DEF p, j, D
<1>17. Moves(c, p, j, D) BY <1>6, <1>7, <1>10, <1>14 DEF Moves
<1>18. MovesCounts(c, p, j, D) BY <1>9 DEF MovesCounts
<1>19. MovesLife(c, p, j, D) BY <1>11, <1>12, <1>13, <1>15, <1>16 DEF MovesLife
<1>20. DeviceOn BY DEF DeviceOn
<1> QED BY <1>4, <1>17, <1>18, <1>19, <1>20, ClientStep

-----------------------------------------------------------------------------
(*****************************************************************************)
(* The requests, one step after the other.                                   *)
(*****************************************************************************)

\* The empty record, and a table of them, have their types.
LEMMA EmptyTyped == empty_vtbl_record \in Records /\ EmptyTable \in Tables
BY VolSizes DEF empty_vtbl_record, EmptyTable, Records, Tables

\* The types of a record of which one field changes.
LEMMA RecordTyped ==
    ASSUME NEW r \in Records
    PROVE  /\ r.size \in 0 .. MaxSize /\ r.name \in Names \cup {None} /\ r.mark \in BOOLEAN
           /\ \A s \in 0 .. MaxSize : [r EXCEPT !.size = s] \in Records
           /\ \A n \in Names : [r EXCEPT !.name = n] \in Records
           /\ \A b \in BOOLEAN : [r EXCEPT !.mark = b] \in Records
BY DEF Records

\* What a volume says of itself is a record.
LEMMA RecordOfTyped ==
    ASSUME NEW r \in Volumes \cup {None}
    PROVE  /\ RecordOf(r) \in Records
           /\ r # None => /\ RecordOf(r).size = r.size /\ RecordOf(r).size > 0
                          /\ RecordOf(r).name = r.name /\ RecordOf(r).mark = r.mark
<1>1. CASE r = None BY <1>1, EmptyTyped DEF RecordOf
<1>2. CASE r # None
  <2>1. r \in Volumes BY <1>2
  <2>2. RecordOf(r) = [size |-> r.size, name |-> r.name, mark |-> r.mark] BY <1>2 DEF RecordOf
  <2>3. r.size \in 1 .. MaxSize /\ r.name \in Names /\ r.mark \in BOOLEAN BY <2>1 DEF Volumes
  <2>4. r.size \in 0 .. MaxSize /\ r.size > 0 BY <2>3, VolSizes
  <2> QED BY <2>2, <2>3, <2>4 DEF Records
<1> QED BY <1>1, <1>2

\* A table of which one record changes is a table.
LEMMA TableWith ==
    ASSUME NEW t \in Tables, NEW v \in Vols
    PROVE  /\ t[v] \in Records
           /\ \A r \in Records : [t EXCEPT ![v] = r] \in Tables
           /\ \A s \in 0 .. MaxSize : [t EXCEPT ![v].size = s] \in Tables
<1>1. t[v] \in Records BY DEF Tables
<1>2. \A s \in 0 .. MaxSize : [t[v] EXCEPT !.size = s] \in Records BY <1>1, RecordTyped
<1>3. \A s \in 0 .. MaxSize : [t EXCEPT ![v].size = s] = [t EXCEPT ![v] = [t[v] EXCEPT !.size = s]]
  OBVIOUS
<1> QED BY <1>1, <1>2, <1>3 DEF Tables

\* The types of the fields of a request.
LEMMA JobTyped ==
    ASSUME NEW j \in Jobs
    PROVE  /\ j.vol \in Vols \cup {None} /\ j.rec \in Records \cup {None}
           /\ j.names \in Renames /\ j.todo \in SUBSET Vols /\ j.drop \in SUBSET Vols
           /\ DOMAIN j.names \in SUBSET Vols /\ \A v \in DOMAIN j.names : j.names[v] \in Names
           /\ Listed(j) \in SUBSET Vols
<1>1. /\ j.vol \in Vols \cup {None} /\ j.rec \in Records \cup {None}
      /\ j.names \in Renames /\ j.todo \in SUBSET Vols /\ j.drop \in SUBSET Vols
  BY DEF Jobs
<1>2. PICK S \in SUBSET Vols : j.names \in [S -> Names] BY <1>1 DEF Renames
<1> QED BY <1>1, <1>2 DEF Listed

\* Process c keeps the request it executes, or its step.
LEMMA Unchanged ==
    ASSUME HolderTypes, NEW c \in Clients
    PROVE  /\ pc[c] \in Pcs /\ job[c] \in Jobs /\ desc[c] \in [Vols -> Modes \cup {None}]
           /\ pc = [pc EXCEPT ![c] = pc[c]] /\ job = [job EXCEPT ![c] = job[c]]
           /\ desc = [desc EXCEPT ![c] = desc[c]]
           /\ vtbl \in Tables /\ ro \in BOOLEAN
           /\ \A v \in Vols : vols[v] \in Volumes \cup {None}
BY DEF HolderTypes

\* Who does something does it on a device that is attached.
LEMMA ClientOn ==
    ASSUME HolderInv, NEW c \in Clients, dev = "on" \/ pc[c] # "idle" \/ desc[c] # Closed
    PROVE  dev = "on" /\ (dev' = dev => dev' = "on")
BY DEF HolderInv, HolderTypes, LifeInv

\* Who begins something has nothing open, and no re-name has broken off.
LEMMA IdleIs ==
    ASSUME HolderInv, NEW c \in Clients, Idle(c)
    PROVE  /\ dev = "on" /\ pc[c] = "idle" /\ Owns(desc[c], {}) /\ torn = {}
           /\ \A v \in Vols : desc[c][v] = None
           /\ ~HasMutex(pc[c]) /\ \A v : ~RemoveOf(pc[c], job[c], v)
BY ClosedOwns DEF Idle, HasMutex, RemoveOf

\* Only the volume that a process removes is not listed.
LEMMA NotListed ==
    ASSUME HolderInv, NEW v \in Vols, vols[v] # None, ~vols[v].listed
    PROVE  \E d \in Clients : mutex = d /\ RemoveOf(pc[d], job[d], v)
BY DEF HolderInv, LifeInv, MutexRule, RemoveOf, HasMutex

\* ubi_create_volume() takes device_mutex for a volume that does not exist.
LEMMA CreateStartHolds ==
    ASSUME HolderInv, NEW c \in Clients, NEW v \in Vols, NEW n \in Names, NEW s \in 1 .. MaxSize,
           CreateStart(c, v, n, s)
    PROVE  HolderInv'
<1>0. HolderTypes BY DEF HolderInv
<1> DEFINE p == "flush"
           r == [size |-> s, name |-> n, mark |-> FALSE]
           j == [NoJob EXCEPT !.op = "create", !.vol = v, !.rec = r]
<1>1. r \in Records /\ r.size > 0 /\ r.name \in Names /\ ~r.mark BY VolSizes DEF Records
<1>2. j.op = "create" /\ j.vol = v /\ j.rec = r
  <2> HIDE DEF r
  <2> QED BY DEF NoJob
<1>3. j \in Jobs
  <2> HIDE DEF r
  <2> QED BY <1>1, NoJobTyped DEF Jobs
<1>4. Idle(c) /\ mutex = None /\ ~Exists(v) BY DEF CreateStart
<1>5. vols[v] = None BY <1>4, NotListed, VolNone DEF Exists
<1>6. pc' = [pc EXCEPT ![c] = p] /\ job' = [job EXCEPT ![c] = j] /\ mutex' = c
      /\ UNCHANGED <<dev, vols, desc, torn>> /\ UNCHANGED <<ro, vtbl>>
  BY DEF CreateStart, hist
<1> HIDE DEF p, j
<1>7. JobRule(p, j, desc[c]) BY <1>1, <1>2, <1>4, IdleIs DEF JobRule, p, OneVolume
<1>8. p \in Pcs /\ p # "show" /\ HasMutex(p) BY DEF p, Pcs, HasMutex
<1>9. \A w : ~RemoveOf(p, j, w) BY DEF RemoveOf, p
<1>10. torn = {} /\ pc[c] # "show" /\ ~RemoveOf(pc[c], job[c], v) /\ dev = "on"
       /\ \A w \in Vols : ~RemoveOf(pc[c], job[c], w)
  BY <1>4, IdleIs
<1>11. ro' \in BOOLEAN /\ vtbl' \in Tables BY <1>0, <1>6 DEF HolderTypes
<1> QED BY <1>2, <1>3, <1>4, <1>5, <1>6, <1>7, <1>8, <1>9, <1>10, <1>11, QuietStep

\* ubi_create_volume() goes on to the table.
LEMMA CreateFlushHolds ==
    ASSUME HolderInv, NEW c \in Clients, CreateFlush(c)
    PROVE  HolderInv'
<1>0. HolderTypes BY DEF HolderInv
<1> DEFINE p == "table"
           j == job[c]
<1>1. pc[c] = "flush" BY DEF CreateFlush
<1>2. JobRule(pc[c], j, desc[c]) BY DEF HolderInv, JobInv
<1>3. /\ pc' = [pc EXCEPT ![c] = p] /\ mutex' = c /\ vtbl' = [vtbl EXCEPT ![j.vol] = j.rec]
      /\ UNCHANGED <<dev, ro, vols, job, desc, torn>>
  BY DEF CreateFlush, ChangeTable, hist
<1>4. HasMutex(pc[c]) /\ mutex = c BY <1>1 DEF HasMutex, HolderInv, MutexRule
<1>5. j.op = "create" /\ j.vol \in Vols /\ j.rec \in Records BY <1>1, <1>2 DEF JobRule
<1>6. vols[j.vol] = None BY <1>4, <1>5 DEF HolderInv, LifeInv
<1>7. JobRule(p, j, desc[c]) BY <1>1, <1>2, <1>5 DEF JobRule, OneVolume
<1>8. p \in Pcs /\ p # "show" /\ HasMutex(p) BY DEF Pcs, HasMutex
<1>9. \A v : ~RemoveOf(p, j, v) /\ ~RemoveOf(pc[c], job[c], v) BY <1>1, <1>5 DEF RemoveOf
<1>10. vtbl' \in Tables BY <1>3, <1>5, TableWith, Unchanged, <1>0
<1>11. dev = "on" BY <1>1, ClientOn
<1>12. \A v \in torn : desc[c][v] = None BY <1>5 DEF HolderInv, LifeInv
<1>13. j \in Jobs /\ job' = [job EXCEPT ![c] = j] /\ ro' \in BOOLEAN BY <1>0, <1>3, Unchanged
<1>14. pc[c] # "show" BY <1>1
<1> HIDE DEF p, j
<1> QED BY <1>3, <1>4, <1>6, <1>7, <1>8, <1>9, <1>10, <1>11, <1>12, <1>13, <1>14, QuietStep

\* ubi_resize_volume() takes device_mutex.
LEMMA LockResizeHolds ==
    ASSUME HolderInv, NEW c \in Clients, LockResize(c)
    PROVE  HolderInv'
<1>0. HolderTypes BY DEF HolderInv
<1> DEFINE p == "table"
           j == job[c]
<1>1. pc[c] = "lock" /\ j.op = "resize" /\ mutex = None BY DEF LockResize
<1>2. JobRule(pc[c], j, desc[c]) BY DEF HolderInv, JobInv
<1>3. /\ pc' = [pc EXCEPT ![c] = p] /\ mutex' = c /\ vtbl' = [vtbl EXCEPT ![j.vol].size = j.rec.size]
      /\ UNCHANGED <<dev, ro, vols, job, desc, torn>>
  BY DEF LockResize, ChangeTable, hist
<1>5. j.vol \in Vols /\ j.rec \in Records BY <1>1, <1>2 DEF JobRule, OneVolume
<1>7. JobRule(p, j, desc[c]) BY <1>1, <1>2 DEF JobRule
<1>8. p \in Pcs /\ p # "show" /\ HasMutex(p) BY DEF Pcs, HasMutex
<1>9. \A v : ~RemoveOf(p, j, v) /\ ~RemoveOf(pc[c], job[c], v) BY <1>1 DEF RemoveOf
<1>10. vtbl' \in Tables BY <1>3, <1>5, TableWith, Unchanged, <1>0, RecordTyped
<1>11. dev = "on" BY <1>1, ClientOn
<1>12. \A v \in torn : desc[c][v] = None BY <1>1 DEF HolderInv, LifeInv
<1>13. j \in Jobs /\ job' = [job EXCEPT ![c] = j] /\ ro' \in BOOLEAN BY <1>0, <1>3, Unchanged
<1> HIDE DEF p
<1> QED BY <1>1, <1>3, <1>7, <1>8, <1>9, <1>10, <1>11, <1>12, <1>13, QuietStep

\* set_update_marker() and clear_update_marker() take device_mutex.
LEMMA LockMarkHolds ==
    ASSUME HolderInv, NEW c \in Clients, LockMark(c)
    PROVE  HolderInv'
<1>0. HolderTypes BY DEF HolderInv
<1> DEFINE p == "table"
           j == job[c]
<1>1. pc[c] = "lock" /\ j.op \in {"mark", "clear"} /\ mutex = None BY DEF LockMark
<1>2. JobRule(pc[c], j, desc[c]) BY DEF HolderInv, JobInv
<1>3. /\ pc' = [pc EXCEPT ![c] = p] /\ mutex' = c /\ vtbl' = [vtbl EXCEPT ![j.vol] = j.rec]
      /\ UNCHANGED <<dev, ro, vols, job, desc, torn>>
  BY DEF LockMark, ChangeTable, hist
<1>5. j.vol \in Vols /\ j.rec \in Records BY <1>1, <1>2 DEF JobRule, OneVolume
<1>7. JobRule(p, j, desc[c]) BY <1>1, <1>2 DEF JobRule
<1>8. p \in Pcs /\ p # "show" /\ HasMutex(p) BY DEF Pcs, HasMutex
<1>9. \A v : ~RemoveOf(p, j, v) /\ ~RemoveOf(pc[c], job[c], v) BY <1>1 DEF RemoveOf
<1>10. vtbl' \in Tables BY <1>3, <1>5, TableWith, Unchanged, <1>0
<1>11. dev = "on" BY <1>1, ClientOn
<1>12. \A v \in torn : desc[c][v] = None BY <1>1 DEF HolderInv, LifeInv
<1>13. j \in Jobs /\ job' = [job EXCEPT ![c] = j] /\ ro' \in BOOLEAN BY <1>0, <1>3, Unchanged
<1>14. ~(HasMutex(p) /\ j.op = "create") BY <1>1
<1> HIDE DEF p
<1> QED BY <1>1, <1>3, <1>7, <1>8, <1>9, <1>10, <1>11, <1>12, <1>13, <1>14, QuietStep

\* The table of a re-name is a table.
LEMMA RenamedTyped ==
    ASSUME HolderTypes, NEW j \in Jobs
    PROVE  RenamedTable(j) \in Tables
<1>1. \A v \in Vols : vtbl[v] \in Records BY DEF HolderTypes, Tables
<1>2. \A v \in DOMAIN j.names : j.names[v] \in Names BY JobTyped
<1>3. \A v \in Vols : (IF v \in j.drop THEN empty_vtbl_record
          ELSE IF v \in DOMAIN j.names THEN [vtbl[v] EXCEPT !.name = j.names[v]] ELSE vtbl[v]) \in Records
  BY <1>1, <1>2, EmptyTyped, RecordTyped
<1> QED BY <1>3 DEF RenamedTable, Tables

\* rename_volumes() takes device_mutex.
LEMMA LockRenameHolds ==
    ASSUME HolderInv, NEW c \in Clients, LockRename(c)
    PROVE  HolderInv'
<1>0. HolderTypes BY DEF HolderInv
<1> DEFINE p == "table"
           j == job[c]
<1>1. pc[c] = "lock" /\ j.op = "rename" /\ mutex = None BY DEF LockRename
<1>2. JobRule(pc[c], j, desc[c]) BY DEF HolderInv, JobInv
<1>3. /\ pc' = [pc EXCEPT ![c] = p] /\ mutex' = c /\ vtbl' = RenamedTable(j)
      /\ UNCHANGED <<dev, ro, vols, job, desc, torn>>
  BY DEF LockRename, ChangeTable, hist
<1>7. JobRule(p, j, desc[c]) BY <1>1, <1>2 DEF JobRule
<1>8. p \in Pcs /\ p # "show" /\ p # "idle" /\ HasMutex(p) BY DEF Pcs, HasMutex
<1>9. \A v : ~RemoveOf(p, j, v) /\ ~RemoveOf(pc[c], job[c], v) BY <1>1 DEF RemoveOf
<1>11. dev = "on" BY <1>1, ClientOn
<1>13. j \in Jobs /\ job' = [job EXCEPT ![c] = j] /\ ro' \in BOOLEAN BY <1>0, <1>3, Unchanged
<1>10. vtbl' \in Tables BY <1>0, <1>3, <1>13, RenamedTyped
<1> HIDE DEF p
<1> QED BY <1>1, <1>3, <1>7, <1>8, <1>9, <1>10, <1>11, <1>13, QuietStep

\* rename_volumes() begins with nothing open.
LEMMA RenameStartHolds ==
    ASSUME HolderInv, NEW c \in Clients, NEW f \in Requests, RenameStart(c, f)
    PROVE  HolderInv'
<1>0. HolderTypes BY DEF HolderInv
<1> DEFINE p == "rnopen"
           j == [NoJob EXCEPT !.op = "rename", !.names = f, !.todo = DOMAIN f]
<1>1. f \in Renames /\ DOMAIN f \in SUBSET Vols BY DEF Requests, Renames
<1>2. j.op = "rename" /\ j.names = f /\ j.todo = DOMAIN f /\ j.drop = {} BY DEF NoJob
<1>3. j \in Jobs BY <1>1, NoJobTyped DEF Jobs
<1>4. Idle(c) BY DEF RenameStart
<1>6. pc' = [pc EXCEPT ![c] = p] /\ job' = [job EXCEPT ![c] = j]
      /\ UNCHANGED <<dev, ro, vols, vtbl, mutex, desc, torn>>
  BY DEF RenameStart, hist
<1> HIDE DEF p, j
<1>5. Owns(desc[c], DOMAIN j.names \ j.todo) BY <1>2, <1>4, IdleIs DEF Owns
<1>7. JobRule(p, j, desc[c]) BY <1>2, <1>5 DEF JobRule, p
<1>8. p \in Pcs /\ p # "show" /\ ~HasMutex(p) BY DEF p, Pcs, HasMutex
<1>9. \A w : ~RemoveOf(p, j, w) BY DEF RemoveOf, p
<1>10. torn = {} /\ pc[c] # "show" /\ dev = "on" /\ ~HasMutex(pc[c])
       /\ \A w \in Vols : ~RemoveOf(pc[c], job[c], w)
  BY <1>4, IdleIs
<1>11. ro' \in BOOLEAN /\ vtbl' \in Tables BY <1>0, <1>6 DEF HolderTypes
<1> QED BY <1>3, <1>6, <1>7, <1>8, <1>9, <1>10, <1>11, QuietStep

\* rename_volumes() looks for a volume that has one of the new names.
LEMMA RenameFindHolds ==
    ASSUME HolderInv, NEW c \in Clients, NEW v \in Vols, RenameFind(c, v)
    PROVE  HolderInv'
<1>0. HolderTypes BY DEF HolderInv
<1> DEFINE new == job[c].names[v]
           found == {w \in Vols : Exists(w) /\ vols[w].name = new}
           none == found = {} \/ \E u \in Listed(job[c]) : vols[u].name = new
           left == job[c].todo \ {v}
           w == IF none THEN None ELSE Min(found)
           j == [job[c] EXCEPT !.todo = left, !.vol = w]
           p == IF ~none THEN "rnnamed" ELSE IF left = {} THEN "lock" ELSE "rnfind"
<1>1. pc[c] = "rnfind" /\ v \in job[c].todo BY DEF RenameFind
<1>2. JobRule(pc[c], job[c], desc[c]) /\ job[c] \in Jobs
  BY <1>0, Unchanged DEF HolderInv, JobInv
<1>3. w \in Vols \cup {None} /\ (~none => w \in Vols)
  <2>1. found \subseteq Vols OBVIOUS
  <2>2. found # {} => Min(found) \in found
    <3> HIDE DEF found
    <3> QED BY <2>1, MinVol
  <2> QED BY <2>1, <2>2
<1>4. pc' = [pc EXCEPT ![c] = p] /\ job' = [job EXCEPT ![c] = j]
      /\ UNCHANGED <<dev, ro, vols, vtbl, mutex, desc, torn>>
  BY DEF RenameFind, hist
<1>5. left \in SUBSET Vols /\ left \subseteq job[c].todo BY <1>2, JobTyped
<1> HIDE DEF none, left, w
<1>6. j \in Jobs /\ j.op = job[c].op /\ j.names = job[c].names /\ j.drop = job[c].drop
      /\ j.todo = left /\ j.vol = w
  BY <1>2, <1>3, <1>5 DEF Jobs
<1>7. Listed(j) = Listed(job[c]) BY <1>6 DEF Listed
<1>8. /\ j.op = "rename" /\ j.todo \subseteq DOMAIN j.names /\ Owns(desc[c], Listed(j))
  BY <1>1, <1>2, <1>5, <1>6, <1>7 DEF JobRule
<1>9. p \in {"rnnamed", "lock", "rnfind"} /\ (p = "lock" => j.todo = {}) /\ (p = "rnnamed" => j.vol \in Vols)
  BY <1>3, <1>6
<1> HIDE DEF p, j
<1>10. JobRule(p, j, desc[c]) BY <1>8, <1>9 DEF JobRule, OneVolume
<1>11. p \in Pcs /\ p # "show" /\ ~HasMutex(p) /\ p # "idle" /\ ~HasMutex(pc[c]) /\ pc[c] # "show"
  BY <1>1, <1>9 DEF Pcs, HasMutex
<1>12. \A u : ~RemoveOf(p, j, u) /\ ~RemoveOf(pc[c], job[c], u) BY <1>1, <1>9 DEF RemoveOf
<1>13. dev = "on" BY <1>1, ClientOn
<1>14. ro' \in BOOLEAN /\ vtbl' \in Tables BY <1>0, <1>4, Unchanged
<1> QED BY <1>4, <1>6, <1>8, <1>10, <1>11, <1>12, <1>13, <1>14, QuietStep

\* ubi_start_update() wipes the volume out.
LEMMA UpdateWipeHolds ==
    ASSUME HolderInv, NEW c \in Clients, UpdateWipe(c)
    PROVE  HolderInv'
<1>0. HolderTypes BY DEF HolderInv
<1> DEFINE p == IF ro THEN "idle" ELSE "write"
           j == job[c]
<1>1. pc[c] = "wipe" BY DEF UpdateWipe
<1>2. JobRule(pc[c], j, desc[c]) BY DEF HolderInv, JobInv
<1>3. pc' = [pc EXCEPT ![c] = p] /\ UNCHANGED <<dev, ro, vols, vtbl, mutex, job, desc, torn>>
  BY DEF UpdateWipe, hist
<1>4. p \in {"idle", "write"} OBVIOUS
<1>5. j.op = "mark" /\ j.vol \in Vols /\ Owns(desc[c], {j.vol}) BY <1>1, <1>2 DEF JobRule
<1>6. \A v, w \in Vols : desc[c][v] # None /\ desc[c][w] # None => v = w BY <1>5 DEF Owns
<1> HIDE DEF p
<1>7. JobRule(p, j, desc[c]) BY <1>4, <1>5, <1>6 DEF JobRule
<1>8. p \in Pcs /\ p # "show" /\ ~HasMutex(p) /\ ~HasMutex(pc[c]) /\ pc[c] # "show"
  BY <1>1, <1>4 DEF Pcs, HasMutex
<1>9. \A v : ~RemoveOf(p, j, v) /\ ~RemoveOf(pc[c], job[c], v) BY <1>1, <1>4 DEF RemoveOf
<1>11. dev = "on" BY <1>1, ClientOn
<1>12. \A v \in torn : desc[c][v] = None BY <1>5 DEF HolderInv, LifeInv
<1>13. j \in Jobs /\ job' = [job EXCEPT ![c] = j] /\ ro' \in BOOLEAN /\ vtbl' \in Tables
  BY <1>0, <1>3, Unchanged
<1> QED BY <1>3, <1>7, <1>8, <1>9, <1>11, <1>12, <1>13, QuietStep

\* The copy of a record with another marker is a record.
LEMMA MarkedTyped ==
    ASSUME HolderTypes, NEW v \in Vols, NEW b \in BOOLEAN
    PROVE  Marked(v, b) \in Records /\ Marked(v, b).mark = b
<1>1. vtbl[v] \in Records BY TableWith DEF HolderTypes
<1>2. Marked(v, b) \in Records BY <1>1, RecordTyped DEF Marked
<1>3. Marked(v, b).mark = b BY <1>1 DEF Marked, Records
<1> QED BY <1>2, <1>3

\* ubi_more_update_data() has all the data.
LEMMA UpdateFlushHolds ==
    ASSUME HolderInv, NEW c \in Clients, UpdateFlush(c)
    PROVE  HolderInv'
<1>0. HolderTypes BY DEF HolderInv
<1> DEFINE p == "lock"
           r == Marked(job[c].vol, FALSE)
           j == [job[c] EXCEPT !.op = "clear", !.rec = r]
<1>1. pc[c] = "write" BY DEF UpdateFlush
<1>2. JobRule(pc[c], job[c], desc[c]) /\ job[c] \in Jobs BY <1>0, Unchanged DEF HolderInv, JobInv
<1>3. /\ pc' = [pc EXCEPT ![c] = p] /\ job' = [job EXCEPT ![c] = j]
      /\ UNCHANGED <<dev, ro, vols, vtbl, mutex, desc, torn>>
  BY DEF UpdateFlush, hist
<1>4. job[c].op = "mark" /\ job[c].vol \in Vols /\ Owns(desc[c], {job[c].vol}) BY <1>1, <1>2 DEF JobRule
<1>5. r \in Records BY <1>0, <1>4, MarkedTyped
<1> HIDE DEF r
<1>6. j \in Jobs /\ j.op = "clear" /\ j.vol = job[c].vol /\ j.rec = r BY <1>2, <1>5 DEF Jobs
<1> HIDE DEF j
<1>7. JobRule(p, j, desc[c]) BY <1>4, <1>5, <1>6 DEF JobRule, OneVolume
<1>8. p \in Pcs /\ p # "show" /\ ~HasMutex(p) /\ ~HasMutex(pc[c]) /\ pc[c] # "show"
  BY <1>1 DEF Pcs, HasMutex
<1>9. \A v : ~RemoveOf(p, j, v) /\ ~RemoveOf(pc[c], job[c], v) BY <1>1 DEF RemoveOf
<1>11. dev = "on" BY <1>1, ClientOn
<1>12. \A v \in torn : desc[c][v] = None BY <1>4 DEF HolderInv, LifeInv
<1>13. ro' \in BOOLEAN /\ vtbl' \in Tables BY <1>0, <1>3, Unchanged
<1> HIDE DEF p
<1> QED BY <1>3, <1>6, <1>7, <1>8, <1>9, <1>11, <1>12, <1>13, QuietStep

\* A write of the table leaves the volumes and their users.
LEMMA TableStepHolds ==
    ASSUME HolderInv, NEW c \in Clients, TableStep(c)
    PROVE  HolderInv'
<1>0. HolderTypes BY DEF HolderInv
<1> DEFINE p == IF stage = 3 THEN "apply" ELSE "table"
           j == job[c]
<1>1. pc[c] = "table" BY DEF TableStep
<1>2. JobRule(pc[c], j, desc[c]) BY DEF HolderInv, JobInv
<1>3. pc' = [pc EXCEPT ![c] = p] /\ UNCHANGED <<dev, ro, vols, vtbl, mutex, job, desc, torn>>
  BY DEF TableStep
<1>4. p \in {"table", "apply"} OBVIOUS
<1> HIDE DEF p
<1>7. JobRule(p, j, desc[c]) BY <1>1, <1>2, <1>4 DEF JobRule
<1>8. p \in Pcs /\ p # "show" /\ HasMutex(p) /\ HasMutex(pc[c]) /\ pc[c] # "show"
  BY <1>1, <1>4 DEF Pcs, HasMutex
<1>9. \A v : RemoveOf(p, j, v) <=> RemoveOf(pc[c], job[c], v) BY <1>1, <1>4 DEF RemoveOf
<1>10. mutex = c BY <1>8 DEF HolderInv, MutexRule
<1>11. dev = "on" BY <1>1, ClientOn
<1>12. \A v \in torn : desc[c][v] # None => p # "idle" /\ j.op = "rename"
  BY <1>4 DEF HolderInv, LifeInv
<1>13. j \in Jobs /\ job' = [job EXCEPT ![c] = j] /\ ro' \in BOOLEAN /\ vtbl' \in Tables
  BY <1>0, <1>3, Unchanged
<1>14. HasMutex(p) /\ j.op = "create" => vols[j.vol] = None BY <1>8 DEF HolderInv, LifeInv
<1> QED BY <1>3, <1>7, <1>8, <1>9, <1>10, <1>11, <1>12, <1>13, <1>14, QuietStep

\* Steps on LEBs and PEBs leave the volumes and their users.
LEMMA FrameHolds ==
    ASSUME HolderInv,
           \/ PebGoesBad \/ GoesReadOnly \/ UNCHANGED vars
           \/ \E c \in Clients, l \in Lebs : UpdateWrite(c, l)
           \/ \E c \in Clients, v \in Vols, l \in Lebs : Write(c, v, l) \/ Unmap(c, v, l)
    PROVE  HolderInv'
<1>1. UNCHANGED <<dev, vols, vtbl, mutex, pc, job, desc, torn>>
  BY DEF PebGoesBad, GoesReadOnly, UpdateWrite, Write, Unmap, vars, hist
<1>2. ro' \in BOOLEAN
  <2>1. ro \in BOOLEAN BY DEF HolderInv, HolderTypes
  <2>2. CASE PebGoesBad BY <2>1, <2>2 DEF PebGoesBad
  <2> QED BY <2>1, <2>2 DEF GoesReadOnly, UpdateWrite, Write, Unmap, vars
<1> QED BY <1>1, <1>2, HolderFrame

\* An ioctl that is refused closes its volumes.
LEMMA GiveUpHolds ==
    ASSUME HolderInv, NEW c \in Clients, GiveUp(c) \/ RenameBusy(c)
    PROVE  HolderInv'
<1>0. HolderTypes BY DEF HolderInv
<1>1. pc[c] \in {"lock", "rnopen", "rnnamed"} /\ Ends(c, vols) BY DEF GiveUp, RenameBusy
<1>2. UNCHANGED <<dev, ro, vtbl, mutex, torn>> BY DEF GiveUp, RenameBusy, hist
<1>3. ~HasMutex(pc[c]) /\ pc[c] # "show" BY <1>1 DEF HasMutex
<1>4. \A v : ~RemoveOf(pc[c], job[c], v) BY <1>1 DEF RemoveOf
<1>5. dev = "on" BY <1>1, ClientOn
<1>6. vols \in [Vols -> Volumes \cup {None}] /\ ro' \in BOOLEAN /\ vtbl' \in Tables /\ torn' \subseteq Vols
  BY <1>0, <1>2 DEF HolderTypes
<1>7. \A v \in Vols : Counts(vols[v], UsesOf(v), Readers(v)) BY DEF HolderInv, Counted
<1>8. EndsWell(c, vols) BY <1>2, <1>3, <1>4, <1>6, <1>7 DEF EndsWell
<1>9. DeviceOn BY <1>2, <1>5, <1>6 DEF DeviceOn
<1> QED BY <1>1, <1>6, <1>8, <1>9, EndStep

\* A new volume is one that nobody uses, as its record describes it.
LEMMA FreshTyped ==
    ASSUME NEW r \in Records, r.size > 0, r.name \in Names
    PROVE  /\ Fresh(r) \in Volumes /\ Fresh(r).use = Unused /\ Fresh(r).refs = 0 /\ Fresh(r).listed
           /\ RecordOf(Fresh(r)) = r
<1>1. r.size \in 1 .. MaxSize /\ r.mark \in BOOLEAN BY VolSizes DEF Records
<1>2. Unused \in [Modes -> Nat] BY DEF Unused
<1>3. Fresh(r) \in Volumes BY <1>1, <1>2 DEF Fresh, Volumes
<1>4. Fresh(r).use = Unused /\ Fresh(r).refs = 0 /\ Fresh(r).listed BY DEF Fresh
<1>5. Fresh(r) # None BY <1>3, VolNone
<1>6. RecordOf(Fresh(r)) = [size |-> r.size, name |-> r.name, mark |-> r.mark]
  BY <1>5 DEF RecordOf, Fresh
<1>7. [size |-> r.size, name |-> r.name, mark |-> r.mark] = r BY DEF Records
<1> QED BY <1>3, <1>4, <1>6, <1>7

\* The end of ubi_create_volume() makes a volume that nobody has open.
LEMMA CreateEndHolds ==
    ASSUME HolderInv, NEW c \in Clients, CreateEnd(c)
    PROVE  HolderInv'
<1>0. HolderTypes BY DEF HolderInv
<1> DEFINE j == job[c]
           f == Fresh(j.rec)
           vs == [vols EXCEPT ![j.vol] = f]
<1>1. pc[c] = "apply" /\ j.op = "create" /\ Ends(c, vs) BY DEF CreateEnd
<1>2. mutex' = None /\ UNCHANGED <<dev, ro, vtbl, torn>> BY DEF CreateEnd, Unlock, hist
<1>3. JobRule(pc[c], j, desc[c]) BY DEF HolderInv, JobInv
<1>4. j.vol \in Vols /\ j.rec \in Records /\ j.rec.size > 0 /\ j.rec.name \in Names
  BY <1>1, <1>3 DEF JobRule
<1>5. f \in Volumes /\ f.use = Unused /\ f.refs = 0 /\ f.listed /\ f # None
  BY <1>4, FreshTyped, VolNone
<1>6. HasMutex(pc[c]) /\ pc[c] # "show" BY <1>1 DEF HasMutex
<1>7. vols[j.vol] = None BY <1>1, <1>6 DEF HolderInv, LifeInv
<1> HIDE DEF f
<1>8. vs \in [Vols -> Volumes \cup {None}]
      /\ \A v \in Vols : vs[v] = IF v = j.vol THEN f ELSE vols[v]
  BY <1>0, <1>4, <1>5 DEF HolderTypes
<1> HIDE DEF vs
<1>9. \A v \in Vols : vs[v] # None => Counts(vs[v], UsesOf(v), Readers(v))
  <2> SUFFICES ASSUME NEW v \in Vols PROVE Counts(vs[v], UsesOf(v), Readers(v))
    OBVIOUS
  <2>1. Counts(vols[v], UsesOf(v), Readers(v)) BY DEF HolderInv, Counted
  <2>2. UsesOf(v) \in Uses /\ Readers(v) \in SUBSET Clients BY <1>0, UsesTyped
  <2>3. CASE v = j.vol
    <3>1. Anyone(UsesOf(v)) = {} /\ Readers(v) = {} BY <1>7, <2>1, <2>3 DEF Counts
    <3> QED BY <1>5, <1>8, <2>2, <2>3, <3>1, NobodyCounts
  <2> QED BY <1>8, <2>1, <2>3
<1>10. \A v : ~RemoveOf(pc[c], j, v) BY <1>1 DEF RemoveOf
<1>11. dev = "on" BY <1>1, ClientOn
<1>12. ro' \in BOOLEAN /\ vtbl' \in Tables /\ torn' \subseteq Vols BY <1>0, <1>2 DEF HolderTypes
<1>13. \A v \in Vols : vs[v] # None /\ ~vs[v].listed <=>
           vols[v] # None /\ ~vols[v].listed /\ ~RemoveOf(pc[c], job[c], v)
  BY <1>5, <1>7, <1>8, <1>10
<1>14. \A v \in Vols : vs[v] = None => vols[v] = None BY <1>5, <1>8
<1>15. EndsWell(c, vs) BY <1>2, <1>6, <1>8, <1>9, <1>13, <1>14 DEF EndsWell
<1>16. DeviceOn BY <1>2, <1>11, <1>12 DEF DeviceOn
<1> QED BY <1>1, <1>12, <1>15, <1>16, EndStep

\* One field of a volume changes.
LEMMA VolumeListed ==
    ASSUME NEW r \in Volumes, NEW q, q = [r EXCEPT !.listed = TRUE]
    PROVE  /\ q \in Volumes /\ q.use = r.use /\ q.refs = r.refs /\ q.listed
           /\ RecordOf(q) = RecordOf(r)
<1>1. /\ q \in Volumes /\ q.use = r.use /\ q.refs = r.refs /\ q.listed
      /\ q.size = r.size /\ q.name = r.name /\ q.mark = r.mark
  BY DEF Volumes
<1>2. /\ RecordOf(q) = [size |-> r.size, name |-> r.name, mark |-> r.mark]
      /\ RecordOf(r) = [size |-> r.size, name |-> r.name, mark |-> r.mark]
  BY <1>1, VolNone DEF RecordOf
<1> QED BY <1>1, <1>2

\* A volume that is no longer listed, otherwise the same.
LEMMA VolumeHidden ==
    ASSUME NEW r \in Volumes, NEW q, q = [r EXCEPT !.listed = FALSE]
    PROVE  /\ q \in Volumes /\ q.use = r.use /\ q.refs = r.refs /\ ~q.listed
           /\ RecordOf(q) = RecordOf(r)
<1>1. /\ q \in Volumes /\ q.use = r.use /\ q.refs = r.refs /\ ~q.listed
      /\ q.size = r.size /\ q.name = r.name /\ q.mark = r.mark
  BY DEF Volumes
<1>2. /\ RecordOf(q) = [size |-> r.size, name |-> r.name, mark |-> r.mark]
      /\ RecordOf(r) = [size |-> r.size, name |-> r.name, mark |-> r.mark]
  BY <1>1, VolNone DEF RecordOf
<1> QED BY <1>1, <1>2

\* A volume of another size, otherwise the same.
LEMMA VolumeSize ==
    ASSUME NEW r \in Volumes, NEW s \in 1 .. MaxSize, NEW q, q = [r EXCEPT !.size = s]
    PROVE  /\ q \in Volumes /\ q.use = r.use /\ q.refs = r.refs /\ q.listed = r.listed
           /\ RecordOf(q) = [RecordOf(r) EXCEPT !.size = s]
<1>1. /\ q \in Volumes /\ q.use = r.use /\ q.refs = r.refs /\ q.listed = r.listed
      /\ q.size = s /\ q.name = r.name /\ q.mark = r.mark
  BY DEF Volumes
<1>2. /\ RecordOf(q) = [size |-> s, name |-> r.name, mark |-> r.mark]
      /\ RecordOf(r) = [size |-> r.size, name |-> r.name, mark |-> r.mark]
  BY <1>1, VolNone DEF RecordOf
<1> QED BY <1>1, <1>2

\* A volume with another update marker, otherwise the same.
LEMMA VolumeMark ==
    ASSUME NEW r \in Volumes, NEW b \in BOOLEAN, NEW q, q = [r EXCEPT !.mark = b]
    PROVE  /\ q \in Volumes /\ q.use = r.use /\ q.refs = r.refs /\ q.listed = r.listed
           /\ RecordOf(q) = [RecordOf(r) EXCEPT !.mark = b]
<1>1. /\ q \in Volumes /\ q.use = r.use /\ q.refs = r.refs /\ q.listed = r.listed
      /\ q.size = r.size /\ q.name = r.name /\ q.mark = b
  BY DEF Volumes
<1>2. /\ RecordOf(q) = [size |-> r.size, name |-> r.name, mark |-> b]
      /\ RecordOf(r) = [size |-> r.size, name |-> r.name, mark |-> r.mark]
  BY <1>1, VolNone DEF RecordOf
<1> QED BY <1>1, <1>2

\* A volume with another name, otherwise the same.
LEMMA VolumeName ==
    ASSUME NEW r \in Volumes, NEW n \in Names, NEW q, q = [r EXCEPT !.name = n]
    PROVE  /\ q \in Volumes /\ q.use = r.use /\ q.refs = r.refs /\ q.listed = r.listed
           /\ RecordOf(q) = [RecordOf(r) EXCEPT !.name = n]
<1>1. /\ q \in Volumes /\ q.use = r.use /\ q.refs = r.refs /\ q.listed = r.listed
      /\ q.size = r.size /\ q.name = n /\ q.mark = r.mark
  BY DEF Volumes
<1>2. /\ RecordOf(q) = [size |-> r.size, name |-> n, mark |-> r.mark]
      /\ RecordOf(r) = [size |-> r.size, name |-> r.name, mark |-> r.mark]
  BY <1>1, VolNone DEF RecordOf
<1> QED BY <1>1, <1>2

\* What an exclusive holder knows of its volume.
LEMMA Exclusive ==
    ASSUME HolderInv, NEW c \in Clients, NEW v \in Vols, desc[c][v] = "ex"
    PROVE  /\ vols[v] \in Volumes /\ vols[v] # None
           /\ \A d \in Clients \ {c} : desc[d][v] = None
           /\ vols[v].refs <= 1 => Readers(v) = {}
           /\ Counts(vols[v], UsesOf(v), Readers(v)) /\ Anyone(UsesOf(v)) = {c}
<1>1. /\ UsesOf(v) \in Uses /\ Readers(v) \in SUBSET Clients
      /\ Counts(vols[v], UsesOf(v), Readers(v)) /\ vols[v] \in Volumes \cup {None}
  BY UsesTyped DEF HolderInv, Counted, HolderTypes
<1>2. UsesOf(v)[c] = "ex" /\ \A d \in Clients : UsesOf(v)[d] = desc[d][v] BY DEF UsesOf
<1>3. c \in Anyone(UsesOf(v)) BY <1>2, VolNone DEF Anyone, Modes
<1>4. vols[v] # None BY <1>1, <1>3 DEF Counts
<1>5. vols[v] \in Volumes BY <1>1, <1>4
<1>6. Anyone(UsesOf(v)) = {c} /\ (vols[v].refs <= 1 => Readers(v) = {})
  <2> DEFINE D == UsesOf(v)
             S == Readers(v)
             r == vols[v]
  <2>1. r \in Volumes /\ D \in Uses /\ S \in SUBSET Clients /\ Counts(r, D, S) /\ D[c] = "ex"
    BY <1>1, <1>2, <1>5
  <2> HIDE DEF D, S, r
  <2>2. Anyone(D) = {c} /\ (r.refs <= 1 => S = {}) BY <2>1, OnlyHolder
  <2> QED BY <2>2 DEF D, S, r
<1>7. \A d \in Clients \ {c} : desc[d][v] = None BY <1>2, <1>6 DEF Anyone
<1> QED BY <1>1, <1>4, <1>5, <1>6, <1>7

\* The volumes while one of them is given the state q with the same users.
Replaced(vs, v, q) ==
    /\ v \in Vols /\ vols[v] # None
    /\ q \in Volumes /\ q.use = vols[v].use /\ q.refs = vols[v].refs
    /\ \A w \in Vols : vs[w] = IF w = v THEN q ELSE vols[w]

\* One volume changes and keeps its users: all counters stay right.
LEMMA OneVolumeChanged ==
    ASSUME HolderInv, NEW v, NEW q, NEW vs, Replaced(vs, v, q)
    PROVE  /\ \A w \in Vols : Counts(vs[w], UsesOf(w), Readers(w))
           /\ \A w \in Vols : vs[w] = None <=> vols[w] = None
<1> USE DEF Replaced
<1>0. HolderTypes BY DEF HolderInv
<1>2. \A w \in Vols : Counts(vols[w], UsesOf(w), Readers(w)) BY DEF HolderInv, Counted
<1>3. vols[v] \in Volumes BY <1>0 DEF HolderTypes
<1>4. Counts(q, UsesOf(v), Readers(v)) BY <1>0, <1>2, <1>3, CountsOther, UsesTyped
<1>5. q # None BY VolNone
<1> QED BY <1>2, <1>4, <1>5

\* The end of an operation on one volume that keeps the volume.
LEMMA OneVolumeEnds ==
    ASSUME HolderInv, NEW c \in Clients, pc[c] \in {"table", "apply"},
           job[c].op \in {"remove", "resize"},
           NEW q \in Volumes, Ends(c, [vols EXCEPT ![job[c].vol] = q]),
           q.use = vols[job[c].vol].use, q.refs = vols[job[c].vol].refs, q.listed,
           mutex' = None, dev' = dev, ro' \in BOOLEAN, UNCHANGED <<vtbl, torn>>
    PROVE  HolderInv'
<1>0. HolderTypes BY DEF HolderInv
<1> DEFINE j == job[c]
           v == j.vol
           vs == [vols EXCEPT ![v] = q]
<1>a. Ends(c, vs) OBVIOUS
<1>1. JobRule(pc[c], j, desc[c]) BY DEF HolderInv, JobInv
<1>2. v \in Vols /\ desc[c][v] = "ex" BY <1>1 DEF JobRule, OneVolume, Owns
<1> HIDE DEF vs
<1>3. vols[v] # None BY <1>2, Exclusive
<1>4. /\ vs \in [Vols -> Volumes \cup {None}]
      /\ \A w \in Vols : vs[w] = IF w = v THEN q ELSE vols[w]
      /\ \A w \in Vols : Counts(vs[w], UsesOf(w), Readers(w))
      /\ \A w \in Vols : vs[w] = None <=> vols[w] = None
  <2>1. vs = [vols EXCEPT ![v] = q] /\ q.use = vols[v].use /\ q.refs = vols[v].refs BY DEF vs
  <2> HIDE DEF v
  <2>2. vs = [w \in Vols |-> IF w = v THEN q ELSE vols[w]] BY <1>0, <2>1 DEF HolderTypes
  <2>3. \A w \in Vols : vs[w] = IF w = v THEN q ELSE vols[w] BY <2>2
  <2>4. v \in Vols /\ vols[v] # None /\ q \in Volumes /\ q.use = vols[v].use /\ q.refs = vols[v].refs
    BY <1>2, <1>3, <2>1
  <2>5. /\ \A w \in Vols : Counts(vs[w], UsesOf(w), Readers(w))
        /\ \A w \in Vols : vs[w] = None <=> vols[w] = None
    <3>1. Replaced(vs, v, q) BY <2>3, <2>4 DEF Replaced
    <3> QED BY <3>1, OneVolumeChanged
  <2> QED BY <1>0, <2>2, <2>3, <2>5 DEF HolderTypes
<1>5. HasMutex(pc[c]) /\ pc[c] # "show" BY DEF HasMutex
<1>6. \A w \in Vols : vs[w] # None /\ ~vs[w].listed <=>
          vols[w] # None /\ ~vols[w].listed /\ ~RemoveOf(pc[c], j, w)
  <2> SUFFICES ASSUME NEW w \in Vols
               PROVE  vs[w] # None /\ ~vs[w].listed <=>
                         vols[w] # None /\ ~vols[w].listed /\ ~RemoveOf(pc[c], j, w)
    OBVIOUS
  <2>1. CASE w # v BY <1>4, <2>1 DEF RemoveOf
  <2>2. CASE w = v
    <3>1. vols[v].listed \/ RemoveOf(pc[c], j, v)
      <4> SUFFICES ASSUME ~vols[v].listed PROVE RemoveOf(pc[c], j, v)
        OBVIOUS
      <4>1. PICK d \in Clients : mutex = d /\ RemoveOf(pc[d], job[d], v) BY <1>2, <1>3, NotListed
      <4>2. mutex = c BY <1>5 DEF HolderInv, MutexRule
      <4> QED BY <4>1, <4>2
    <3> QED BY <1>4, <2>2, <3>1
  <2> QED BY <2>1, <2>2
<1>7. dev = "on" BY ClientOn
<1>8. vtbl' \in Tables /\ torn' \subseteq Vols BY <1>0 DEF HolderTypes
<1>9. \A w \in Vols : vs[w] # None => Counts(vs[w], UsesOf(w), Readers(w)) BY <1>4
<1>10. \A w \in Vols : vs[w] = None => vols[w] = None BY <1>4
<1>11. mutex' = IF HasMutex(pc[c]) THEN None ELSE mutex BY <1>5
<1>12. EndsWell(c, vs) BY <1>4, <1>5, <1>6, <1>9, <1>10, <1>11 DEF EndsWell
<1>13. DeviceOn BY <1>7, <1>8 DEF DeviceOn
<1> QED BY <1>a, <1>8, <1>12, <1>13, EndStep

\* A removal, or a re-size, that fails at the LEBs leaves the volume.
LEMMA UnmapFailsHolds ==
    ASSUME HolderInv, NEW c \in Clients, UnmapFails(c)
    PROVE  HolderInv'
<1>0. HolderTypes BY DEF HolderInv
<1> DEFINE v == job[c].vol
           q == [vols[v] EXCEPT !.listed = TRUE]
           vs == [vols EXCEPT ![v].listed = TRUE]
<1>1. /\ pc[c] = "apply" /\ job[c].op \in {"remove", "resize"}
      /\ Ends(c, vs) /\ mutex' = None /\ UNCHANGED <<dev, ro, vtbl, torn>>
  BY DEF UnmapFails, Unlock, hist
<1>2. JobRule(pc[c], job[c], desc[c]) BY DEF HolderInv, JobInv
<1>3. v \in Vols /\ desc[c][v] = "ex" BY <1>1, <1>2 DEF JobRule, OneVolume, Owns
<1>4. vols[v] \in Volumes BY <1>3, Exclusive
<1>5. q \in Volumes /\ q.use = vols[v].use /\ q.refs = vols[v].refs /\ q.listed
  <2>1. q = [vols[v] EXCEPT !.listed = TRUE] OBVIOUS
  <2> HIDE DEF q, v
  <2> QED BY <1>4, <2>1, VolumeListed
<1>6. vs = [vols EXCEPT ![v] = q] OBVIOUS
<1>7. ro' \in BOOLEAN BY <1>0, <1>1 DEF HolderTypes
<1>8. Ends(c, [vols EXCEPT ![v] = q]) BY <1>1, <1>6
<1> HIDE DEF q, vs
<1> QED BY <1>1, <1>5, <1>7, <1>8, OneVolumeEnds

\* The end of ubi_resize_volume() keeps the users of the volume.
LEMMA ResizeEndHolds ==
    ASSUME HolderInv, NEW c \in Clients, ResizeEnd(c)
    PROVE  HolderInv'
<1>0. HolderTypes BY DEF HolderInv
<1> DEFINE v == job[c].vol
           s == job[c].rec.size
           q == [vols[v] EXCEPT !.size = s]
           vs == [vols EXCEPT ![v].size = s]
<1>1. /\ pc[c] = "apply" /\ job[c].op = "resize"
      /\ Ends(c, vs) /\ mutex' = None /\ UNCHANGED <<dev, ro, vtbl, torn>>
  BY DEF ResizeEnd, Unlock, hist
<1>2. JobRule(pc[c], job[c], desc[c]) BY DEF HolderInv, JobInv
<1>3. v \in Vols /\ desc[c][v] = "ex" /\ job[c].rec \in Records /\ s > 0
  BY <1>1, <1>2 DEF JobRule, OneVolume, Owns
<1>4. vols[v] \in Volumes /\ vols[v] # None BY <1>3, Exclusive
<1>5. s \in 1 .. MaxSize BY <1>3, VolSizes DEF Records
<1>6. vols[v].listed
  <2> SUFFICES ASSUME ~vols[v].listed PROVE FALSE
    OBVIOUS
  <2>1. PICK d \in Clients : mutex = d /\ RemoveOf(pc[d], job[d], v) BY <1>3, <1>4, NotListed
  <2>2. mutex = c BY <1>1 DEF HolderInv, MutexRule, HasMutex
  <2> QED BY <1>1, <2>1, <2>2 DEF RemoveOf
<1>7. q \in Volumes /\ q.use = vols[v].use /\ q.refs = vols[v].refs /\ q.listed
  <2> HIDE DEF v, s
  <2>1. q \in Volumes /\ q.use = vols[v].use /\ q.refs = vols[v].refs /\ q.listed = vols[v].listed
    BY <1>4, <1>5, VolumeSize
  <2> QED BY <1>6, <2>1
<1>8. vs = [vols EXCEPT ![v] = q] OBVIOUS
<1>9. ro' \in BOOLEAN BY <1>0, <1>1 DEF HolderTypes
<1>10. Ends(c, [vols EXCEPT ![v] = q]) BY <1>1, <1>8
<1> HIDE DEF q, vs
<1> QED BY <1>1, <1>7, <1>9, <1>10, OneVolumeEnds

\* The end of ubi_remove_volume() leaves nobody with the volume.
LEMMA RemoveEndHolds ==
    ASSUME HolderInv, NEW c \in Clients, RemoveEnd(c)
    PROVE  HolderInv'
<1>0. HolderTypes BY DEF HolderInv
<1> DEFINE j == job[c]
           v == j.vol
           vs == [vols EXCEPT ![v] = None]
<1>1. /\ pc[c] = "apply" /\ job[c].op = "remove"
      /\ Ends(c, vs) /\ mutex' = None /\ UNCHANGED <<dev, ro, vtbl, torn>>
  BY DEF RemoveEnd, Unlock, hist
<1>2. JobRule(pc[c], job[c], desc[c]) BY DEF HolderInv, JobInv
<1>3. v \in Vols /\ desc[c][v] = "ex" BY <1>1, <1>2 DEF JobRule, OneVolume, Owns
<1>4. vs \in [Vols -> Volumes \cup {None}] /\ \A w \in Vols : vs[w] = IF w = v THEN None ELSE vols[w]
  BY <1>0, <1>3 DEF HolderTypes
<1> HIDE DEF vs
<1>5. \A w \in Vols : RemoveOf(pc[c], j, w) <=> w = v BY <1>1 DEF RemoveOf
<1>6. Readers(v) = {} BY <1>3, <1>5 DEF HolderInv, LifeInv
<1>7. \A w \in Vols : vs[w] # None => Counts(vs[w], UsesOf(w), Readers(w))
  BY <1>4 DEF HolderInv, Counted
<1>8. \A w \in Vols : vs[w] = None => vols[w] = None \/ (desc[c][w] = "ex" /\ Readers(w) = {})
  BY <1>3, <1>4, <1>6
<1>9. \A w \in Vols : vs[w] # None /\ ~vs[w].listed <=>
          vols[w] # None /\ ~vols[w].listed /\ ~RemoveOf(pc[c], job[c], w)
  BY <1>4, <1>5
<1>10. HasMutex(pc[c]) /\ pc[c] # "show" BY <1>1 DEF HasMutex
<1>11. dev = "on" BY <1>1, ClientOn
<1>12. vtbl' \in Tables /\ torn' \subseteq Vols /\ ro' \in BOOLEAN BY <1>0, <1>1 DEF HolderTypes
<1>13. EndsWell(c, vs) BY <1>1, <1>4, <1>7, <1>8, <1>9, <1>10 DEF EndsWell
<1>14. DeviceOn BY <1>1, <1>11, <1>12 DEF DeviceOn
<1> QED BY <1>1, <1>12, <1>13, <1>14, EndStep

\* The end of ubi_rename_volumes(): the volumes it removes have no other user.
LEMMA RenameEndHolds ==
    ASSUME HolderInv, NEW c \in Clients, RenameEnd(c)
    PROVE  HolderInv'
<1>0. HolderTypes BY DEF HolderInv
<1> DEFINE j == job[c]
           busy == {w \in j.drop : vols[w].refs > 1}
           After(gone) == [v \in Vols |->
              IF v \in gone THEN None
              ELSE IF gone = j.drop /\ v \in DOMAIN j.names
                   THEN [vols[v] EXCEPT !.name = j.names[v]] ELSE vols[v]]
<1>1. pc[c] = "apply" /\ j.op = "rename" /\ mutex' = None /\ UNCHANGED <<dev, ro, vtbl>>
  BY DEF RenameEnd, Unlock
<1>2. PICK gone \in SUBSET (j.drop \ busy) :
        Ends(c, After(gone)) /\ torn' = torn \cup (IF gone = j.drop THEN {} ELSE Listed(j))
  BY DEF RenameEnd
<1> DEFINE vs == After(gone)
<1>3. JobRule(pc[c], j, desc[c]) BY DEF HolderInv, JobInv
<1>4. \A v \in Vols : desc[c][v] = IF v \in Listed(j) THEN "ex" ELSE None
  BY <1>1, <1>3 DEF JobRule, Owns
<1>5. gone \subseteq Listed(j) /\ DOMAIN j.names \subseteq Listed(j) BY DEF Listed
<1>6. Listed(j) \subseteq Vols /\ \A v \in DOMAIN j.names : j.names[v] \in Names
  BY <1>0, Unchanged, JobTyped
<1>7. HasMutex(pc[c]) /\ pc[c] # "show" /\ mutex = c
  BY <1>1 DEF HasMutex, HolderInv, MutexRule
<1>8. \A w \in Vols : ~RemoveOf(pc[c], j, w) BY <1>1 DEF RemoveOf
<1>9. \A v \in Vols : vols[v] # None => vols[v].listed
  <2> SUFFICES ASSUME NEW v \in Vols, vols[v] # None, ~vols[v].listed PROVE FALSE
    OBVIOUS
  <2>1. PICK d \in Clients : mutex = d /\ RemoveOf(pc[d], job[d], v) BY NotListed
  <2> QED BY <1>7, <1>8, <2>1
<1>10. \A v \in gone : Readers(v) = {} /\ desc[c][v] = "ex"
  <2> SUFFICES ASSUME NEW v \in gone PROVE Readers(v) = {} /\ desc[c][v] = "ex"
    OBVIOUS
  <2>1. v \in Vols /\ desc[c][v] = "ex" BY <1>4, <1>5, <1>6
  <2>2. ~(vols[v].refs > 1) /\ vols[v] \in Volumes BY <2>1, Exclusive
  <2>3. vols[v].refs <= 1 BY <2>2 DEF Volumes
  <2> QED BY <2>1, <2>3, Exclusive
<1>11. \A v \in Vols : /\ vs[v] = IF v \in gone THEN None
                                 ELSE IF gone = j.drop /\ v \in DOMAIN j.names
                                      THEN [vols[v] EXCEPT !.name = j.names[v]] ELSE vols[v]
  OBVIOUS
<1> HIDE DEF vs
<1>12. \A v \in Vols : /\ vs[v] \in Volumes \cup {None}
                       /\ v \notin gone /\ vols[v] # None =>
                            vs[v] # None /\ vs[v].listed = vols[v].listed
                       /\ v \notin gone /\ vols[v] = None => vs[v] = None
                       /\ v \notin gone => Counts(vs[v], UsesOf(v), Readers(v))
  <2> SUFFICES ASSUME NEW v \in Vols
               PROVE  /\ vs[v] \in Volumes \cup {None}
                      /\ v \notin gone /\ vols[v] # None =>
                            vs[v] # None /\ vs[v].listed = vols[v].listed
                      /\ v \notin gone /\ vols[v] = None => vs[v] = None
                      /\ v \notin gone => Counts(vs[v], UsesOf(v), Readers(v))
    OBVIOUS
  <2>1. vols[v] \in Volumes \cup {None} /\ Counts(vols[v], UsesOf(v), Readers(v))
    BY <1>0, Unchanged DEF HolderInv, Counted
  <2>2. CASE v \in gone BY <1>11, <2>2
  <2>3. CASE v \notin gone /\ gone = j.drop /\ v \in DOMAIN j.names
    <3>1. desc[c][v] = "ex" /\ j.names[v] \in Names BY <1>4, <1>5, <1>6, <2>3
    <3>2. vols[v] \in Volumes BY <3>1, Exclusive
    <3>3. vs[v] = [vols[v] EXCEPT !.name = j.names[v]] BY <1>11, <2>3
    <3>4. vs[v] \in Volumes /\ vs[v].use = vols[v].use /\ vs[v].refs = vols[v].refs
          /\ vs[v].listed = vols[v].listed
      BY <3>1, <3>2, <3>3, VolumeName
    <3>5. UsesOf(v) \in Uses /\ Readers(v) \in SUBSET Clients BY <1>0, UsesTyped
    <3>6. Counts(vs[v], UsesOf(v), Readers(v)) BY <2>1, <3>2, <3>4, <3>5, CountsOther
    <3> QED BY <2>3, <3>2, <3>4, <3>6, VolNone
  <2>4. CASE v \notin gone /\ ~(gone = j.drop /\ v \in DOMAIN j.names)
    <3>1. vs[v] = vols[v] BY <1>11, <2>4
    <3> QED BY <2>1, <2>4, <3>1
  <2> QED BY <2>2, <2>3, <2>4
<1>13. vs \in [Vols -> Volumes \cup {None}] BY <1>12 DEF vs
<1>14. \A v \in Vols : vs[v] # None => Counts(vs[v], UsesOf(v), Readers(v)) BY <1>11, <1>12
<1>15. \A v \in Vols : vs[v] = None => vols[v] = None \/ (desc[c][v] = "ex" /\ Readers(v) = {})
  BY <1>10, <1>12
<1>16. \A v \in Vols : ~(vs[v] # None /\ ~vs[v].listed) /\ ~(vols[v] # None /\ ~vols[v].listed)
  BY <1>9, <1>11, <1>12
<1>17. \A v \in torn', d \in Clients \ {c} : v \in torn \/ desc[d][v] = None
  <2>1. \A v \in Listed(j), d \in Clients \ {c} : desc[d][v] = None BY <1>4, <1>6, Exclusive
  <2> QED BY <1>2, <2>1
<1>18. EndsWell(c, vs) BY <1>1, <1>7, <1>13, <1>14, <1>15, <1>16, <1>17 DEF EndsWell
<1>19. dev = "on" BY <1>1, ClientOn
<1>20. torn' \subseteq Vols BY <1>0, <1>2, <1>6 DEF HolderTypes
<1>21. vtbl' \in Tables /\ ro' \in BOOLEAN BY <1>0, <1>1 DEF HolderTypes
<1>22. DeviceOn BY <1>1, <1>19, <1>20, <1>21 DEF DeviceOn
<1>23. Ends(c, vs) BY <1>2 DEF vs
<1> QED BY <1>18, <1>21, <1>22, <1>23, EndStep

\* What every operation takes back when the table cannot be written.
LEMMA TableFailsHolds ==
    ASSUME HolderInv, NEW c \in Clients, TableFails(c)
    PROVE  HolderInv'
<1>0. HolderTypes BY DEF HolderInv
<1> DEFINE j == job[c]
           v == j.vol
<1>1. pc[c] \in {"flush", "table"} /\ mutex' = None /\ ro' = TRUE /\ UNCHANGED <<dev, vtbl, torn>>
  BY DEF TableFails, hist
<1>2. JobRule(pc[c], j, desc[c]) BY DEF HolderInv, JobInv
<1>3. HasMutex(pc[c]) /\ pc[c] # "show" /\ mutex = c BY <1>1 DEF HasMutex, HolderInv, MutexRule
<1>4. dev = "on" BY <1>1, ClientOn
<1>5. vtbl' \in Tables /\ ro' \in BOOLEAN /\ torn' \subseteq Vols BY <1>0, <1>1 DEF HolderTypes
<1>6. DeviceOn BY <1>1, <1>4, <1>5 DEF DeviceOn
<1>7. CASE j.op = "remove"
  <2> DEFINE q == [vols[v] EXCEPT !.listed = TRUE]
             vs == [vols EXCEPT ![v].listed = TRUE]
  <2>1. Ends(c, vs) BY <1>7 DEF TableFails
  <2>2. pc[c] \in {"table", "apply"} BY <1>1, <1>2, <1>7 DEF JobRule
  <2>3. v \in Vols /\ desc[c][v] = "ex" BY <1>2, <1>7, <2>2 DEF JobRule, OneVolume, Owns
  <2>4. vols[v] \in Volumes BY <2>3, Exclusive
  <2>5. q \in Volumes /\ q.use = vols[v].use /\ q.refs = vols[v].refs /\ q.listed
    <3>1. q = [vols[v] EXCEPT !.listed = TRUE] OBVIOUS
    <3> HIDE DEF q, v
    <3> QED BY <2>4, <3>1, VolumeListed
  <2>6. vs = [vols EXCEPT ![v] = q] OBVIOUS
  <2>7. j.op \in {"remove", "resize"} BY <1>7
  <2>8. Ends(c, [vols EXCEPT ![v] = q]) BY <2>1, <2>6
  <2> HIDE DEF q, vs
  <2> QED BY <1>1, <1>5, <2>2, <2>5, <2>7, <2>8, OneVolumeEnds
<1>8. CASE j.op \in {"mark", "clear"}
  <2> DEFINE b == (j.op = "mark")
             q == [vols[v] EXCEPT !.mark = b]
             vs == [vols EXCEPT ![v].mark = b]
             D == desc[c]
             p == "idle"
             k == NoJob
  <2>1. vols' = vs /\ pc' = [pc EXCEPT ![c] = p] /\ job' = [job EXCEPT ![c] = k] /\ desc' = desc
    <3>1. j.op # "remove" BY <1>8
    <3> QED BY <1>8, <3>1 DEF TableFails
  <2>2. pc[c] = "table" BY <1>1, <1>2, <1>8 DEF JobRule
  <2>3. v \in Vols /\ desc[c][v] = "ex" /\ \A w \in Vols : w # v => desc[c][w] = None
    BY <1>2, <1>8, <2>2 DEF JobRule, OneVolume, Owns
  <2>4. vols[v] \in Volumes /\ vols[v] # None BY <2>3, Exclusive
  <2>5. q \in Volumes /\ q.use = vols[v].use /\ q.refs = vols[v].refs /\ q.listed = vols[v].listed
    <3>1. b \in BOOLEAN /\ q = [vols[v] EXCEPT !.mark = b] OBVIOUS
    <3> HIDE DEF q, v, b
    <3> QED BY <2>4, <3>1, VolumeMark
  <2>6. vs = [vols EXCEPT ![v] = q] OBVIOUS
  <2> HIDE DEF q, vs, b
  <2>7. /\ vs \in [Vols -> Volumes \cup {None}]
        /\ \A w \in Vols : vs[w] = IF w = v THEN q ELSE vols[w]
        /\ \A w \in Vols : Counts(vs[w], UsesOf(w), Readers(w))
        /\ \A w \in Vols : vs[w] = None <=> vols[w] = None
    <3>1. vs = [vols EXCEPT ![v] = q] BY <2>6
    <3>2. v \in Vols /\ vols[v] # None /\ q \in Volumes /\ q.use = vols[v].use /\ q.refs = vols[v].refs
      BY <2>3, <2>4, <2>5
    <3> HIDE DEF v
    <3>3. vs = [w \in Vols |-> IF w = v THEN q ELSE vols[w]] BY <1>0, <3>1 DEF HolderTypes
    <3>4. \A w \in Vols : vs[w] = IF w = v THEN q ELSE vols[w] BY <3>3
    <3>5. /\ \A w \in Vols : Counts(vs[w], UsesOf(w), Readers(w))
          /\ \A w \in Vols : vs[w] = None <=> vols[w] = None
      <4>1. Replaced(vs, v, q) BY <3>2, <3>4 DEF Replaced
      <4> QED BY <4>1, OneVolumeChanged
    <3> QED BY <1>0, <3>2, <3>3, <3>4, <3>5 DEF HolderTypes
  <2>8. p \in Pcs /\ k \in Jobs /\ D \in [Vols -> Modes \cup {None}] /\ desc' = [desc EXCEPT ![c] = D]
    BY <1>0, <2>1, NoJobTyped, Unchanged DEF Pcs
  <2>9. \A w \in Vols : [UsesOf(w) EXCEPT ![c] = D[w]] = UsesOf(w) BY DEF UsesOf
  <2>10. \A w \in Vols : Readers(w) \ {c} = Readers(w) BY <1>3 DEF Readers
  <2>11. ~HasMutex(p) /\ p # "show" /\ \A w \in Vols : ~RemoveOf(p, k, w) /\ ~RemoveOf(pc[c], job[c], w)
    BY <1>8 DEF HasMutex, RemoveOf
  <2>12. JobRule(p, k, D) BY <2>3, NoJobTyped DEF JobRule
  <2>13. \A w \in torn : D[w] = None BY <1>8 DEF HolderInv, LifeInv
  <2> HIDE DEF p, k, D
  <2>14. Moves(c, p, k, D) BY <1>1, <1>3, <2>1, <2>8, <2>11, <2>12 DEF Moves
  <2>15. MovesCounts(c, p, k, D)
    <3> SUFFICES ASSUME NEW w \in Vols
                 PROVE  Counts(vols'[w], [UsesOf(w) EXCEPT ![c] = D[w]], Readers(w) \ {c})
      BY <2>11 DEF MovesCounts
    <3> QED BY <2>1, <2>7, <2>9, <2>10
  <2>16. \A w \in Vols : vols'[w] # None => vols[w] # None /\ vols'[w].listed = vols[w].listed
    BY <2>1, <2>5, <2>7
  <2>17. MovesLife(c, p, k, D) BY <1>1, <1>3, <2>1, <2>7, <2>11, <2>13, <2>16 DEF MovesLife
  <2> QED BY <1>5, <1>6, <2>1, <2>7, <2>14, <2>15, <2>17, ClientStep
<1>9. CASE j.op \notin {"remove", "mark", "clear"}
  <2>1. Ends(c, vols) BY <1>9 DEF TableFails
  <2>2. vols \in [Vols -> Volumes \cup {None}] BY <1>0 DEF HolderTypes
  <2>3. \A w \in Vols : Counts(vols[w], UsesOf(w), Readers(w)) BY DEF HolderInv, Counted
  <2>4. \A w : ~RemoveOf(pc[c], job[c], w) BY <1>9 DEF RemoveOf
  <2>5. EndsWell(c, vols) BY <1>1, <1>3, <2>2, <2>3, <2>4 DEF EndsWell
  <2> QED BY <1>5, <1>6, <2>1, <2>5, EndStep
<1> QED BY <1>7, <1>8, <1>9

-----------------------------------------------------------------------------
(*****************************************************************************)
(* Steps that open a volume.                                                 *)
(*****************************************************************************)

\* Process c opens volume v in mode m and goes on at p with request j.
Enters(c, v, m, p, j) ==
    /\ CanOpen(v, m) /\ desc[c][v] = None
    /\ vols' = Opened(v, m)
    /\ desc' = [desc EXCEPT ![c] = [desc[c] EXCEPT ![v] = m]]
    /\ pc' = [pc EXCEPT ![c] = p] /\ job' = [job EXCEPT ![c] = j]
    /\ p \in Pcs /\ j \in Jobs /\ p # "show" /\ pc[c] # "show"
    /\ ~HasMutex(p) /\ ~HasMutex(pc[c])
    /\ JobRule(p, j, [desc[c] EXCEPT ![v] = m])
    /\ \A w \in torn : w = v \/ desc[c][w] # None => p # "idle" /\ j.op = "rename"
    /\ dev = "on" /\ UNCHANGED <<dev, ro, vtbl, mutex, torn>>

\* A process that opens a volume preserves the holder invariant.
LEMMA EnterStep ==
    ASSUME HolderInv, NEW c \in Clients, NEW v \in Vols, NEW m \in Modes, NEW p, NEW j,
           Enters(c, v, m, p, j)
    PROVE  HolderInv'
<1> USE DEF Enters
<1>0. HolderTypes BY DEF HolderInv
<1> DEFINE D == [desc[c] EXCEPT ![v] = m]
           q == Entered(vols[v], m)
<1>1. D \in [Vols -> Modes \cup {None}]
      /\ \A w \in Vols : D[w] = IF w = v THEN m ELSE desc[c][w]
  BY <1>0 DEF HolderTypes
<1>2. vols[v] \in Volumes /\ vols[v].listed BY <1>0 DEF CanOpen, Exists, HolderTypes
<1>3. q \in Volumes /\ SameVolume(vols[v], q) BY <1>2, EnteredIs
<1>4. vols' = [vols EXCEPT ![v] = q] BY DEF Opened
<1>5. desc' = [desc EXCEPT ![c] = D] OBVIOUS
<1> HIDE DEF q, D
<1>6. vols' \in [Vols -> Volumes \cup {None}] /\ \A w \in Vols : vols'[w] = IF w = v THEN q ELSE vols[w]
  BY <1>0, <1>3, <1>4 DEF HolderTypes
<1>7. \A w \in Vols : UsesOf(w) \in Uses /\ Readers(w) \in SUBSET Clients
          /\ Counts(vols[w], UsesOf(w), Readers(w))
  BY <1>0, UsesTyped DEF HolderInv, Counted
<1>8. Counts(q, [UsesOf(v) EXCEPT ![c] = m], Readers(v))
  <2>1. UsesOf(v)[c] = None BY DEF UsesOf
  <2>2. vols[v].use["ex"] = 0 /\ (m \in {"rw", "ex"} => vols[v].use["rw"] = 0)
        /\ (m = "ex" => vols[v].use["ro"] = 0)
    BY DEF CanOpen
  <2> DEFINE U == UsesOf(v)
             S == Readers(v)
             r == vols[v]
  <2>3. U \in Uses /\ S \in SUBSET Clients /\ Counts(r, U, S) /\ r \in Volumes /\ U[c] = None
    BY <1>2, <1>7, <2>1
  <2> HIDE DEF U, S, r
  <2>4. Counts(Entered(r, m), [U EXCEPT ![c] = m], S) BY <2>2, <2>3, CountsEnter DEF r
  <2> QED BY <2>4 DEF U, S, r, q
<1>9. \A w \in Vols : w # v => [UsesOf(w) EXCEPT ![c] = D[w]] = UsesOf(w) BY <1>1 DEF UsesOf
<1>10. \A w \in Vols : Readers(w) \ {c} = Readers(w) BY DEF Readers
<1>11. MovesCounts(c, p, j, D)
  <2> SUFFICES ASSUME NEW w \in Vols
               PROVE  Counts(vols'[w], [UsesOf(w) EXCEPT ![c] = D[w]], Readers(w) \ {c})
    BY DEF MovesCounts
  <2>1. CASE w = v BY <1>1, <1>6, <1>8, <1>10, <2>1
  <2>2. CASE w # v BY <1>6, <1>7, <1>9, <1>10, <2>2
  <2> QED BY <2>1, <2>2
<1>12. Moves(c, p, j, D) BY <1>1, <1>5 DEF Moves, D
<1>13. \A w : ~RemoveOf(p, j, w) /\ ~RemoveOf(pc[c], job[c], w) BY DEF RemoveOf, HasMutex
<1>14. \A w \in Vols : /\ vols'[w] = None <=> vols[w] = None
                       /\ vols[w] # None => vols'[w].listed = vols[w].listed
  BY <1>2, <1>3, <1>6, VolNone DEF SameVolume
<1>15. \A w \in torn : D[w] # None => p # "idle" /\ j.op = "rename" BY <1>0, <1>1 DEF HolderTypes
<1>16. MovesLife(c, p, j, D) BY <1>13, <1>14, <1>15 DEF MovesLife
<1>17. DeviceOn /\ vtbl' \in Tables BY <1>0 DEF DeviceOn, HolderTypes
<1> HIDE DEF Enters
<1> QED BY <1>6, <1>11, <1>12, <1>16, <1>17, ClientStep

\* ubi_open_volume() of the character device.
LEMMA OpenHolds ==
    ASSUME HolderInv, NEW c \in Clients, NEW v \in Vols, NEW m \in Modes, Open(c, v, m)
    PROVE  HolderInv'
<1>0. HolderTypes BY DEF HolderInv
<1> DEFINE p == "idle"
           j == job[c]
<1>1. Idle(c) /\ CanOpen(v, m) /\ vols' = Opened(v, m) /\ desc' = [desc EXCEPT ![c][v] = m]
      /\ UNCHANGED <<dev, ro, vtbl, mutex, pc, job, torn>>
  BY DEF Open, hist
<1>2. /\ dev = "on" /\ pc[c] = "idle" /\ \A w \in Vols : desc[c][w] = None
      /\ torn = {} /\ ~HasMutex(pc[c])
  BY <1>1, IdleIs
<1>3. desc' = [desc EXCEPT ![c] = [desc[c] EXCEPT ![v] = m]] BY <1>1
<1>4. pc' = [pc EXCEPT ![c] = p] /\ job' = [job EXCEPT ![c] = j] /\ j \in Jobs
  BY <1>0, <1>1, <1>2, Unchanged
<1>5. \A w \in Vols : w # v => [desc[c] EXCEPT ![v] = m][w] = None BY <1>0, <1>2 DEF HolderTypes
<1>6. JobRule(p, j, [desc[c] EXCEPT ![v] = m])
  <2> DEFINE D == [desc[c] EXCEPT ![v] = m]
  <2>1. \A u, w \in Vols : D[u] # None /\ D[w] # None => u = w BY <1>5
  <2> HIDE DEF D
  <2>2. JobRule(p, j, D) BY <2>1 DEF JobRule
  <2> QED BY <2>2 DEF D
<1>7. p \in Pcs /\ p # "show" BY DEF Pcs
<1>8. Enters(c, v, m, p, j) BY <1>1, <1>2, <1>3, <1>4, <1>6, <1>7 DEF Enters
<1> HIDE DEF p, j
<1> QED BY <1>8, EnterStep

\* The ioctls that remove and re-size open the volume in exclusive mode.
LEMMA RequestHolds ==
    ASSUME HolderInv, NEW c \in Clients, NEW v \in Vols, NEW j \in Jobs, Request(c, v, j),
           j.op \in {"remove", "resize"}, j.vol = v,
           j.op = "resize" => j.rec \in Records /\ j.rec.size > 0
    PROVE  HolderInv'
<1>0. HolderTypes BY DEF HolderInv
<1> DEFINE p == "lock"
           m == "ex"
<1>1. Idle(c) /\ CanOpen(v, m) /\ vols' = Opened(v, m) /\ desc' = [desc EXCEPT ![c][v] = m]
      /\ pc' = [pc EXCEPT ![c] = p] /\ job' = [job EXCEPT ![c] = j]
      /\ UNCHANGED <<dev, ro, vtbl, mutex, torn>>
  BY DEF Request, hist
<1>2. /\ dev = "on" /\ pc[c] = "idle" /\ \A w \in Vols : desc[c][w] = None
      /\ torn = {} /\ ~HasMutex(pc[c])
  BY <1>1, IdleIs
<1>3. desc' = [desc EXCEPT ![c] = [desc[c] EXCEPT ![v] = m]] BY <1>1
<1>5. Owns([desc[c] EXCEPT ![v] = m], {v}) BY <1>0, <1>2 DEF HolderTypes, Owns
<1>6. JobRule(p, j, [desc[c] EXCEPT ![v] = m])
  <2> DEFINE D == [desc[c] EXCEPT ![v] = m]
  <2>1. Owns(D, {j.vol}) BY <1>5
  <2> HIDE DEF D
  <2>2. JobRule(p, j, D) BY <2>1 DEF JobRule, OneVolume
  <2> QED BY <2>2 DEF D
<1>7. p \in Pcs /\ p # "show" /\ ~HasMutex(p) /\ m \in Modes BY DEF Pcs, HasMutex, Modes
<1>8. Enters(c, v, m, p, j) BY <1>1, <1>2, <1>3, <1>6, <1>7 DEF Enters
<1> HIDE DEF p, m
<1> QED BY <1>7, <1>8, EnterStep

\* UBI_IOCRMVOL.
LEMMA RemoveHolds ==
    ASSUME HolderInv, NEW c \in Clients, NEW v \in Vols, Remove(c, v)
    PROVE  HolderInv'
<1> DEFINE j == [NoJob EXCEPT !.op = "remove", !.vol = v]
<1>1. j \in Jobs BY NoJobTyped DEF Jobs
<1>2. j.op = "remove" /\ j.vol = v BY DEF NoJob
<1>3. Request(c, v, j) BY DEF Remove
<1> HIDE DEF j
<1> QED BY <1>1, <1>2, <1>3, RequestHolds

\* UBI_IOCRSVOL.
LEMMA ResizeHolds ==
    ASSUME HolderInv, NEW c \in Clients, NEW v \in Vols, NEW s \in 1 .. MaxSize, Resize(c, v, s)
    PROVE  HolderInv'
<1> DEFINE r == [RecordOf(vols[v]) EXCEPT !.size = s]
           j == [NoJob EXCEPT !.op = "resize", !.vol = v, !.rec = r]
<1>1. RecordOf(vols[v]) \in Records BY RecordOfTyped DEF HolderInv, HolderTypes
<1>2. s \in 0 .. MaxSize /\ s > 0 BY VolSizes
<1>3. r \in Records /\ r.size > 0
  <2>1. r \in Records BY <1>1, <1>2, RecordTyped
  <2>2. r.size = s BY <1>1 DEF Records
  <2> QED BY <1>2, <2>1, <2>2
<1>6. Request(c, v, j) BY DEF Resize
<1> HIDE DEF r
<1>4. j \in Jobs BY <1>3, NoJobTyped DEF Jobs
<1>5. j.op = "resize" /\ j.vol = v /\ j.rec = r BY DEF NoJob
<1> HIDE DEF j
<1> QED BY <1>3, <1>4, <1>5, <1>6, RequestHolds

\* The names of a request, without those that do not change.
LEMMA RestrictedTyped ==
    ASSUME NEW f \in Renames, NEW S \in SUBSET (DOMAIN f)
    PROVE  Restrict(f, S) \in Renames /\ DOMAIN Restrict(f, S) = S
<1>1. PICK T \in SUBSET Vols : f \in [T -> Names] BY DEF Renames
<1>2. S \in SUBSET Vols /\ Restrict(f, S) \in [S -> Names] BY <1>1 DEF Restrict
<1> QED BY <1>2 DEF Renames, Restrict

\* rename_volumes() opens the volumes it re-names.
LEMMA RenameOpenHolds ==
    ASSUME HolderInv, NEW c \in Clients, NEW v \in Vols, RenameOpen(c, v)
    PROVE  HolderInv'
<1>0. HolderTypes BY DEF HolderInv
<1> DEFINE old == job[c].names
           same == vols[v].name = job[c].names[v]
           left == job[c].todo \ {v}
           names == IF same THEN Restrict(old, DOMAIN old \ {v}) ELSE old
           todo == IF left = {} THEN DOMAIN names ELSE left
           j == [job[c] EXCEPT !.names = names, !.todo = todo]
           p == IF left # {} THEN "rnopen" ELSE IF DOMAIN names = {} THEN "idle" ELSE "rnfind"
           D == IF same THEN desc[c] ELSE [desc[c] EXCEPT ![v] = "ex"]
<1>1. pc[c] = "rnopen" /\ v \in job[c].todo /\ CanOpen(v, "ex") BY DEF RenameOpen
<1>2. /\ vols' = IF same THEN vols ELSE Opened(v, "ex")
      /\ desc' = IF same THEN desc ELSE [desc EXCEPT ![c] = [desc[c] EXCEPT ![v] = "ex"]]
      /\ job' = [job EXCEPT ![c] = j] /\ pc' = [pc EXCEPT ![c] = p]
      /\ UNCHANGED <<dev, ro, vtbl, mutex, torn>>
  BY DEF RenameOpen, hist
<1>3. JobRule(pc[c], job[c], desc[c]) /\ job[c] \in Jobs BY <1>0, Unchanged DEF HolderInv, JobInv
<1>4. /\ job[c].op = "rename" /\ job[c].todo \subseteq DOMAIN old /\ job[c].drop = {}
      /\ \A w \in Vols : desc[c][w] = IF w \in DOMAIN old \ job[c].todo THEN "ex" ELSE None
  BY <1>1, <1>3 DEF JobRule, Owns
<1>5. old \in Renames /\ DOMAIN old \in SUBSET Vols /\ job[c].todo \in SUBSET Vols BY <1>3, JobTyped
<1>6. names \in Renames /\ DOMAIN names = IF same THEN DOMAIN old \ {v} ELSE DOMAIN old
  <2>1. DOMAIN old \ {v} \in SUBSET (DOMAIN old) OBVIOUS
  <2>2. Restrict(old, DOMAIN old \ {v}) \in Renames
        /\ DOMAIN Restrict(old, DOMAIN old \ {v}) = DOMAIN old \ {v}
    BY <1>5, <2>1, RestrictedTyped
  <2> QED BY <1>5, <2>2
<1>7. desc[c][v] = None /\ v \in DOMAIN old BY <1>1, <1>4
<1>8. /\ D \in [Vols -> Modes \cup {None}]
      /\ \A w \in Vols : D[w] = IF w = v /\ ~same THEN "ex" ELSE desc[c][w]
  BY <1>0, <1>7 DEF HolderTypes, Modes
<1> HIDE DEF names, same, left, D
<1>9. left = job[c].todo \ {v} BY DEF left
<1>10. \A w \in Vols : D[w] = IF w \in DOMAIN names \ left THEN "ex" ELSE None
  BY <1>1, <1>4, <1>6, <1>8, <1>9
<1>11. todo \in SUBSET Vols BY <1>5, <1>6, <1>9
<1> HIDE DEF todo
<1>12. /\ j \in Jobs /\ j.op = "rename" /\ j.names = names /\ j.todo = todo /\ j.drop = {}
  BY <1>3, <1>4, <1>6, <1>11 DEF Jobs
<1>13. todo = IF left = {} THEN DOMAIN names ELSE left BY DEF todo
<1>14. left \subseteq DOMAIN names BY <1>4, <1>6, <1>9
<1>15. p = IF left # {} THEN "rnopen" ELSE IF DOMAIN names = {} THEN "idle" ELSE "rnfind" OBVIOUS
<1> HIDE DEF p, j
<1>16. JobRule(p, j, D)
  <2>1. CASE left # {}
    <3>1. p = "rnopen" /\ todo = left BY <1>13, <1>15, <2>1
    <3> QED BY <1>10, <1>12, <1>14, <3>1 DEF JobRule, Owns
  <2>2. CASE left = {} /\ DOMAIN names = {}
    <3>1. p = "idle" BY <1>15, <2>2
    <3>2. \A w \in Vols : D[w] = None BY <1>10, <2>2
    <3> QED BY <3>1, <3>2 DEF JobRule
  <2>3. CASE left = {} /\ DOMAIN names # {}
    <3>1. p = "rnfind" /\ todo = DOMAIN names BY <1>13, <1>15, <2>3
    <3>2. Listed(j) = DOMAIN names BY <1>12 DEF Listed
    <3> QED BY <1>10, <1>12, <2>3, <3>1, <3>2 DEF JobRule, Owns
  <2> QED BY <2>1, <2>2, <2>3
<1>17. \A w \in torn : D[w] # None => p # "idle" /\ j.op = "rename"
  BY <1>0, <1>10, <1>12, <1>15 DEF HolderTypes
<1>18. /\ p \in Pcs /\ p # "show" /\ ~HasMutex(p) /\ ~HasMutex(pc[c]) /\ pc[c] # "show"
       /\ \A w : ~RemoveOf(p, j, w) /\ ~RemoveOf(pc[c], job[c], w)
  BY <1>1, <1>15 DEF Pcs, HasMutex, RemoveOf
<1>19. dev = "on" BY <1>1, ClientOn
<1>20. ro' \in BOOLEAN /\ vtbl' \in Tables BY <1>0, <1>2 DEF HolderTypes
<1>21. CASE same
  <2>1. D = desc[c] /\ vols' = vols /\ desc' = desc BY <1>2, <1>21 DEF D
  <2> QED BY <1>2, <1>12, <1>16, <1>17, <1>18, <1>19, <1>20, <2>1, QuietStep
<1>22. CASE ~same
  <2>1. D = [desc[c] EXCEPT ![v] = "ex"] BY <1>22 DEF D
  <2>2. vols' = Opened(v, "ex") /\ desc' = [desc EXCEPT ![c] = [desc[c] EXCEPT ![v] = "ex"]]
    BY <1>2, <1>22
  <2>3. \A w \in torn : w = v \/ desc[c][w] # None => p # "idle" /\ j.op = "rename"
    BY <1>0, <1>8, <1>17, <1>22, VolNone DEF HolderTypes, Modes
  <2>4. Enters(c, v, "ex", p, j)
    BY <1>1, <1>2, <1>7, <1>12, <1>16, <1>18, <1>19, <2>1, <2>2, <2>3 DEF Enters
  <2> QED BY <2>4, EnterStep DEF Modes
<1> QED BY <1>21, <1>22

\* rename_volumes() opens the volume it has found by its name.
LEMMA RenameOpenNamedHolds ==
    ASSUME HolderInv, NEW c \in Clients, RenameOpenNamed(c)
    PROVE  HolderInv'
<1>0. HolderTypes BY DEF HolderInv
<1> DEFINE w == job[c].vol
           drop == job[c].drop \cup (IF Exists(w) THEN {w} ELSE {})
           j == [job[c] EXCEPT !.vol = None, !.drop = drop]
           p == IF job[c].todo = {} THEN "lock" ELSE "rnfind"
           D == IF Exists(w) THEN [desc[c] EXCEPT ![w] = "ex"] ELSE desc[c]
<1>1. pc[c] = "rnnamed" /\ (Exists(w) => CanOpen(w, "ex")) BY DEF RenameOpenNamed
<1>2. /\ vols' = IF Exists(w) THEN Opened(w, "ex") ELSE vols
      /\ desc' = IF Exists(w) THEN [desc EXCEPT ![c] = [desc[c] EXCEPT ![w] = "ex"]] ELSE desc
      /\ job' = [job EXCEPT ![c] = j] /\ pc' = [pc EXCEPT ![c] = p]
      /\ UNCHANGED <<dev, ro, vtbl, mutex, torn>>
  BY DEF RenameOpenNamed, hist
<1>3. JobRule(pc[c], job[c], desc[c]) /\ job[c] \in Jobs BY <1>0, Unchanged DEF HolderInv, JobInv
<1>4. /\ job[c].op = "rename" /\ job[c].todo \subseteq DOMAIN job[c].names /\ w \in Vols
      /\ \A u \in Vols : desc[c][u] = IF u \in Listed(job[c]) THEN "ex" ELSE None
  BY <1>1, <1>3 DEF JobRule, Owns
<1>5. drop \in SUBSET Vols BY <1>3, <1>4, JobTyped
<1>6. Exists(w) => desc[c][w] = None
  <2> SUFFICES ASSUME Exists(w) PROVE desc[c][w] = None
    OBVIOUS
  <2>1. vols[w].use["ex"] = 0 /\ vols[w] \in Volumes BY <1>0, <1>1, <1>4 DEF CanOpen, Exists, HolderTypes
  <2>2. UsesOf(w)[c] # "ex"
    <3> DEFINE U == UsesOf(w)
               S == Readers(w)
               r == vols[w]
    <3>1. U \in Uses /\ S \in SUBSET Clients /\ Counts(r, U, S) /\ r \in Volumes /\ r.use["ex"] = 0
      BY <1>0, <1>4, <2>1, UsesTyped DEF HolderInv, Counted
    <3> HIDE DEF U, S, r
    <3>2. \A d \in Clients : U[d] # "ex" BY <3>1, NobodyHolds DEF Modes
    <3> QED BY <3>2 DEF U
  <2>3. desc[c][w] # "ex" BY <2>2 DEF UsesOf
  <2> QED BY <1>4, <2>3
<1>7. /\ D \in [Vols -> Modes \cup {None}]
      /\ \A u \in Vols : D[u] = IF u = w /\ Exists(w) THEN "ex" ELSE desc[c][u]
  BY <1>0, <1>4 DEF HolderTypes, Modes
<1> HIDE DEF drop, D
<1>8. /\ j \in Jobs /\ j.op = "rename" /\ j.names = job[c].names /\ j.todo = job[c].todo /\ j.drop = drop
  BY <1>3, <1>4, <1>5 DEF Jobs
<1>9. p \in {"lock", "rnfind"} /\ (p = "lock" => job[c].todo = {}) OBVIOUS
<1> HIDE DEF p, j
<1>10. Listed(j) = Listed(job[c]) \cup (IF Exists(w) THEN {w} ELSE {}) BY <1>8 DEF Listed, drop
<1>11. Owns(D, Listed(j)) BY <1>4, <1>7, <1>10 DEF Owns
<1>12. JobRule(p, j, D) BY <1>4, <1>8, <1>9, <1>11 DEF JobRule, OneVolume
<1>13. /\ p \in Pcs /\ p # "show" /\ p # "idle" /\ ~HasMutex(p) /\ ~HasMutex(pc[c]) /\ pc[c] # "show"
       /\ \A u : ~RemoveOf(p, j, u) /\ ~RemoveOf(pc[c], job[c], u)
  BY <1>1, <1>9 DEF Pcs, HasMutex, RemoveOf
<1>14. dev = "on" BY <1>1, ClientOn
<1>15. ro' \in BOOLEAN /\ vtbl' \in Tables BY <1>0, <1>2 DEF HolderTypes
<1>16. CASE ~Exists(w)
  <2>1. D = desc[c] /\ vols' = vols /\ desc' = desc BY <1>2, <1>16 DEF D
  <2> QED BY <1>2, <1>8, <1>12, <1>13, <1>14, <1>15, <2>1, QuietStep
<1>17. CASE Exists(w)
  <2>1. D = [desc[c] EXCEPT ![w] = "ex"] BY <1>17 DEF D
  <2>2. vols' = Opened(w, "ex") /\ desc' = [desc EXCEPT ![c] = [desc[c] EXCEPT ![w] = "ex"]]
    BY <1>2, <1>17
  <2>4. Enters(c, w, "ex", p, j)
    BY <1>1, <1>2, <1>6, <1>8, <1>12, <1>13, <1>14, <1>17, <2>1, <2>2 DEF Enters
  <2> QED BY <1>4, <2>4, EnterStep DEF Modes
<1> QED BY <1>16, <1>17

-----------------------------------------------------------------------------
(*****************************************************************************)
(* Steps that change a volume that stays open.                               *)
(*****************************************************************************)

\* Process c changes volume v, and neither its users nor what it has open.
Holds1(c, v, q, p, j) ==
    /\ Replaced(vols', v, q) /\ vols' \in [Vols -> Volumes \cup {None}]
    /\ p \in Pcs /\ j \in Jobs /\ p # "show" /\ pc[c] # "show"
    /\ pc' = [pc EXCEPT ![c] = p] /\ job' = [job EXCEPT ![c] = j] /\ desc' = desc
    /\ IF HasMutex(p) THEN mutex' = c /\ mutex \in {c, None}
       ELSE mutex' = IF HasMutex(pc[c]) THEN None ELSE mutex
    /\ JobRule(p, j, desc[c])
    /\ MovesLife(c, p, j, desc[c])
    /\ DeviceOn /\ vtbl' \in Tables

\* A change of one volume that keeps all users preserves the holder invariant.
LEMMA HeldStep ==
    ASSUME HolderInv, NEW c \in Clients, NEW v, NEW q, NEW p, NEW j, Holds1(c, v, q, p, j)
    PROVE  HolderInv'
<1> USE DEF Holds1
<1>0. HolderTypes BY DEF HolderInv
<1> DEFINE D == desc[c]
           vs == vols'
<1>1. D \in [Vols -> Modes \cup {None}] /\ desc' = [desc EXCEPT ![c] = D] BY <1>0, Unchanged
<1>2. Moves(c, p, j, D) BY <1>1 DEF Moves
<1>3. \A w \in Vols : Counts(vs[w], UsesOf(w), Readers(w))
  <2>1. Replaced(vs, v, q) OBVIOUS
  <2> HIDE DEF vs, Holds1
  <2> QED BY <2>1, OneVolumeChanged
<1>4. \A w \in Vols : [UsesOf(w) EXCEPT ![c] = D[w]] = UsesOf(w) BY DEF UsesOf
<1>5. \A w \in Vols : Readers(w) \ {c} = Readers(w) BY DEF Readers
<1>6. MovesCounts(c, p, j, D)
  <2> SUFFICES ASSUME NEW w \in Vols
               PROVE  Counts(vols'[w], [UsesOf(w) EXCEPT ![c] = D[w]], Readers(w) \ {c})
    BY DEF MovesCounts
  <2> QED BY <1>3, <1>4, <1>5
<1>7. MovesLife(c, p, j, D) /\ DeviceOn /\ vtbl' \in Tables /\ vols' \in [Vols -> Volumes \cup {None}]
  OBVIOUS
<1> HIDE DEF Holds1, D
<1> QED BY <1>2, <1>6, <1>7, ClientStep

\* ubi_remove_volume() hides a volume of which nobody reads an attribute.
LEMMA LockRemoveHolds ==
    ASSUME HolderInv, NEW c \in Clients, LockRemove(c)
    PROVE  HolderInv'
<1>0. HolderTypes BY DEF HolderInv
<1> DEFINE j == job[c]
           v == j.vol
           p == "table"
           q == [vols[v] EXCEPT !.listed = FALSE]
<1>1. /\ pc[c] = "lock" /\ j.op = "remove" /\ mutex = None /\ vols[v].refs <= 1
      /\ vols' = [vols EXCEPT ![v] = q]
      /\ mutex' = c /\ vtbl' = [vtbl EXCEPT ![v] = empty_vtbl_record]
      /\ pc' = [pc EXCEPT ![c] = p]
      /\ UNCHANGED <<dev, ro, desc, job, torn>>
  <2>1. JobRule(pc[c], j, desc[c]) BY DEF HolderInv, JobInv
  <2>2. pc[c] = "lock" /\ j.op = "remove" BY DEF LockRemove
  <2>3. v \in Vols /\ desc[c][v] = "ex" BY <2>1, <2>2 DEF JobRule, OneVolume, Owns
  <2>4. vols[v].refs \in Nat BY <2>3, Exclusive DEF Volumes
  <2>5. ~(vols[v].refs > 1) BY DEF LockRemove, Refused
  <2>6. vols[v].refs <= 1 BY <2>4, <2>5
  <2> QED BY <2>6 DEF LockRemove, ChangeTable, hist
<1>2. JobRule(pc[c], j, desc[c]) /\ j \in Jobs BY <1>0, Unchanged DEF HolderInv, JobInv
<1>3. v \in Vols /\ desc[c][v] = "ex" BY <1>1, <1>2 DEF JobRule, OneVolume, Owns
<1>4. vols[v] \in Volumes /\ vols[v] # None /\ Readers(v) = {} BY <1>1, <1>3, Exclusive
<1>5. q \in Volumes /\ q.use = vols[v].use /\ q.refs = vols[v].refs /\ ~q.listed
  <2>1. q = [vols[v] EXCEPT !.listed = FALSE] OBVIOUS
  <2> HIDE DEF q, v
  <2> QED BY <1>4, <2>1, VolumeHidden
<1> HIDE DEF q
<1>6. vols' \in [Vols -> Volumes \cup {None}] /\ \A w \in Vols : vols'[w] = IF w = v THEN q ELSE vols[w]
  BY <1>0, <1>1, <1>3, <1>5 DEF HolderTypes
<1>7. Replaced(vols', v, q) BY <1>3, <1>4, <1>5, <1>6 DEF Replaced
<1>8. \A w : RemoveOf(p, j, w) <=> w = v BY <1>1 DEF RemoveOf
<1>9. \A w : ~RemoveOf(pc[c], job[c], w) BY <1>1 DEF RemoveOf
<1>10. HasMutex(p) /\ ~HasMutex(pc[c]) /\ p # "show" /\ p \in Pcs BY <1>1 DEF HasMutex, Pcs
<1>11. JobRule(p, j, desc[c]) BY <1>1, <1>2 DEF JobRule
<1>12. \A w \in torn : desc[c][w] = None BY <1>1 DEF HolderInv, LifeInv
<1>13. q # None BY <1>5, VolNone
<1>14. \A w \in Vols : vols[w] # None /\ ~vols[w].listed => FALSE
  BY <1>1, NotListed, VolNone
<1>15. MovesLife(c, p, j, desc[c])
  BY <1>1, <1>4, <1>5, <1>6, <1>8, <1>9, <1>10, <1>12, <1>13, <1>14 DEF MovesLife
<1>16. dev = "on" BY <1>1, ClientOn
<1>17. DeviceOn BY <1>0, <1>1, <1>16 DEF DeviceOn, HolderTypes
<1>18. vtbl' \in Tables BY <1>0, <1>1, <1>3, EmptyTyped, TableWith DEF HolderTypes
<1>19. job' = [job EXCEPT ![c] = j] BY <1>0, <1>1, Unchanged
<1>20. Holds1(c, v, q, p, j)
  BY <1>1, <1>2, <1>6, <1>7, <1>10, <1>11, <1>15, <1>17, <1>18, <1>19 DEF Holds1
<1> HIDE DEF p, j
<1> QED BY <1>20, HeldStep

\* The end of set_update_marker().
LEMMA MarkEndHolds ==
    ASSUME HolderInv, NEW c \in Clients, MarkEnd(c)
    PROVE  HolderInv'
<1>0. HolderTypes BY DEF HolderInv
<1> DEFINE j == job[c]
           v == j.vol
           p == "wipe"
           q == [vols[v] EXCEPT !.mark = TRUE]
<1>1. /\ pc[c] = "apply" /\ j.op = "mark" /\ mutex' = None
      /\ vols' = [vols EXCEPT ![v] = q]
      /\ pc' = [pc EXCEPT ![c] = p]
      /\ UNCHANGED <<dev, ro, vtbl, desc, job, torn>>
  BY DEF MarkEnd, Unlock, hist
<1>2. JobRule(pc[c], j, desc[c]) /\ j \in Jobs BY <1>0, Unchanged DEF HolderInv, JobInv
<1>3. v \in Vols /\ desc[c][v] = "ex" /\ Owns(desc[c], {v}) BY <1>1, <1>2 DEF JobRule, OneVolume, Owns
<1>4. vols[v] \in Volumes /\ vols[v] # None BY <1>3, Exclusive
<1>5. q \in Volumes /\ q.use = vols[v].use /\ q.refs = vols[v].refs /\ q.listed = vols[v].listed
  <2> DEFINE b == TRUE
  <2>1. b \in BOOLEAN /\ q = [vols[v] EXCEPT !.mark = b] OBVIOUS
  <2> HIDE DEF q, v, b
  <2> QED BY <1>4, <2>1, VolumeMark
<1> HIDE DEF q
<1>6. vols' \in [Vols -> Volumes \cup {None}] /\ \A w \in Vols : vols'[w] = IF w = v THEN q ELSE vols[w]
  BY <1>0, <1>1, <1>3, <1>5 DEF HolderTypes
<1>7. Replaced(vols', v, q) BY <1>3, <1>4, <1>5, <1>6 DEF Replaced
<1>8. \A w : ~RemoveOf(p, j, w) BY <1>1 DEF RemoveOf
<1>9. \A w : ~RemoveOf(pc[c], job[c], w) BY <1>1 DEF RemoveOf
<1>10. ~HasMutex(p) /\ HasMutex(pc[c]) /\ p # "show" /\ p \in Pcs BY <1>1 DEF HasMutex, Pcs
<1>11. JobRule(p, j, desc[c]) BY <1>1, <1>2, <1>3 DEF JobRule
<1>12. \A w \in torn : desc[c][w] = None BY <1>1 DEF HolderInv, LifeInv
<1>13. q # None BY <1>5, VolNone
<1>14. \A w \in Vols : /\ vols'[w] = None <=> vols[w] = None
                       /\ vols[w] # None => vols'[w].listed = vols[w].listed
  BY <1>4, <1>5, <1>6, <1>13
<1>15. MovesLife(c, p, j, desc[c])
  BY <1>1, <1>8, <1>9, <1>10, <1>12, <1>14 DEF MovesLife
<1>16. dev = "on" BY <1>1, ClientOn
<1>17. DeviceOn BY <1>0, <1>1, <1>16 DEF DeviceOn, HolderTypes
<1>18. vtbl' \in Tables BY <1>0, <1>1 DEF HolderTypes
<1>19. job' = [job EXCEPT ![c] = j] BY <1>0, <1>1, Unchanged
<1>20. Holds1(c, v, q, p, j)
  BY <1>1, <1>2, <1>6, <1>7, <1>10, <1>11, <1>15, <1>17, <1>18, <1>19 DEF Holds1
<1> HIDE DEF p, j
<1> QED BY <1>20, HeldStep

\* Process c leaves volume v in state q with the volumes open in the modes D.
Touches(c, v, q, p, j, D) ==
    /\ v \in Vols /\ vols[v] \in Volumes /\ q \in Volumes /\ q.listed = vols[v].listed
    /\ vols' = [vols EXCEPT ![v] = q]
    /\ p \in Pcs /\ j \in Jobs /\ D \in [Vols -> Modes \cup {None}]
    /\ \A w \in Vols : w # v => D[w] = desc[c][w]
    /\ pc' = [pc EXCEPT ![c] = p] /\ job' = [job EXCEPT ![c] = j] /\ desc' = [desc EXCEPT ![c] = D]
    /\ ~HasMutex(p) /\ mutex' = IF HasMutex(pc[c]) THEN None ELSE mutex
    /\ JobRule(p, j, D)
    /\ p = "show" => j.vol = v /\ vols[v].listed
    /\ pc[c] = "show" => job[c].vol = v
    /\ Counts(q, [UsesOf(v) EXCEPT ![c] = D[v]], IF p = "show" THEN Readers(v) \cup {c} ELSE Readers(v) \ {c})
    /\ \A w : ~RemoveOf(pc[c], job[c], w)
    /\ \A w \in torn : D[w] # None => p # "idle" /\ j.op = "rename"
    /\ dev = "on" /\ UNCHANGED <<dev, ro, vtbl, torn>>

\* A step that changes the users of one volume only.
LEMMA TouchStep ==
    ASSUME HolderInv, NEW c \in Clients, NEW v, NEW q, NEW p, NEW j, NEW D,
           Touches(c, v, q, p, j, D)
    PROVE  HolderInv'
<1> USE DEF Touches
<1>0. HolderTypes BY DEF HolderInv
<1>1. vols' \in [Vols -> Volumes \cup {None}] /\ \A w \in Vols : vols'[w] = IF w = v THEN q ELSE vols[w]
  BY <1>0 DEF HolderTypes
<1>2. Moves(c, p, j, D) BY DEF Moves
<1>3. MovesCounts(c, p, j, D)
  <2> SUFFICES ASSUME NEW w \in Vols
               PROVE  Counts(vols'[w], [UsesOf(w) EXCEPT ![c] = D[w]],
                             IF p = "show" /\ j.vol = w THEN Readers(w) \cup {c} ELSE Readers(w) \ {c})
    BY DEF MovesCounts
  <2>1. CASE w = v
    <3>1. vols'[w] = q BY <1>1, <2>1
    <3>2. Counts(q, [UsesOf(v) EXCEPT ![c] = D[v]], IF p = "show" THEN Readers(v) \cup {c} ELSE Readers(v) \ {c})
      OBVIOUS
    <3>3. p = "show" => j.vol = w BY <2>1
    <3> HIDE DEF Touches
    <3> QED BY <2>1, <3>1, <3>2, <3>3
  <2>2. CASE w # v
    <3>1. Counts(vols[w], UsesOf(w), Readers(w)) BY DEF HolderInv, Counted
    <3>2. [UsesOf(w) EXCEPT ![c] = D[w]] = UsesOf(w) BY <2>2 DEF UsesOf
    <3>3. Readers(w) \ {c} = Readers(w) BY <2>2 DEF Readers
    <3>4. ~(p = "show" /\ j.vol = w) BY <2>2
    <3>5. vols'[w] = vols[w] BY <1>1, <2>2
    <3> HIDE DEF Touches
    <3> QED BY <3>1, <3>2, <3>3, <3>4, <3>5
  <2> QED BY <2>1, <2>2
<1>4. \A w : ~RemoveOf(p, j, w) BY DEF RemoveOf, HasMutex
<1>5. \A w \in Vols : /\ vols'[w] = None <=> vols[w] = None
                      /\ vols[w] # None => vols'[w].listed = vols[w].listed
  BY <1>1, VolNone
<1>6. vols[v] # None BY VolNone
<1>7. MovesLife(c, p, j, D) BY <1>4, <1>5, <1>6 DEF MovesLife
<1>8. DeviceOn /\ vtbl' \in Tables BY <1>0 DEF DeviceOn, HolderTypes
<1> HIDE DEF Touches
<1> QED BY <1>1, <1>2, <1>3, <1>7, <1>8, ClientStep

\* vol_attribute_show() takes a reference.
LEMMA ShowStartHolds ==
    ASSUME HolderInv, NEW c \in Clients, NEW v \in Vols, ShowStart(c, v)
    PROVE  HolderInv'
<1>0. HolderTypes BY DEF HolderInv
<1> DEFINE p == "show"
           j == [job[c] EXCEPT !.vol = v]
           q == [vols[v] EXCEPT !.refs = vols[v].refs + 1]
           D == desc[c]
<1>1. Idle(c) /\ Exists(v) /\ vols' = [vols EXCEPT ![v] = q]
      /\ pc' = [pc EXCEPT ![c] = p] /\ job' = [job EXCEPT ![c] = j]
      /\ UNCHANGED <<dev, ro, vtbl, mutex, desc, torn>>
  BY DEF ShowStart, hist
<1>2. /\ dev = "on" /\ pc[c] = "idle" /\ \A w \in Vols : desc[c][w] = None /\ Owns(desc[c], {})
      /\ torn = {} /\ ~HasMutex(pc[c]) /\ \A w : ~RemoveOf(pc[c], job[c], w)
  BY <1>1, IdleIs
<1>3. vols[v] \in Volumes /\ vols[v].listed BY <1>0, <1>1, Unchanged DEF Exists
<1>4. q \in Volumes /\ q.use = vols[v].use /\ q.refs = vols[v].refs + 1 /\ q.listed = vols[v].listed
  <2>1. vols[v].refs + 1 \in Nat BY <1>3 DEF Volumes
  <2> QED BY <1>3, <2>1 DEF Volumes
<1>5. j \in Jobs /\ j.vol = v
  <2> job[c] \in Jobs BY <1>0, Unchanged
  <2> QED BY DEF Jobs
<1>6. D \in [Vols -> Modes \cup {None}] /\ desc' = [desc EXCEPT ![c] = D] BY <1>0, <1>1, Unchanged
<1>7. [UsesOf(v) EXCEPT ![c] = D[v]] = UsesOf(v) BY DEF UsesOf
<1>8. UsesOf(v) \in Uses /\ Readers(v) \in SUBSET Clients /\ c \notin Readers(v)
      /\ Counts(vols[v], UsesOf(v), Readers(v))
  BY <1>0, <1>2, UsesTyped DEF HolderInv, Counted, Readers
<1> HIDE DEF q, j
<1>9. Counts(q, UsesOf(v), Readers(v) \cup {c}) BY <1>3, <1>4, <1>8, CountsShow
<1>10. JobRule(p, j, D) BY <1>2, <1>5 DEF JobRule
<1>11. p \in Pcs /\ ~HasMutex(p) BY DEF Pcs, HasMutex
<1>12. \A w \in Vols : w # v => D[w] = desc[c][w] OBVIOUS
<1>13. Counts(q, [UsesOf(v) EXCEPT ![c] = D[v]], IF p = "show" THEN Readers(v) \cup {c} ELSE Readers(v) \ {c})
  BY <1>7, <1>9
<1>14. p = "show" => j.vol = v /\ vols[v].listed BY <1>3, <1>5
<1>15. pc[c] # "show" BY <1>2
<1> HIDE DEF p, D
<1>16. Touches(c, v, q, p, j, D)
  BY <1>1, <1>2, <1>3, <1>4, <1>5, <1>6, <1>10, <1>11, <1>12, <1>13, <1>14, <1>15 DEF Touches
<1> QED BY <1>16, TouchStep

\* vol_attribute_show() gives it back.
LEMMA ShowEndHolds ==
    ASSUME HolderInv, NEW c \in Clients, ShowEnd(c)
    PROVE  HolderInv'
<1>0. HolderTypes BY DEF HolderInv
<1> DEFINE p == "idle"
           j == NoJob
           v == job[c].vol
           q == [vols[v] EXCEPT !.refs = vols[v].refs - 1]
           D == desc[c]
<1>1. pc[c] = "show" /\ vols' = [vols EXCEPT ![v] = q]
      /\ pc' = [pc EXCEPT ![c] = p] /\ job' = [job EXCEPT ![c] = j]
      /\ UNCHANGED <<dev, ro, vtbl, mutex, desc, torn>>
  BY DEF ShowEnd, hist
<1>2. v \in Vols /\ Owns(D, {}) BY <1>1 DEF HolderInv, JobInv, JobRule
<1>3. UsesOf(v) \in Uses /\ Readers(v) \in SUBSET Clients /\ c \in Readers(v)
      /\ Counts(vols[v], UsesOf(v), Readers(v))
  BY <1>0, <1>1, <1>2, UsesTyped DEF HolderInv, Counted, Readers
<1>4. vols[v] # None BY <1>3 DEF Counts
<1>5. vols[v] \in Volumes BY <1>0, <1>2, <1>4, Unchanged
<1>6. vols[v].refs \in Nat /\ vols[v].refs > 0
  <2>1. vols[v].refs = Cardinality(Anyone(UsesOf(v))) + Cardinality(Readers(v)) BY <1>3, <1>4 DEF Counts
  <2>2. Cardinality(Anyone(UsesOf(v))) \in Nat /\ Cardinality(Readers(v)) \in Nat /\ Cardinality(Readers(v)) # 0
    BY <1>3, ClientSets, HoldingSubset
  <2> QED BY <2>1, <2>2
<1>7. q \in Volumes /\ q.use = vols[v].use /\ q.refs = vols[v].refs - 1 /\ q.listed = vols[v].listed
  BY <1>5, <1>6 DEF Volumes
<1>8. j \in Jobs BY NoJobTyped
<1>9. D \in [Vols -> Modes \cup {None}] /\ desc' = [desc EXCEPT ![c] = D] BY <1>0, <1>1, Unchanged
<1>10. [UsesOf(v) EXCEPT ![c] = D[v]] = UsesOf(v) BY DEF UsesOf
<1> HIDE DEF q, j
<1>11. Counts(q, UsesOf(v), Readers(v) \ {c}) BY <1>3, <1>5, <1>7, CountsShow
<1>12. \A w \in Vols : D[w] = None BY <1>2 DEF Owns
<1>13. JobRule(p, j, D) BY <1>12 DEF JobRule
<1>14. p \in Pcs /\ ~HasMutex(p) /\ ~HasMutex(pc[c]) BY <1>1 DEF Pcs, HasMutex
<1>15. \A w \in Vols : w # v => D[w] = desc[c][w] OBVIOUS
<1>16. Counts(q, [UsesOf(v) EXCEPT ![c] = D[v]], IF p = "show" THEN Readers(v) \cup {c} ELSE Readers(v) \ {c})
  BY <1>10, <1>11
<1>17. p # "show" /\ job[c].vol = v OBVIOUS
<1>18. \A w : ~RemoveOf(pc[c], job[c], w) BY <1>1 DEF RemoveOf
<1>19. \A w \in torn : D[w] # None => p # "idle" /\ j.op = "rename" BY <1>0, <1>12 DEF HolderTypes
<1>20. dev = "on" BY <1>1, ClientOn
<1> HIDE DEF p, D
<1>21. Touches(c, v, q, p, j, D)
  BY <1>1, <1>2, <1>5, <1>7, <1>8, <1>9, <1>13, <1>14, <1>15, <1>16, <1>17, <1>18, <1>19, <1>20 DEF Touches
<1> HIDE DEF v
<1> QED BY <1>21, TouchStep

\* One user in one mode.
LEMMA OnlyIs == ASSUME NEW m \in Modes PROVE Only(m) \in [Modes -> Nat]
BY DEF Only, Unused

\* A volume with other users that is being updated.
LEMMA VolumeUse ==
    ASSUME NEW r \in Volumes, NEW u \in [Modes -> Nat], NEW q,
           q = [r EXCEPT !.use = u, !.updating = TRUE]
    PROVE  /\ q \in Volumes /\ q.use = u /\ q.refs = r.refs /\ q.listed = r.listed
           /\ RecordOf(q) = RecordOf(r)
<1>1. /\ q \in Volumes /\ q.use = u /\ q.refs = r.refs /\ q.listed = r.listed
      /\ q.size = r.size /\ q.name = r.name /\ q.mark = r.mark
  BY DEF Volumes
<1>2. /\ RecordOf(q) = [size |-> r.size, name |-> r.name, mark |-> r.mark]
      /\ RecordOf(r) = [size |-> r.size, name |-> r.name, mark |-> r.mark]
  BY <1>1, VolNone DEF RecordOf
<1> QED BY <1>1, <1>2

Cleared(r, u, b) == [r EXCEPT !.mark = b, !.updating = b, !.use = u]

\* A volume whose update has ended.
LEMMA VolumeUpdated ==
    ASSUME NEW r \in Volumes, NEW u \in [Modes -> Nat], NEW b \in BOOLEAN, NEW q,
           q = Cleared(r, u, b)
    PROVE  /\ q \in Volumes /\ q.use = u /\ q.refs = r.refs /\ q.listed = r.listed
           /\ RecordOf(q) = [RecordOf(r) EXCEPT !.mark = b]
<1>1. /\ q \in Volumes /\ q.use = u /\ q.refs = r.refs /\ q.listed = r.listed
      /\ q.size = r.size /\ q.name = r.name /\ q.mark = b
  BY DEF Volumes, Cleared
<1>2. /\ RecordOf(q) = [size |-> r.size, name |-> r.name, mark |-> b]
      /\ RecordOf(r) = [size |-> r.size, name |-> r.name, mark |-> r.mark]
  BY <1>1, VolNone DEF RecordOf
<1> QED BY <1>1, <1>2

\* A volume that is no longer being updated.
LEMMA VolumeQuiet ==
    ASSUME NEW r \in Volumes, NEW q, q = [r EXCEPT !.updating = FALSE]
    PROVE  /\ q \in Volumes /\ q.use = r.use /\ q.refs = r.refs /\ q.listed = r.listed
           /\ SameVolume(r, q)
BY DEF Volumes, SameVolume

\* get_exclusive(): the only writer is alone when there is no other user.
LEMMA WriterAlone ==
    ASSUME NEW r \in Volumes, NEW D \in Uses, NEW S \in SUBSET Clients, Counts(r, D, S),
           NEW c \in Clients, D[c] = "rw", r.use["ro"] = 0, r.use["ex"] = 0
    PROVE  Anyone(D) = {c}
<1>1. \A d \in Clients : D[d] # "ro" /\ D[d] # "ex" BY NobodyHolds DEF Modes
<1>2. \A d \in Clients : D[d] = "rw" => d = c BY DEF Counts, Alone
<1>3. \A d \in Clients : D[d] \in {"ro", "rw", "ex", None} BY DEF Uses, Modes
<1> QED BY <1>1, <1>2, <1>3, VolNone DEF Anyone, Modes

\* get_exclusive(): the only writer becomes the exclusive owner.
LEMMA UpdateStartHolds ==
    ASSUME HolderInv, NEW c \in Clients, NEW v \in Vols, UpdateStart(c, v)
    PROVE  HolderInv'
<1>0. HolderTypes BY DEF HolderInv
<1> DEFINE p == IF vols[v].mark THEN "wipe" ELSE "lock"
           j == [NoJob EXCEPT !.op = "mark", !.vol = v, !.rec = Marked(v, TRUE)]
           q == [vols[v] EXCEPT !.use = Only("ex"), !.updating = TRUE]
           D == [desc[c] EXCEPT ![v] = "ex"]
<1>1. pc[c] = "idle" /\ desc[c][v] = "rw" /\ vols[v].use["ro"] = 0 /\ vols[v].use["ex"] = 0
      /\ vols' = [vols EXCEPT ![v] = q] /\ desc' = [desc EXCEPT ![c] = D]
      /\ pc' = [pc EXCEPT ![c] = p] /\ job' = [job EXCEPT ![c] = j]
      /\ UNCHANGED <<dev, ro, vtbl, mutex, torn>>
  BY DEF UpdateStart, hist, Holds
<1>2. UsesOf(v) \in Uses /\ Readers(v) \in SUBSET Clients /\ Counts(vols[v], UsesOf(v), Readers(v))
  BY <1>0, UsesTyped DEF HolderInv, Counted
<1>3. UsesOf(v)[c] = "rw" BY <1>1 DEF UsesOf
<1>4. vols[v] # None BY <1>2, <1>3, VolNone DEF Counts, Anyone, Modes
<1>5. vols[v] \in Volumes BY <1>0, <1>4, Unchanged
<1>6. "ex" \in Modes /\ Only("ex") \in [Modes -> Nat] BY OnlyIs DEF Modes
<1>7. q \in Volumes /\ q.use = Only("ex") /\ q.refs = vols[v].refs /\ q.listed = vols[v].listed
  <2> DEFINE u == Only("ex")
             r == vols[v]
  <2>1. u \in [Modes -> Nat] /\ r \in Volumes /\ q = [r EXCEPT !.use = u, !.updating = TRUE]
    BY <1>5, <1>6
  <2> HIDE DEF q, u, r
  <2>2. q \in Volumes /\ q.use = u /\ q.refs = r.refs /\ q.listed = r.listed BY <2>1, VolumeUse
  <2> QED BY <2>2 DEF u, r
<1>8. Marked(v, TRUE) \in Records BY <1>0, MarkedTyped DEF HolderTypes
<1> DEFINE rec == Marked(v, TRUE)
<1> HIDE DEF q, rec
<1>9. j.op = "mark" /\ j.vol = v /\ j.rec = Marked(v, TRUE)
  <2>1. j = [NoJob EXCEPT !.op = "mark", !.vol = v, !.rec = rec] BY DEF rec
  <2> HIDE DEF j
  <2>2. j.op = "mark" /\ j.vol = v /\ j.rec = rec BY <2>1 DEF NoJob
  <2> QED BY <2>2 DEF rec
<1>10. j \in Jobs
  <2>1. j = [NoJob EXCEPT !.op = "mark", !.vol = v, !.rec = rec] BY DEF rec
  <2>2. rec \in Records BY <1>8 DEF rec
  <2> HIDE DEF j
  <2> QED BY <2>1, <2>2, NoJobTyped DEF Jobs
<1>11. D \in [Vols -> Modes \cup {None}] /\ D[v] = "ex" /\ \A w \in Vols : w # v => D[w] = desc[c][w]
  BY <1>0, <1>6 DEF HolderTypes
<1>12. \A w \in Vols : w # v => desc[c][w] = None
  BY <1>1, VolNone DEF HolderInv, JobInv, JobRule, Modes
<1>13. Owns(D, {v}) BY <1>11, <1>12 DEF Owns
<1> HIDE DEF j, D
<1>14. JobRule(p, j, D) BY <1>8, <1>9, <1>13 DEF JobRule, OneVolume
<1>15. p \in Pcs /\ ~HasMutex(p) /\ p # "show" /\ ~HasMutex(pc[c]) BY <1>1 DEF Pcs, HasMutex
<1>16. \A w : ~RemoveOf(pc[c], job[c], w) BY <1>1 DEF RemoveOf
<1>17. \A w \in torn : D[w] # None => p # "idle" /\ j.op = "rename"
  <2>1. v \notin torn BY <1>1, VolNone DEF HolderInv, LifeInv, Modes
  <2> QED BY <1>0, <2>1, <1>11, <1>12 DEF HolderTypes
<1>18. dev = "on"
  <2>1. desc[c] # Closed BY <1>1, ClosedOwns, VolNone DEF Modes
  <2> QED BY <2>1, ClientOn
<1>19. Anyone(UsesOf(v)) = {c}
  <2> DEFINE U == UsesOf(v)
             S == Readers(v)
             r == vols[v]
  <2>1. r \in Volumes /\ U \in Uses /\ S \in SUBSET Clients /\ Counts(r, U, S) /\ U[c] = "rw"
        /\ r.use["ro"] = 0 /\ r.use["ex"] = 0
    BY <1>1, <1>2, <1>3, <1>5
  <2> HIDE DEF U, S, r
  <2>2. Anyone(U) = {c} BY <2>1, WriterAlone
  <2> QED BY <2>2 DEF U
<1>20. Counts(q, [UsesOf(v) EXCEPT ![c] = D[v]], Readers(v))
  BY <1>2, <1>5, <1>6, <1>7, <1>11, <1>19, CountsSwap
<1>21. Readers(v) \ {c} = Readers(v) BY <1>1 DEF Readers
<1>22. pc[c] # "show" BY <1>1
<1> HIDE DEF p
<1>23. Counts(q, [UsesOf(v) EXCEPT ![c] = D[v]], IF p = "show" THEN Readers(v) \cup {c} ELSE Readers(v) \ {c})
  BY <1>15, <1>20, <1>21
<1>24. Touches(c, v, q, p, j, D)
  BY <1>1, <1>5, <1>7, <1>10, <1>11, <1>14, <1>15, <1>16, <1>17, <1>18, <1>22, <1>23 DEF Touches
<1> QED BY <1>24, TouchStep

\* revoke_exclusive(): the exclusive owner becomes a writer.
LEMMA ClearEndHolds ==
    ASSUME HolderInv, NEW c \in Clients, ClearEnd(c)
    PROVE  HolderInv'
<1>0. HolderTypes BY DEF HolderInv
<1> DEFINE p == "idle"
           j == NoJob
           v == job[c].vol
           q == [vols[v] EXCEPT !.mark = FALSE, !.updating = FALSE, !.use = Only("rw")]
           D == [desc[c] EXCEPT ![v] = "rw"]
<1>1. pc[c] = "apply" /\ job[c].op = "clear" /\ mutex' = None
      /\ vols' = [vols EXCEPT ![v] = q] /\ desc' = [desc EXCEPT ![c] = D]
      /\ pc' = [pc EXCEPT ![c] = p] /\ job' = [job EXCEPT ![c] = j]
      /\ UNCHANGED <<dev, ro, vtbl, torn>>
  BY DEF ClearEnd, hist, Unlock
<1>2. v \in Vols /\ Owns(desc[c], {v}) BY <1>1 DEF HolderInv, JobInv, JobRule, OneVolume
<1>3. desc[c][v] = "ex" /\ \A w \in Vols : w # v => desc[c][w] = None BY <1>2 DEF Owns
<1>4. vols[v] \in Volumes /\ Anyone(UsesOf(v)) = {c} BY <1>2, <1>3, Exclusive
<1>5. UsesOf(v) \in Uses /\ Readers(v) \in SUBSET Clients /\ Counts(vols[v], UsesOf(v), Readers(v))
  BY <1>0, <1>2, UsesTyped DEF HolderInv, Counted
<1>6. "rw" \in Modes /\ Only("rw") \in [Modes -> Nat] BY OnlyIs DEF Modes
<1>7. q \in Volumes /\ q.use = Only("rw") /\ q.refs = vols[v].refs /\ q.listed = vols[v].listed
  <2> DEFINE u == Only("rw")
             r == vols[v]
             b == FALSE
  <2>1. /\ u \in [Modes -> Nat] /\ r \in Volumes /\ b \in BOOLEAN
        /\ q = Cleared(r, u, b)
    BY <1>4, <1>6 DEF Cleared
  <2> HIDE DEF q, u, r, b
  <2>2. q \in Volumes /\ q.use = u /\ q.refs = r.refs /\ q.listed = r.listed BY <2>1, VolumeUpdated
  <2> QED BY <2>2 DEF u, r
<1> HIDE DEF q
<1>8. j \in Jobs BY NoJobTyped
<1>9. D \in [Vols -> Modes \cup {None}] /\ D[v] = "rw" /\ \A w \in Vols : w # v => D[w] = desc[c][w]
  BY <1>0, <1>2, <1>6 DEF HolderTypes
<1> HIDE DEF D, v
<1>10. JobRule(p, j, D)
  <2>1. \A w \in Vols : w # v => D[w] = None BY <1>3, <1>9
  <2> QED BY <2>1 DEF JobRule
<1>11. p \in Pcs /\ ~HasMutex(p) /\ HasMutex(pc[c]) BY <1>1 DEF Pcs, HasMutex
<1>12. \A w : ~RemoveOf(pc[c], job[c], w) BY <1>1 DEF RemoveOf
<1>13. \A w \in torn : D[w] # None => p # "idle" /\ j.op = "rename"
  <2>1. \A w \in torn : w \in Vols /\ (desc[c][w] # None => job[c].op = "rename")
    BY <1>0 DEF HolderInv, LifeInv, HolderTypes
  <2>2. v \notin torn BY <1>1, <1>3, <2>1, VolNone DEF Modes
  <2> QED BY <1>3, <1>9, <2>1, <2>2
<1>14. dev = "on" BY <1>1, ClientOn
<1>15. Counts(q, [UsesOf(v) EXCEPT ![c] = D[v]], Readers(v))
  BY <1>4, <1>5, <1>6, <1>7, <1>9, CountsSwap
<1>16. Readers(v) \ {c} = Readers(v) BY <1>1 DEF Readers
<1>17. pc[c] # "show" /\ p # "show" BY <1>1
<1> HIDE DEF p, j
<1>18. Counts(q, [UsesOf(v) EXCEPT ![c] = D[v]], IF p = "show" THEN Readers(v) \cup {c} ELSE Readers(v) \ {c})
  BY <1>15, <1>16, <1>17
<1>19. Touches(c, v, q, p, j, D)
  BY <1>1, <1>2, <1>4, <1>7, <1>8, <1>9, <1>10, <1>11, <1>12, <1>13, <1>14, <1>17, <1>18 DEF Touches
<1> QED BY <1>19, TouchStep

\* vol_cdev_release(), also in the middle of an update.
LEMMA CloseHolds ==
    ASSUME HolderInv, NEW c \in Clients, Close(c)
    PROVE  HolderInv'
<1>0. HolderTypes BY DEF HolderInv
<1> DEFINE p == "idle"
           j == NoJob
           D == Closed
           vs == ClosedBy(vols, c)
<1>1. pc[c] \in {"idle", "write"} /\ desc[c] # Closed
      /\ vols' = [v \in Vols |-> IF desc[c][v] = None THEN vs[v] ELSE [vs[v] EXCEPT !.updating = FALSE]]
      /\ pc' = [pc EXCEPT ![c] = p] /\ job' = [job EXCEPT ![c] = j] /\ desc' = [desc EXCEPT ![c] = D]
      /\ UNCHANGED <<dev, ro, vtbl, mutex, torn>>
  BY DEF Close, hist
<1>2. \A v \in Vols : /\ UsesOf(v) \in Uses /\ Readers(v) \in SUBSET Clients
                      /\ Counts(vols[v], UsesOf(v), Readers(v))
  BY <1>0, UsesTyped DEF HolderInv, Counted
<1>3. \A v \in Vols : vols[v] = None =>
        /\ Anyone([UsesOf(v) EXCEPT ![c] = None]) = {} /\ Readers(v) = {} /\ desc[c][v] = None
  <2> SUFFICES ASSUME NEW v \in Vols, vols[v] = None
               PROVE  Anyone([UsesOf(v) EXCEPT ![c] = None]) = {} /\ Readers(v) = {} /\ desc[c][v] = None
    OBVIOUS
  <2>1. Anyone(UsesOf(v)) = {} /\ Readers(v) = {} BY <1>2 DEF Counts
  <2>2. Anyone([UsesOf(v) EXCEPT ![c] = None]) = {} BY <1>2, <2>1 DEF Anyone, Uses
  <2> QED BY <2>1, <2>2 DEF Anyone, UsesOf
<1>4. vols \in [Vols -> Volumes \cup {None}] BY <1>0 DEF HolderTypes
<1>5. \A v \in Vols :
        /\ vs[v] \in Volumes \cup {None}
        /\ vs[v] = None <=> vols[v] = None
        /\ vols[v] # None => vs[v].listed = vols[v].listed
        /\ Counts(vs[v], [UsesOf(v) EXCEPT ![c] = None], Readers(v))
  BY <1>0, <1>2, <1>3, <1>4, ClosedByIs DEF SameVolume
<1> HIDE DEF vs
<1>6. \A v \in Vols :
        /\ vols'[v] \in Volumes \cup {None}
        /\ vols'[v] = None <=> vols[v] = None
        /\ vols[v] # None => vols'[v].listed = vols[v].listed
        /\ Counts(vols'[v], [UsesOf(v) EXCEPT ![c] = None], Readers(v))
  <2> SUFFICES ASSUME NEW v \in Vols
               PROVE  /\ vols'[v] \in Volumes \cup {None}
                      /\ vols'[v] = None <=> vols[v] = None
                      /\ vols[v] # None => vols'[v].listed = vols[v].listed
                      /\ Counts(vols'[v], [UsesOf(v) EXCEPT ![c] = None], Readers(v))
    OBVIOUS
  <2>1. CASE desc[c][v] = None
    <3>1. vols'[v] = vs[v] BY <1>1, <2>1
    <3> QED BY <1>5, <3>1
  <2>2. CASE desc[c][v] # None
    <3> DEFINE q == vols'[v]
               r == vs[v]
               E == [UsesOf(v) EXCEPT ![c] = None]
    <3>1. q = [r EXCEPT !.updating = FALSE] BY <1>1, <2>2
    <3>2. vols[v] # None BY <1>3, <2>2
    <3>3. r \in Volumes BY <1>5, <3>2
    <3> HIDE DEF q, r
    <3>4. q \in Volumes /\ q.use = r.use /\ q.refs = r.refs /\ q.listed = r.listed BY <3>1, <3>3, VolumeQuiet
    <3>5. E \in Uses /\ Counts(r, E, Readers(v))
      BY <1>2, <1>5 DEF Uses, r
    <3> HIDE DEF E
    <3>6. Counts(q, E, Readers(v)) BY <1>2, <3>3, <3>4, <3>5, CountsOther
    <3> QED BY <1>5, <3>2, <3>4, <3>6, VolNone DEF q, r, E
  <2> QED BY <2>1, <2>2
<1>7. vols' \in [Vols -> Volumes \cup {None}] BY <1>1, <1>6
<1>8. p \in Pcs /\ j \in Jobs /\ D \in [Vols -> Modes \cup {None}] BY NoJobTyped, ClosedOwns DEF Pcs
<1>9. JobRule(p, j, D) BY NoJobTyped, ClosedOwns DEF JobRule
<1>10. ~HasMutex(p) /\ ~HasMutex(pc[c]) /\ p # "show" BY <1>1 DEF HasMutex
<1>11. \A v : ~RemoveOf(p, j, v) /\ ~RemoveOf(pc[c], job[c], v) BY <1>1 DEF RemoveOf
<1>12. \A v \in Vols : D[v] = None BY ClosedOwns
<1> HIDE DEF p, j, D
<1>13. Moves(c, p, j, D) BY <1>1, <1>8, <1>9, <1>10 DEF Moves
<1>14. \A v \in Vols : Readers(v) \ {c} = Readers(v) BY <1>1 DEF Readers
<1>15. MovesCounts(c, p, j, D) BY <1>6, <1>10, <1>12, <1>14 DEF MovesCounts
<1>16. \A v \in torn : D[v] # None => p # "idle" /\ j.op = "rename" BY <1>0, <1>12 DEF HolderTypes
<1>17. MovesLife(c, p, j, D) BY <1>1, <1>6, <1>10, <1>11, <1>16 DEF MovesLife
<1>18. dev = "on" BY <1>1, ClientOn
<1>19. DeviceOn /\ vtbl' \in Tables BY <1>0, <1>1, <1>18 DEF DeviceOn, HolderTypes
<1> QED BY <1>7, <1>13, <1>15, <1>17, <1>19, ClientStep

-----------------------------------------------------------------------------
(*****************************************************************************)
(* Power cuts, and the types of the flash.                                   *)
(*****************************************************************************)

FlashTypes ==
    /\ lay \in [0 .. 1 -> Tables \cup {None}] /\ layPend \in [0 .. 1 -> Tables \cup {None}]
    /\ eba \in [Vols -> [Lebs -> Contents \cup {None}]]
    /\ pend \in [Vols -> [Lebs -> Contents \cup {None}]]
    /\ done \in Tables /\ stage \in 0 .. 3

\* What an attach reads from the layout volume is a table, or nothing.
LEMMA AttachTyped ==
    ASSUME FlashTypes, NEW ls
    PROVE  AttachTable(ls) \in Tables \cup {None}
BY DEF FlashTypes, AttachTable

\* Everybody is idle and has nothing open.
Rested ==
    /\ mutex = None /\ torn = {}
    /\ pc = [c \in Clients |-> "idle"] /\ job = [c \in Clients |-> NoJob]
    /\ desc = [c \in Clients |-> Closed]

Attached ==
    /\ Rested /\ dev \in {"on", "refused"} /\ ro \in BOOLEAN /\ vtbl \in Tables
    /\ dev = "refused" => vols = Closed
    /\ vols \in [Vols -> Volumes \cup {None}]
    /\ \A v \in Vols : vols[v] # None => vols[v].use = Unused /\ vols[v].refs = 0 /\ vols[v].listed

\* After an attach nobody has anything open.
LEMMA RestedHolds == Attached => HolderInv
<1> SUFFICES ASSUME Attached PROVE HolderInv OBVIOUS
<1> USE DEF Rested, Attached
<1>1. HolderTypes BY NoJobTyped, ClosedOwns DEF HolderTypes, Pcs
<1>2. MutexRule BY VolNone DEF MutexRule, HasMutex
<1>3. JobInv BY ClosedOwns DEF JobInv, JobRule
<1>4. Counted
  <2> SUFFICES ASSUME NEW v \in Vols PROVE Counts(vols[v], UsesOf(v), Readers(v)) BY DEF Counted
  <2>1. UsesOf(v) \in Uses /\ Readers(v) \in SUBSET Clients BY <1>1, UsesTyped
  <2>2. \A c \in Clients : UsesOf(v)[c] = None BY ClosedOwns DEF UsesOf
  <2>3. Anyone(UsesOf(v)) = {} BY <2>2 DEF Anyone
  <2>4. Readers(v) = {} BY DEF Readers
  <2>5. vols[v] \in Volumes \cup {None} OBVIOUS
  <2>6. vols[v] \in Volumes => vols[v].use = Unused /\ vols[v].refs = 0 BY VolNone
  <2>7. CASE vols[v] = None BY <2>1, <2>3, <2>4, <2>7, NobodyCounts
  <2>8. CASE vols[v] \in Volumes BY <2>1, <2>3, <2>4, <2>6, <2>8, NobodyCounts
  <2> QED BY <2>5, <2>7, <2>8
<1>5. LifeInv BY VolNone DEF LifeInv, RemoveOf, HasMutex
<1> QED BY <1>1, <1>2, <1>3, <1>4, <1>5 DEF HolderInv

\* The holder invariant holds at first.
LEMMA HolderInit == Init => HolderInv
<1> SUFFICES ASSUME Init PROVE HolderInv OBVIOUS
<1>1. Rested BY DEF Init, Rested
<1>2. vtbl \in Tables BY EmptyTyped DEF Init
<1>3. vols \in [Vols -> Volumes \cup {None}] /\ \A v \in Vols : vols[v] = None BY DEF Init, Closed
<1> QED BY <1>1, <1>2, <1>3, RestedHolds DEF Init, Attached

\* The volumes that init_volumes() makes of a sane table.
LEMMA AttachVolsIs ==
    ASSUME NEW t \in Tables, SaneTable(t)
    PROVE  /\ AttachVols(t) \in [Vols -> Volumes \cup {None}]
           /\ \A v \in Vols : AttachVols(t)[v] = IF t[v].size > 0 THEN Fresh(t[v]) ELSE None
           /\ \A v \in Vols : t[v].size > 0 =>
                Fresh(t[v]) \in Volumes /\ Fresh(t[v]).use = Unused /\ Fresh(t[v]).refs = 0 /\ Fresh(t[v]).listed
<1>1. \A v \in Vols : AttachVols(t)[v] = IF t[v].size > 0 THEN Fresh(t[v]) ELSE None BY DEF AttachVols
<1>2. \A v \in Vols : t[v].size > 0 =>
         Fresh(t[v]) \in Volumes /\ Fresh(t[v]).use = Unused /\ Fresh(t[v]).refs = 0 /\ Fresh(t[v]).listed
  <2> SUFFICES ASSUME NEW v \in Vols, t[v].size > 0
               PROVE Fresh(t[v]) \in Volumes /\ Fresh(t[v]).use = Unused /\ Fresh(t[v]).refs = 0 /\ Fresh(t[v]).listed
    OBVIOUS
  <2>1. t[v] \in Records BY TableWith
  <2>2. t[v].size # 0 BY <2>1, RecordTyped
  <2>3. t[v].name # None BY <2>2 DEF SaneTable
  <2>4. t[v].name \in Names BY <2>1, <2>3, RecordTyped
  <2> DEFINE r == t[v]
  <2>5. r \in Records /\ r.size > 0 /\ r.name \in Names BY <2>1, <2>4
  <2> HIDE DEF r
  <2>6. Fresh(r) \in Volumes /\ Fresh(r).use = Unused /\ Fresh(r).refs = 0 /\ Fresh(r).listed
    BY <2>5, FreshTyped
  <2> QED BY <2>6 DEF r
<1>3. \A v \in Vols : AttachVols(t)[v] \in Volumes \cup {None} BY <1>1, <1>2
<1>4. AttachVols(t) \in [Vols -> Volumes \cup {None}] BY <1>3 DEF AttachVols
<1> QED BY <1>1, <1>2, <1>4

\* The holder invariant holds after a power cut and the attach.
LEMMA CutHolds == ASSUME HolderInv, FlashTypes, PowerCut PROVE HolderInv'
<1>0. HolderTypes BY DEF HolderInv
<1>5. (Attached => HolderInv)' BY RestedHolds, PTL
<1>1. Rested' /\ ro' = FALSE BY DEF PowerCut, Rested
<1>2. PICK ls : \/ /\ dev' = "on" /\ AttachTable(ls) # None /\ SaneTable(AttachTable(ls))
                   /\ vtbl' = AttachTable(ls) /\ vols' = AttachVols(AttachTable(ls))
                \/ dev' = "refused" /\ vols' = Closed /\ vtbl' = vtbl
  <2> DEFINE A(ls) == \/ /\ dev' = "on" /\ AttachTable(ls) # None /\ SaneTable(AttachTable(ls))
                         /\ vtbl' = AttachTable(ls) /\ vols' = AttachVols(AttachTable(ls))
                      \/ dev' = "refused" /\ vols' = Closed /\ vtbl' = vtbl
  <2>1. \E ls : A(ls) BY DEF PowerCut
  <2> HIDE DEF A
  <2>2. PICK ls : A(ls) BY <2>1
  <2> QED BY <2>2 DEF A
<1> DEFINE t == AttachTable(ls)
<1>3. CASE /\ dev' = "on" /\ t # None /\ SaneTable(t) /\ vtbl' = t /\ vols' = AttachVols(t)
  <2>1. t \in Tables BY <1>3, AttachTyped
  <2> HIDE DEF t
  <2>2. /\ vols' \in [Vols -> Volumes \cup {None}]
        /\ \A v \in Vols : vols'[v] # None => vols'[v].use = Unused /\ vols'[v].refs = 0 /\ vols'[v].listed
    BY <1>3, <2>1, AttachVolsIs
  <2>3. vtbl' \in Tables /\ dev' \in {"on", "refused"} /\ dev' # "refused" /\ ro' \in BOOLEAN BY <1>1, <1>3, <2>1
  <2>4. Attached' BY <1>1, <2>2, <2>3 DEF Attached
  <2> QED BY <1>5, <2>4
<1>4. CASE dev' = "refused" /\ vols' = Closed /\ vtbl' = vtbl
  <2>1. vols' \in [Vols -> Volumes \cup {None}] /\ \A v \in Vols : vols'[v] = None BY <1>4 DEF Closed
  <2>2. vtbl' \in Tables /\ ro' \in BOOLEAN BY <1>0, <1>1, <1>4 DEF HolderTypes
  <2>3. Attached' BY <1>1, <1>4, <2>1, <2>2 DEF Attached
  <2> QED BY <1>5, <2>3
<1> QED BY <1>2, <1>3, <1>4

\* The LEBs after ubi_eba_unmap_leb() of some of them.
LEMMA UnmappedTyped ==
    ASSUME FlashTypes, NEW S, Unmapped(S)
    PROVE  /\ eba' \in [Vols -> [Lebs -> Contents \cup {None}]]
           /\ pend' \in [Vols -> [Lebs -> Contents \cup {None}]]
           /\ \A v \in Vols, l \in Lebs :
                /\ eba'[v][l] = IF <<v, l>> \in S THEN None ELSE eba[v][l]
                /\ pend'[v][l] = IF <<v, l>> \in S /\ eba[v][l] # None THEN eba[v][l] ELSE pend[v][l]
BY DEF Unmapped, FlashTypes

\* The LEBs after ubi_eba_write_leb().
LEMMA WrittenTyped ==
    ASSUME FlashTypes, NEW v \in Vols, NEW l \in Lebs, NEW x \in Contents, Written(v, l, x)
    PROVE  /\ eba' \in [Vols -> [Lebs -> Contents \cup {None}]]
           /\ pend' \in [Vols -> [Lebs -> Contents \cup {None}]]
           /\ \A w \in Vols, k \in Lebs :
                /\ eba'[w][k] = IF w = v /\ k = l THEN x ELSE eba[w][k]
                /\ pend'[w][k] = IF w = v /\ k = l THEN None ELSE pend[w][k]
BY DEF Written, FlashTypes

\* Nothing waits for erasure after ubi_wl_flush().
LEMMA FlushedTyped ==
    ASSUME FlashTypes, Flushed
    PROVE  /\ layPend' \in [0 .. 1 -> Tables \cup {None}] /\ pend' \in [Vols -> [Lebs -> Contents \cup {None}]]
           /\ \A i \in 0 .. 1 : layPend'[i] = None
           /\ \A v \in Vols : pend'[v] = Nothing /\ \A l \in Lebs : pend'[v][l] = None
BY DEF Flushed, Nothing

\* What a new table makes of the contents of a LEB.
TurnedBy(j, v, x) ==
    IF (j.op = "remove" /\ v = j.vol) \/ v \in j.drop THEN IF x = None THEN None ELSE "stale"
    ELSE IF j.op = "clear" /\ v = j.vol THEN CASE x = "data" -> "stale" [] x = "new" -> "data" [] OTHER -> x
    ELSE x

\* A new table turns contents into contents, and nothing into nothing.
LEMMA TurnedTyped ==
    ASSUME NEW j, NEW v, NEW x \in Contents \cup {None}
    PROVE  /\ TurnedBy(j, v, x) \in Contents \cup {None}
           /\ TurnedBy(j, v, x) = None <=> x = None
<1>1. x \in {"data", "new", "stale", None} BY DEF Contents
<1>2. None \notin {"data", "new", "stale"} BY VolNone DEF Contents
<1>3. CASE (j.op = "remove" /\ v = j.vol) \/ v \in j.drop BY <1>1, <1>2, <1>3 DEF TurnedBy, Contents
<1>4. CASE ~((j.op = "remove" /\ v = j.vol) \/ v \in j.drop)
  <2>1. CASE x = "data" BY <2>1, <1>2, <1>4 DEF TurnedBy, Contents
  <2>2. CASE x = "new" BY <2>2, <1>2, <1>4 DEF TurnedBy, Contents
  <2>3. CASE x = "stale" BY <2>3, <1>2, <1>4 DEF TurnedBy, Contents
  <2>4. CASE x = None BY <2>4, <1>2, <1>4 DEF TurnedBy, Contents
  <2> QED BY <1>1, <2>1, <2>2, <2>3, <2>4
<1> QED BY <1>3, <1>4

\* The LEBs when LEB 0 of the layout volume has the new table.
LEMMA PassedTyped ==
    ASSUME FlashTypes, NEW j, Passed(j)
    PROVE  /\ eba' \in [Vols -> [Lebs -> Contents \cup {None}]]
           /\ pend' \in [Vols -> [Lebs -> Contents \cup {None}]]
           /\ \A v \in Vols, l \in Lebs : /\ eba'[v][l] = TurnedBy(j, v, eba[v][l])
                                          /\ pend'[v][l] = TurnedBy(j, v, pend[v][l])
<1>1. eba' = [v \in Vols |-> [l \in Lebs |-> TurnedBy(j, v, eba[v][l])]] BY DEF Passed, TurnedBy
<1>2. pend' = [v \in Vols |-> [l \in Lebs |-> TurnedBy(j, v, pend[v][l])]] BY DEF Passed, TurnedBy
<1>3. \A v \in Vols, l \in Lebs : TurnedBy(j, v, eba[v][l]) \in Contents \cup {None}
  BY TurnedTyped DEF FlashTypes
<1>4. \A v \in Vols, l \in Lebs : TurnedBy(j, v, pend[v][l]) \in Contents \cup {None}
  BY TurnedTyped DEF FlashTypes
<1> QED BY <1>1, <1>2, <1>3, <1>4

\* The types of the flash at first.
LEMMA FlashInit == Init => FlashTypes
<1> SUFFICES ASSUME Init PROVE FlashTypes OBVIOUS
<1>1. EmptyTable \in Tables BY EmptyTyped
<1>2. lay \in [0 .. 1 -> Tables \cup {None}] /\ layPend \in [0 .. 1 -> Tables \cup {None}] BY <1>1 DEF Init
<1>3. Nothing \in [Lebs -> Contents \cup {None}] BY DEF Nothing
<1> QED BY <1>1, <1>2, <1>3 DEF Init, FlashTypes

\* The layout volume changes at a table write, a flush and an attach only.
LEMMA TableStepFlash ==
    ASSUME HolderTypes, FlashTypes, NEW c \in Clients, TableStep(c)
    PROVE  FlashTypes'
<1>1. lay' \in [0 .. 1 -> Tables \cup {None}] /\ layPend' \in [0 .. 1 -> Tables \cup {None}]
  <2>1. stage \in 0 .. 3 /\ vtbl \in Tables BY DEF FlashTypes, HolderTypes
  <2>2. stage \div 2 \in 0 .. 1 BY <2>1
  <2>3. LayoutLeb(stage) \in 0 .. 1 BY <2>2 DEF LayoutLeb
  <2> QED BY <2>1, <2>3 DEF TableStep, FlashTypes
<1>2. eba' \in [Vols -> [Lebs -> Contents \cup {None}]] /\ pend' \in [Vols -> [Lebs -> Contents \cup {None}]]
  <2>1. CASE stage = 1 BY <2>1, PassedTyped DEF TableStep
  <2>2. CASE stage # 1 BY <2>2 DEF TableStep, FlashTypes
  <2> QED BY <2>1, <2>2
<1>3. done' \in Tables BY DEF TableStep, FlashTypes, HolderTypes
<1>4. stage' \in 0 .. 3
  <2>1. stage \in 0 .. 3 BY DEF FlashTypes
  <2>2. (stage + 1) % 4 \in 0 .. 3 BY <2>1
  <2> QED BY <2>2 DEF TableStep
<1> QED BY <1>1, <1>2, <1>3, <1>4 DEF FlashTypes

\* What an attach finds in the LEBs when the contents ds that wait for erasure
\* are still there.
FoundLebs(ds) == [v \in Vols |-> [l \in Lebs |-> IF <<v, l>> \in ds THEN pend[v][l] ELSE eba[v][l]]]

\* The attach succeeds, with the table t.
Attaches(t, ds) ==
    /\ t # None /\ SaneTable(t) /\ Fits(t, FoundLebs(ds)) /\ PebsLeft(t) >= 0
    /\ dev' = "on" /\ vtbl' = t /\ done' = t
    /\ lay' = [i \in 0 .. 1 |-> t] /\ layPend' = [i \in 0 .. 1 |-> None]
    /\ vols' = AttachVols(t)
    /\ eba' = [v \in Vols |-> IF t[v].size > 0 THEN FoundLebs(ds)[v] ELSE Nothing]
    /\ pend' = [v \in Vols |-> IF t[v].size > 0 THEN Nothing ELSE FoundLebs(ds)[v]]
    /\ beb' = Min({PebsLeft(t), BebLevel})
    /\ avail' = PebsLeft(t) - Min({PebsLeft(t), BebLevel})
    /\ good' = good

\* An attach succeeds with a table and the LEBs found, or the device is refused.
LEMMA CutIs ==
    ASSUME PowerCut
    PROVE  \/ \E ls \in SUBSET (0 .. 1), ds \in SUBSET {p \in Vols \X Lebs : pend[p[1]][p[2]] # None /\ eba[p[1]][p[2]] = None} :
                Attaches(AttachTable(ls), ds)
           \/ dev' = "refused" /\ vols' = Closed /\ UNCHANGED <<vtbl, done, flash, pebs>>
<1> DEFINE Ds == SUBSET {p \in Vols \X Lebs : pend[p[1]][p[2]] # None /\ eba[p[1]][p[2]] = None}
           Refuse == dev' = "refused" /\ vols' = Closed /\ UNCHANGED <<vtbl, done, flash, pebs>>
<1>1. PICK ls \in SUBSET {i \in 0 .. 1 : layPend[i] # None /\ lay[i] = None}, ds \in Ds :
         Attaches(AttachTable(ls), ds) \/ Refuse
  BY DEF PowerCut, Attaches, FoundLebs
<1>2. ls \in SUBSET (0 .. 1) OBVIOUS
<1> HIDE DEF Ds, Refuse
<1>3. (\E s \in SUBSET (0 .. 1), d \in Ds : Attaches(AttachTable(s), d)) \/ Refuse BY <1>1, <1>2
<1> QED BY <1>3 DEF Ds, Refuse

\* The LEBs that an attach finds.
LEMMA FoundTyped ==
    ASSUME FlashTypes, NEW ds
    PROVE  /\ FoundLebs(ds) \in [Vols -> [Lebs -> Contents \cup {None}]]
           /\ \A v \in Vols, l \in Lebs :
                FoundLebs(ds)[v][l] = IF <<v, l>> \in ds THEN pend[v][l] ELSE eba[v][l]
BY DEF FoundLebs, FlashTypes

\* The types of the flash after a power cut.
LEMMA CutFlash == ASSUME HolderInv, FlashTypes, PowerCut PROVE FlashTypes'
<1>1. stage' = 0 BY DEF PowerCut
<1>2. ASSUME NEW ls, NEW ds, Attaches(AttachTable(ls), ds) PROVE FlashTypes'
  <2> DEFINE t == AttachTable(ls)
             found == FoundLebs(ds)
  <2>1. t \in Tables
    <3>1. t # None BY <1>2 DEF Attaches
    <3> QED BY <3>1, AttachTyped
  <2>2. found \in [Vols -> [Lebs -> Contents \cup {None}]] BY FoundTyped
  <2>3. Nothing \in [Lebs -> Contents \cup {None}] BY DEF Nothing
  <2>4. Attaches(t, ds) BY <1>2
  <2> HIDE DEF t
  <2>5. /\ done' = t /\ lay' = [i \in 0 .. 1 |-> t] /\ layPend' = [i \in 0 .. 1 |-> None]
        /\ eba' = [v \in Vols |-> IF t[v].size > 0 THEN found[v] ELSE Nothing]
        /\ pend' = [v \in Vols |-> IF t[v].size > 0 THEN Nothing ELSE found[v]]
    BY <2>4 DEF Attaches
  <2> HIDE DEF found
  <2> QED BY <1>1, <2>1, <2>2, <2>3, <2>5 DEF FlashTypes
<1>3. CASE UNCHANGED <<done, flash>> BY <1>1, <1>3 DEF flash, FlashTypes
<1> QED BY <1>2, <1>3, CutIs

\* The types of the flash after LEBs are unmapped.
LEMMA UnmappedFlash ==
    ASSUME FlashTypes, NEW S, Unmapped(S), UNCHANGED <<lay, layPend, stage, done>>
    PROVE  FlashTypes'
BY UnmappedTyped DEF FlashTypes

\* The types of the flash after a LEB is written.
LEMMA WrittenFlash ==
    ASSUME FlashTypes, NEW v \in Vols, NEW l \in Lebs, NEW x \in Contents, Written(v, l, x),
           UNCHANGED <<lay, layPend, stage, done>>
    PROVE  FlashTypes'
BY WrittenTyped DEF FlashTypes

\* The types of the flash after a volume is wiped out.
LEMMA WipeFlash ==
    ASSUME HolderInv, FlashTypes, NEW c \in Clients, UpdateWipe(c)
    PROVE  FlashTypes'
<1> DEFINE v == job[c].vol
           Old(x) == IF x = "new" THEN "data" ELSE x
           new == [l \in Lebs |-> Old(IF eba[v][l] # None THEN eba[v][l] ELSE pend[v][l])]
<1>1. v \in Vols BY DEF UpdateWipe, HolderInv, JobInv, JobRule
<1>2. new \in [Lebs -> Contents \cup {None}] BY <1>1 DEF FlashTypes, Contents
<1>3. Nothing \in [Lebs -> Contents \cup {None}] BY DEF Nothing
<1>4. CASE ro
  <2>1. UNCHANGED <<eba, pend, lay, layPend, stage, done>> BY <1>4 DEF UpdateWipe, hist
  <2> QED BY <2>1 DEF FlashTypes
<1>5. CASE ~ro
  <2>1. eba' = [eba EXCEPT ![v] = Nothing] /\ pend' = [pend EXCEPT ![v] = new]
        /\ UNCHANGED <<lay, layPend, stage, done>>
    BY <1>5 DEF UpdateWipe, hist
  <2> HIDE DEF new
  <2> QED BY <1>1, <1>2, <1>3, <2>1 DEF FlashTypes
<1> QED BY <1>4, <1>5

\* The types of the flash when it does not change.
LEMMA FlashFrame ==
    ASSUME FlashTypes, UNCHANGED <<flash, done>>, stage' = stage \/ stage' = 0
    PROVE  FlashTypes'
BY DEF FlashTypes, flash

\* The types of the flash after a step of a process.
LEMMA ClientFlash ==
    ASSUME HolderInv, FlashTypes, NEW c \in Clients, Client(c)
    PROVE  FlashTypes'
<1>0. HolderTypes BY DEF HolderInv
<1>1. CASE UNCHANGED <<flash, done>> /\ (stage' = stage \/ stage' = 0) BY <1>1, FlashFrame
<1>2. CASE \E v \in Vols, l \in Lebs : Write(c, v, l) \/ Unmap(c, v, l)
  <2>1. PICK v \in Vols, l \in Lebs : Write(c, v, l) \/ Unmap(c, v, l) BY <1>2
  <2>2. CASE Write(c, v, l)
    <3>1. Written(v, l, "data") /\ UNCHANGED <<lay, layPend, stage, done>> BY <2>2 DEF Write, hist
    <3>2. "data" \in Contents BY DEF Contents
    <3> QED BY <3>1, <3>2, WrittenFlash
  <2>3. CASE Unmap(c, v, l) BY <2>3, UnmappedFlash DEF Unmap, hist
  <2> QED BY <2>1, <2>2, <2>3
<1>3. CASE CreateFlush(c)
  <2>1. Flushed /\ UNCHANGED <<lay, eba, done>> /\ stage' = 0 BY <1>3 DEF CreateFlush, ChangeTable, hist
  <2> QED BY <2>1, FlushedTyped DEF FlashTypes
<1>4. CASE UpdateFlush(c)
  <2>1. Flushed /\ UNCHANGED <<lay, eba, done, stage>> BY <1>4 DEF UpdateFlush, hist
  <2> QED BY <2>1, FlushedTyped DEF FlashTypes
<1>5. CASE TableStep(c) BY <1>0, <1>5, TableStepFlash
<1>6. CASE RemoveEnd(c) BY <1>6, UnmappedFlash DEF RemoveEnd, hist
<1>7. CASE ResizeEnd(c)
  <2>1. UNCHANGED <<lay, layPend, stage, done>> BY <1>7 DEF ResizeEnd, hist
  <2>2. (\E S : Unmapped(S)) \/ UNCHANGED <<eba, pend>> BY <1>7 DEF ResizeEnd
  <2>3. CASE \E S : Unmapped(S) BY <2>1, <2>3, UnmappedFlash
  <2>4. CASE UNCHANGED <<eba, pend>> BY <2>1, <2>4 DEF FlashTypes
  <2> QED BY <2>2, <2>3, <2>4
<1>8. CASE UnmapFails(c)
  <2>1. UNCHANGED <<lay, layPend, stage, done>> BY <1>8 DEF UnmapFails, hist
  <2>2. \E S : Unmapped(S) BY <1>8 DEF UnmapFails
  <2> QED BY <2>1, <2>2, UnmappedFlash
<1>9. CASE RenameEnd(c)
  <2>1. UNCHANGED <<lay, layPend, stage, done>> BY <1>9 DEF RenameEnd
  <2>2. \E S : Unmapped(S) BY <1>9 DEF RenameEnd
  <2> QED BY <2>1, <2>2, UnmappedFlash
<1>10. CASE \E l \in Lebs : UpdateWrite(c, l)
  <2>1. PICK l \in Lebs : UpdateWrite(c, l) BY <1>10
  <2>2. Written(job[c].vol, l, "new") /\ UNCHANGED <<lay, layPend, stage, done>> BY <2>1 DEF UpdateWrite, hist
  <2>3. "new" \in Contents /\ job[c].vol \in Vols
    BY <2>1 DEF Contents, UpdateWrite, HolderInv, JobInv, JobRule
  <2> QED BY <2>2, <2>3, WrittenFlash
<1>11. CASE UpdateWipe(c) BY <1>11, WipeFlash
<1>12. \/ UNCHANGED <<flash, done>> /\ (stage' = stage \/ stage' = 0)
       \/ \E v \in Vols, l \in Lebs : Write(c, v, l) \/ Unmap(c, v, l)
       \/ CreateFlush(c) \/ UpdateFlush(c) \/ TableStep(c) \/ RemoveEnd(c) \/ ResizeEnd(c)
       \/ UnmapFails(c) \/ RenameEnd(c) \/ (\E l \in Lebs : UpdateWrite(c, l)) \/ UpdateWipe(c)
  BY DEF Client, Open, Close, ShowStart, ShowEnd, CreateStart, CreateEnd, Remove, Resize, Request,
         LockRemove, LockResize, GiveUp, RenameStart, RenameOpen, RenameFind, RenameOpenNamed, RenameBusy,
         LockRename, UpdateStart, LockMark, MarkEnd, ClearEnd, TableFails, ChangeTable, hist
<1> QED BY <1>1, <1>2, <1>3, <1>4, <1>5, <1>6, <1>7, <1>8, <1>9, <1>10, <1>11, <1>12

\* The types of the flash are preserved.
LEMMA FlashStep == ASSUME HolderInv, FlashTypes, [Next]_vars PROVE FlashTypes'
<1>1. CASE \E c \in Clients : Client(c) BY <1>1, ClientFlash
<1>2. CASE PebGoesBad \/ GoesReadOnly \/ UNCHANGED vars
  <2>1. UNCHANGED <<flash, done, stage>> BY <1>2 DEF PebGoesBad, GoesReadOnly, vars, hist
  <2> QED BY <2>1, FlashFrame
<1>3. CASE PowerCut BY <1>3, CutFlash
<1> QED BY <1>1, <1>2, <1>3 DEF Next

\* Every step of a process preserves the holder invariant.
LEMMA ClientHolds ==
    ASSUME HolderInv, NEW c \in Clients, Client(c)
    PROVE  HolderInv'
<1>1. CASE \E v \in Vols, m \in Modes : Open(c, v, m) BY <1>1, OpenHolds
<1>2. CASE Close(c) BY <1>2, CloseHolds
<1>3. CASE \E v \in Vols : ShowStart(c, v) BY <1>3, ShowStartHolds
<1>4. CASE ShowEnd(c) BY <1>4, ShowEndHolds
<1>5. CASE \E v \in Vols, l \in Lebs : Write(c, v, l) \/ Unmap(c, v, l) BY <1>5, FrameHolds
<1>6. CASE \E v \in Vols, n \in Names, s \in 1 .. MaxSize : CreateStart(c, v, n, s)
  BY <1>6, CreateStartHolds
<1>7. CASE CreateFlush(c) BY <1>7, CreateFlushHolds
<1>8. CASE CreateEnd(c) BY <1>8, CreateEndHolds
<1>9. CASE \E v \in Vols : Remove(c, v) BY <1>9, RemoveHolds
<1>10. CASE LockRemove(c) BY <1>10, LockRemoveHolds
<1>11. CASE RemoveEnd(c) BY <1>11, RemoveEndHolds
<1>12. CASE \E v \in Vols, s \in 1 .. MaxSize : Exists(v) /\ Resize(c, v, s) BY <1>12, ResizeHolds
<1>13. CASE LockResize(c) BY <1>13, LockResizeHolds
<1>14. CASE ResizeEnd(c) BY <1>14, ResizeEndHolds
<1>15. CASE UnmapFails(c) BY <1>15, UnmapFailsHolds
<1>16. CASE GiveUp(c) \/ RenameBusy(c) BY <1>16, GiveUpHolds
<1>17. CASE \E f \in Requests : RenameStart(c, f) BY <1>17, RenameStartHolds
<1>18. CASE \E v \in Vols : RenameOpen(c, v) BY <1>18, RenameOpenHolds
<1>19. CASE \E v \in Vols : RenameFind(c, v) BY <1>19, RenameFindHolds
<1>20. CASE RenameOpenNamed(c) BY <1>20, RenameOpenNamedHolds
<1>21. CASE LockRename(c) BY <1>21, LockRenameHolds
<1>22. CASE RenameEnd(c) BY <1>22, RenameEndHolds
<1>23. CASE \E v \in Vols : UpdateStart(c, v) BY <1>23, UpdateStartHolds
<1>24. CASE \E l \in Lebs : UpdateWrite(c, l) BY <1>24, FrameHolds
<1>25. CASE UpdateWipe(c) BY <1>25, UpdateWipeHolds
<1>26. CASE UpdateFlush(c) BY <1>26, UpdateFlushHolds
<1>27. CASE LockMark(c) BY <1>27, LockMarkHolds
<1>28. CASE MarkEnd(c) BY <1>28, MarkEndHolds
<1>29. CASE ClearEnd(c) BY <1>29, ClearEndHolds
<1>30. CASE TableStep(c) BY <1>30, TableStepHolds
<1>31. CASE TableFails(c) BY <1>31, TableFailsHolds
<1> QED BY <1>1, <1>2, <1>3, <1>4, <1>5, <1>6, <1>7, <1>8, <1>9, <1>10, <1>11, <1>12, <1>13, <1>14, <1>15,
           <1>16, <1>17, <1>18, <1>19, <1>20, <1>21, <1>22, <1>23, <1>24, <1>25, <1>26, <1>27, <1>28,
           <1>29, <1>30, <1>31 DEF Client

\* Every step preserves the holder invariant.
LEMMA HolderNext == ASSUME HolderInv, FlashTypes, [Next]_vars PROVE HolderInv'
<1>1. CASE \E c \in Clients : Client(c) BY <1>1, ClientHolds
<1>2. CASE PebGoesBad \/ GoesReadOnly \/ UNCHANGED vars BY <1>2, FrameHolds
<1>3. CASE PowerCut BY <1>3, CutHolds
<1> QED BY <1>1, <1>2, <1>3 DEF Next

\* The users of every volume are counted, its exclusive owner is alone, one
\* process has device_mutex, and every request has open what it is about
\* (kapi.c, vmt.c, upd.c, cdev.c).
THEOREM Holders == Spec => [](HolderInv /\ FlashTypes)
<1>1. Init => HolderInv /\ FlashTypes BY HolderInit, FlashInit
<1>2. HolderInv /\ FlashTypes /\ [Next]_vars => (HolderInv /\ FlashTypes)' BY HolderNext, FlashStep
<1> QED BY <1>1, <1>2, PTL DEF Spec

-----------------------------------------------------------------------------
(*****************************************************************************)
(* What the volumes in RAM say of themselves.                                *)
(*****************************************************************************)

\* The holder invariant implies OpenModes.
LEMMA OpenModesHold == ASSUME HolderInv PROVE OpenModes
<1> SUFFICES ASSUME NEW v \in Vols
             PROVE
        LET Who(m) == {c \in Clients : desc[c][v] = m}
            all == {c \in Clients : desc[c][v] # None}
            shown == {c \in Clients : pc[c] = "show" /\ job[c].vol = v}
        IN  /\ all \cup shown # {} => vols[v] # None
            /\ vols[v] # None =>
                /\ \A m \in Modes : vols[v].use[m] = Cardinality(Who(m))
                /\ vols[v].refs = Cardinality(all) + Cardinality(shown)
                /\ Cardinality(Who("rw")) <= 1
                /\ Who("ex") # {} => Cardinality(all) = 1
  BY DEF OpenModes
<1> DEFINE Who(m) == {c \in Clients : desc[c][v] = m}
           all == {c \in Clients : desc[c][v] # None}
           shown == {c \in Clients : pc[c] = "show" /\ job[c].vol = v}
           D == UsesOf(v)
<1>1. Counts(vols[v], D, Readers(v)) BY DEF HolderInv, Counted
<1>2. \A m : Who(m) = Holding(D, m) BY DEF Holding, UsesOf
<1>3. all = Anyone(D) BY DEF Anyone, UsesOf
<1>4. shown = Readers(v) BY DEF Readers
<1>5. Cardinality(Who("rw")) <= 1
  <2>1. CASE Who("rw") = {} BY <2>1, FS_EmptySet
  <2>2. CASE Who("rw") # {}
    <3>1. PICK c \in Clients : desc[c][v] = "rw" BY <2>2
    <3>2. \A d \in Clients : desc[d][v] = "rw" => d = c BY <1>1, <3>1 DEF Counts, Alone, UsesOf
    <3>3. Who("rw") = {c} BY <3>1, <3>2
    <3>4. Cardinality({c}) = 1 BY FS_Singleton
    <3> HIDE DEF Who
    <3> QED BY <3>3, <3>4
  <2> QED BY <2>1, <2>2
<1>6. Who("ex") # {} => Cardinality(all) = 1
  <2> SUFFICES ASSUME Who("ex") # {} PROVE Cardinality(all) = 1 OBVIOUS
  <2>1. PICK c \in Clients : desc[c][v] = "ex" BY ZenonT(20)
  <2>2. \A d \in Clients : desc[d][v] # None => d = c BY <1>1, <2>1 DEF Counts, Alone, UsesOf
  <2>3. "ex" # None BY VolNone DEF Modes
  <2>4. all = {c} BY <2>1, <2>2, <2>3
  <2> QED BY <2>4, FS_Singleton
<1> HIDE DEF Who, all, shown, D
<1>7. all \cup shown # {} => vols[v] # None BY <1>1, <1>3, <1>4 DEF Counts
<1>8. vols[v] # None => /\ \A m \in Modes : vols[v].use[m] = Cardinality(Who(m))
                        /\ vols[v].refs = Cardinality(all) + Cardinality(shown)
  BY <1>1, <1>2, <1>3, <1>4 DEF Counts
<1>9. /\ all \cup shown # {} => vols[v] # None
      /\ vols[v] # None =>
                /\ \A m \in Modes : vols[v].use[m] = Cardinality(Who(m))
                /\ vols[v].refs = Cardinality(all) + Cardinality(shown)
                /\ Cardinality(Who("rw")) <= 1
                /\ Who("ex") # {} => Cardinality(all) = 1
  BY <1>5, <1>6, <1>7, <1>8
<1> QED BY <1>9 DEF Who, all, shown

\* What the volume v in RAM says of itself.
Ram(v) == RecordOf(vols[v])

\* Which volumes change what they say of themselves.
KeepRam == \A v \in Vols : Ram(v)' = Ram(v)
SetRam(u, r) == \A v \in Vols : Ram(v)' = IF v = u THEN r ELSE Ram(v)

\* A volume with other users says the same of itself.
LEMMA SameRecord ==
    ASSUME NEW r \in Volumes, NEW q \in Volumes, SameVolume(r, q)
    PROVE  RecordOf(q) = RecordOf(r)
BY VolNone DEF SameVolume, RecordOf

\* A volume that is open exists and counts its users.
LEMMA VolumeOf ==
    ASSUME HolderInv, NEW c \in Clients, NEW v \in Vols, desc[c][v] # None
    PROVE  /\ vols[v] \in Volumes /\ desc[c][v] \in Modes
           /\ vols[v].use[desc[c][v]] > 0 /\ vols[v].refs > 0
<1>1. HolderTypes BY DEF HolderInv
<1>2. /\ UsesOf(v) \in Uses /\ Readers(v) \in SUBSET Clients /\ Counts(vols[v], UsesOf(v), Readers(v))
  BY <1>1, UsesTyped DEF HolderInv, Counted
<1>3. UsesOf(v)[c] = desc[c][v] BY DEF UsesOf
<1>4. vols[v] # None BY <1>2, <1>3 DEF Counts, Anyone
<1>5. vols[v] \in Volumes /\ desc[c][v] \in Modes BY <1>1, <1>4 DEF HolderTypes
<1> QED BY <1>2, <1>3, <1>5, LeftTyped

\* Who closes a volume does not change what it says of itself.
SameUsers(c, vs) ==
    \A v \in Vols : vs[v] # None /\ desc[c][v] # None =>
        vs[v] \in Volumes /\ vs[v].use = vols[v].use /\ vs[v].refs = vols[v].refs

\* A close leaves what the volume says of itself.
LEMMA ClosedRecord ==
    ASSUME HolderInv, NEW c \in Clients, NEW vs, SameUsers(c, vs), NEW v \in Vols
    PROVE  /\ RecordOf(ClosedBy(vs, c)[v]) = RecordOf(vs[v])
           /\ vs[v] # None /\ desc[c][v] # None => ClosedBy(vs, c)[v] \in Volumes
<1>1. ClosedBy(vs, c)[v] = IF vs[v] = None \/ desc[c][v] = None THEN vs[v] ELSE Left(vs[v], desc[c][v])
  BY DEF ClosedBy
<1>2. CASE vs[v] # None /\ desc[c][v] # None
  <2> DEFINE r == vs[v]
             m == desc[c][v]
  <2>1. r \in Volumes /\ m \in Modes /\ r.use[m] > 0 /\ r.refs > 0
    BY <1>2, VolumeOf DEF SameUsers
  <2> HIDE DEF r, m
  <2>2. Left(r, m) \in Volumes /\ SameVolume(r, Left(r, m)) BY <2>1, LeftIs
  <2>3. RecordOf(Left(r, m)) = RecordOf(r) BY <2>1, <2>2, SameRecord
  <2> QED BY <1>1, <1>2, <2>2, <2>3 DEF r, m
<1> QED BY <1>1, <1>2

\* The volumes after an ioctl has closed them.
LEMMA EndRam ==
    ASSUME HolderInv, NEW c \in Clients, NEW vs, Ends(c, vs), SameUsers(c, vs)
    PROVE  \A v \in Vols : Ram(v)' = RecordOf(vs[v])
BY ClosedRecord DEF Ends, Ram

\* An ioctl that only closes its volumes leaves what they say of themselves.
LEMMA EndKeeps ==
    ASSUME HolderInv, NEW c \in Clients, Ends(c, vols)
    PROVE  KeepRam
<1>1. SameUsers(c, vols) BY VolumeOf DEF SameUsers
<1> QED BY <1>1, EndRam DEF KeepRam, Ram

\* An operation on one volume ends with the volume in state q.
LEMMA EndSets ==
    ASSUME HolderInv, NEW c \in Clients, NEW u \in Vols, NEW q, Ends(c, [vols EXCEPT ![u] = q]),
           \/ q = None
           \/ q \in Volumes /\ (desc[c][u] # None => q.use = vols[u].use /\ q.refs = vols[u].refs)
    PROVE  SetRam(u, RecordOf(q))
<1> DEFINE vs == [vols EXCEPT ![u] = q]
<1>1. \A v \in Vols : vs[v] = IF v = u THEN q ELSE vols[v] BY DEF HolderInv, HolderTypes
<1>2. Ends(c, vs) OBVIOUS
<1> HIDE DEF vs
<1>3. SameUsers(c, vs)
  <2> SUFFICES ASSUME NEW v \in Vols, vs[v] # None, desc[c][v] # None
               PROVE  vs[v] \in Volumes /\ vs[v].use = vols[v].use /\ vs[v].refs = vols[v].refs
    BY DEF SameUsers
  <2>1. CASE v = u BY <1>1, <2>1
  <2>2. CASE v # u BY <1>1, <2>2, VolumeOf
  <2> QED BY <2>1, <2>2
<1>4. \A v \in Vols : Ram(v)' = RecordOf(vs[v]) BY <1>2, <1>3, EndRam
<1> QED BY <1>1, <1>4 DEF SetRam, Ram

\* A volume that is not the one opened, or shown, is not touched.
LEMMA ReplacedRam ==
    ASSUME HolderInv, NEW v \in Vols, NEW q \in Volumes, vols' = [vols EXCEPT ![v] = q]
    PROVE  SetRam(v, RecordOf(q))
BY DEF HolderInv, HolderTypes, SetRam, Ram

\* A volume that says the same in its new state.
LEMMA ReplacedKeeps ==
    ASSUME HolderInv, NEW v \in Vols, NEW q \in Volumes, vols' = [vols EXCEPT ![v] = q],
           RecordOf(q) = RecordOf(vols[v])
    PROVE  KeepRam
BY ReplacedRam DEF SetRam, KeepRam, Ram

\* An open leaves what the volumes say of themselves.
LEMMA OpenedKeeps ==
    ASSUME HolderInv, NEW v \in Vols, NEW m \in Modes, CanOpen(v, m), vols' = Opened(v, m)
    PROVE  KeepRam
<1> DEFINE q == Entered(vols[v], m)
<1>1. vols[v] \in Volumes BY DEF CanOpen, Exists, HolderInv, HolderTypes
<1>2. q \in Volumes /\ SameVolume(vols[v], q) BY <1>1, EnteredIs
<1>3. vols' = [vols EXCEPT ![v] = q] BY DEF Opened
<1> HIDE DEF q
<1>4. RecordOf(q) = RecordOf(vols[v]) BY <1>1, <1>2, SameRecord
<1> QED BY <1>2, <1>3, <1>4, ReplacedKeeps

\* Exclusive and writing are modes.
LEMMA ExIsMode == "ex" \in Modes /\ "rw" \in Modes BY DEF Modes

\* The steps that open a volume leave what the volumes say of themselves.
LEMMA OpeningKeeps ==
    ASSUME HolderInv, NEW c \in Clients,
           \/ \E v \in Vols, m \in Modes : Open(c, v, m)
           \/ \E v \in Vols : Remove(c, v)
           \/ \E v \in Vols, s \in 1 .. MaxSize : Exists(v) /\ Resize(c, v, s)
           \/ \E v \in Vols : RenameOpen(c, v)
           \/ RenameOpenNamed(c)
    PROVE  KeepRam
<1>1. CASE \E v \in Vols, m \in Modes : Open(c, v, m) BY <1>1, OpenedKeeps DEF Open
<1>2. CASE \E v \in Vols : Remove(c, v) BY <1>2, OpenedKeeps, ExIsMode DEF Remove, Request
<1>3. CASE \E v \in Vols, s \in 1 .. MaxSize : Exists(v) /\ Resize(c, v, s)
  BY <1>3, OpenedKeeps, ExIsMode DEF Resize, Request
<1>4. CASE \E v \in Vols : RenameOpen(c, v)
  <2>1. PICK v \in Vols : RenameOpen(c, v) BY <1>4
  <2>2. CanOpen(v, "ex") /\ (vols' = vols \/ vols' = Opened(v, "ex")) BY <2>1 DEF RenameOpen
  <2>3. CASE vols' = vols BY <2>3 DEF KeepRam, Ram
  <2>4. CASE vols' = Opened(v, "ex") BY <2>2, <2>4, OpenedKeeps, ExIsMode
  <2> QED BY <2>2, <2>3, <2>4
<1>5. CASE RenameOpenNamed(c)
  <2> DEFINE w == job[c].vol
  <2>1. w \in Vols BY <1>5 DEF RenameOpenNamed, HolderInv, JobInv, JobRule
  <2>2. vols' = vols \/ (CanOpen(w, "ex") /\ vols' = Opened(w, "ex")) BY <1>5 DEF RenameOpenNamed
  <2> HIDE DEF w
  <2>3. CASE vols' = vols BY <2>3 DEF KeepRam, Ram
  <2>4. CASE CanOpen(w, "ex") /\ vols' = Opened(w, "ex") BY <2>1, <2>4, OpenedKeeps, ExIsMode
  <2> QED BY <2>2, <2>3, <2>4
<1> QED BY <1>1, <1>2, <1>3, <1>4, <1>5

\* A read of an attribute leaves what the volumes say of themselves.
LEMMA ShowKeeps ==
    ASSUME HolderInv, NEW c \in Clients, (\E v \in Vols : ShowStart(c, v)) \/ ShowEnd(c)
    PROVE  KeepRam
<1>1. CASE \E v \in Vols : ShowStart(c, v)
  <2>1. PICK v \in Vols : ShowStart(c, v) BY <1>1
  <2> DEFINE q == [vols[v] EXCEPT !.refs = vols[v].refs + 1]
  <2>2. vols[v] \in Volumes BY <2>1 DEF ShowStart, Exists, HolderInv, HolderTypes
  <2>3. vols[v].refs + 1 \in Nat BY <2>2 DEF Volumes
  <2>4. q \in Volumes /\ SameVolume(vols[v], q) BY <2>2, <2>3 DEF Volumes, SameVolume
  <2>5. vols' = [vols EXCEPT ![v] = q] BY <2>1 DEF ShowStart
  <2> HIDE DEF q
  <2>6. RecordOf(q) = RecordOf(vols[v]) BY <2>2, <2>4, SameRecord
  <2> QED BY <2>4, <2>5, <2>6, ReplacedKeeps
<1>2. CASE ShowEnd(c)
  <2> DEFINE v == job[c].vol
             q == [vols[v] EXCEPT !.refs = vols[v].refs - 1]
  <2>1. v \in Vols /\ c \in Readers(v) BY <1>2 DEF ShowEnd, HolderInv, JobInv, JobRule, Readers
  <2>2. HolderTypes BY DEF HolderInv
  <2>3. Counts(vols[v], UsesOf(v), Readers(v)) /\ Readers(v) \in SUBSET Clients
    BY <2>1, <2>2, UsesTyped DEF HolderInv, Counted
  <2>4. vols[v] # None BY <2>1, <2>3 DEF Counts
  <2>5. vols[v] \in Volumes BY <2>1, <2>2, <2>4 DEF HolderTypes
  <2>6. vols[v].refs - 1 \in Nat
    <3>1. vols[v].refs = Cardinality(Anyone(UsesOf(v))) + Cardinality(Readers(v)) BY <2>3, <2>4 DEF Counts
    <3>2. Cardinality(Anyone(UsesOf(v))) \in Nat /\ Cardinality(Readers(v)) \in Nat /\ Cardinality(Readers(v)) # 0
      BY <2>1, <2>3, ClientSets, HoldingSubset
    <3> QED BY <3>1, <3>2
  <2>7. q \in Volumes /\ SameVolume(vols[v], q) BY <2>5, <2>6 DEF Volumes, SameVolume
  <2>8. vols' = [vols EXCEPT ![v] = q] BY <1>2 DEF ShowEnd
  <2> HIDE DEF q, v
  <2>9. RecordOf(q) = RecordOf(vols[v]) BY <2>5, <2>7, SameRecord
  <2> QED BY <2>1, <2>7, <2>8, <2>9, ReplacedKeeps
<1> QED BY <1>1, <1>2

\* vol_cdev_release() leaves what the volumes say of themselves.
LEMMA CloseKeeps ==
    ASSUME HolderInv, NEW c \in Clients, Close(c)
    PROVE  KeepRam
<1> DEFINE vs == ClosedBy(vols, c)
<1>1. SameUsers(c, vols) BY VolumeOf DEF SameUsers
<1>2. \A v \in Vols : /\ RecordOf(vs[v]) = RecordOf(vols[v])
                      /\ desc[c][v] # None => vs[v] \in Volumes
  BY <1>1, ClosedRecord, VolumeOf, VolNone
<1>3. vols' = [v \in Vols |-> IF desc[c][v] = None THEN vs[v] ELSE [vs[v] EXCEPT !.updating = FALSE]]
  BY DEF Close
<1> HIDE DEF vs
<1> SUFFICES ASSUME NEW v \in Vols PROVE RecordOf(vols'[v]) = RecordOf(vols[v]) BY DEF KeepRam, Ram
<1>4. CASE desc[c][v] = None BY <1>2, <1>3, <1>4
<1>5. CASE desc[c][v] # None
  <2> DEFINE r == vs[v]
             q == vols'[v]
  <2>1. r \in Volumes /\ q = [r EXCEPT !.updating = FALSE] BY <1>2, <1>3, <1>5
  <2> HIDE DEF r, q
  <2>2. q \in Volumes /\ SameVolume(r, q) BY <2>1, VolumeQuiet
  <2>3. RecordOf(q) = RecordOf(r) BY <2>1, <2>2, SameRecord
  <2> QED BY <1>2, <2>3 DEF r, q
<1> QED BY <1>4, <1>5

\* get_exclusive() leaves what the volumes say of themselves.
LEMMA UpdateStartKeeps ==
    ASSUME HolderInv, NEW c \in Clients, NEW v \in Vols, UpdateStart(c, v)
    PROVE  KeepRam
<1> DEFINE q == [vols[v] EXCEPT !.use = Only("ex"), !.updating = TRUE]
           u == Only("ex")
           r == vols[v]
<1>1. vols[v] \in Volumes BY VolumeOf, VolNone DEF UpdateStart, Holds, Modes
<1>2. vols' = [vols EXCEPT ![v] = q] BY DEF UpdateStart
<1>3. u \in [Modes -> Nat] /\ r \in Volumes /\ q = [r EXCEPT !.use = u, !.updating = TRUE]
  BY <1>1, OnlyIs, ExIsMode
<1> HIDE DEF q, u, r
<1>4. q \in Volumes /\ RecordOf(q) = RecordOf(r) BY <1>3, VolumeUse
<1> QED BY <1>2, <1>4, ReplacedKeeps DEF r

\* A volume that is hidden says the same of itself.
LEMMA LockRemoveKeeps ==
    ASSUME HolderInv, NEW c \in Clients, LockRemove(c)
    PROVE  KeepRam
<1> DEFINE v == job[c].vol
           q == [vols[v] EXCEPT !.listed = FALSE]
           r == vols[v]
<1>1. v \in Vols /\ desc[c][v] = "ex" BY DEF LockRemove, HolderInv, JobInv, JobRule, OneVolume, Owns
<1>2. r \in Volumes BY <1>1, Exclusive
<1>3. vols' = [vols EXCEPT ![v] = q] /\ q = [r EXCEPT !.listed = FALSE] BY DEF LockRemove
<1> HIDE DEF q, r, v
<1>4. q \in Volumes /\ RecordOf(q) = RecordOf(r) BY <1>2, <1>3, VolumeHidden
<1> QED BY <1>1, <1>3, <1>4, ReplacedKeeps DEF r

\* A refused ioctl leaves what the volumes say of themselves.
LEMMA GiveUpKeeps ==
    ASSUME HolderInv, NEW c \in Clients, GiveUp(c) \/ RenameBusy(c)
    PROVE  KeepRam
BY EndKeeps DEF GiveUp, RenameBusy

\* A volume that stays when its removal fails.
LEMMA ListedKeeps ==
    ASSUME HolderInv, NEW c \in Clients, pc[c] \in {"table", "apply"}, job[c].op \in {"remove", "resize"},
           Ends(c, [vols EXCEPT ![job[c].vol].listed = TRUE])
    PROVE  KeepRam
<1> DEFINE v == job[c].vol
           r == vols[v]
           q == [r EXCEPT !.listed = TRUE]
<1>1. v \in Vols /\ desc[c][v] = "ex" BY DEF HolderInv, JobInv, JobRule, OneVolume, Owns
<1>2. r \in Volumes BY <1>1, Exclusive
<1>3. Ends(c, [vols EXCEPT ![v] = q]) OBVIOUS
<1> HIDE DEF v
<1> HIDE DEF q
<1>4. q \in Volumes /\ q.use = vols[v].use /\ q.refs = vols[v].refs /\ RecordOf(q) = RecordOf(vols[v])
  <2>1. q = [r EXCEPT !.listed = TRUE] BY DEF q
  <2> HIDE DEF r
  <2>2. q \in Volumes /\ q.use = r.use /\ q.refs = r.refs /\ RecordOf(q) = RecordOf(r) BY <1>2, <2>1, VolumeListed
  <2> QED BY <2>2 DEF r
<1>5. SetRam(v, RecordOf(q)) BY <1>1, <1>3, <1>4, EndSets
<1> QED BY <1>4, <1>5 DEF SetRam, KeepRam, Ram

\* Who executes a request on one volume has it open, in exclusive mode.
LEMMA HisVolume ==
    ASSUME HolderInv, NEW c \in Clients, pc[c] \in {"lock", "table", "apply"}, job[c].op \in OneVolume
    PROVE  /\ job[c].vol \in Vols /\ desc[c][job[c].vol] = "ex" /\ desc[c][job[c].vol] # None
           /\ vols[job[c].vol] \in Volumes /\ Ram(job[c].vol) \in Records
           /\ Ram(job[c].vol).size = vols[job[c].vol].size
<1> DEFINE v == job[c].vol
<1>1. v \in Vols /\ desc[c][v] = "ex" BY DEF HolderInv, JobInv, JobRule, Owns
<1>2. vols[v] \in Volumes BY <1>1, Exclusive
<1>3. "ex" # None BY VolNone DEF Modes
<1>4. Ram(v) \in Records /\ Ram(v).size = vols[v].size BY <1>2, VolNone, RecordOfTyped DEF Ram
<1> QED BY <1>1, <1>2, <1>3, <1>4

\* The end of a creation: the volume is as its record has it.
LEMMA CreateEndRam ==
    ASSUME HolderInv, NEW c \in Clients, CreateEnd(c)
    PROVE  SetRam(job[c].vol, job[c].rec) /\ Ram(job[c].vol) = empty_vtbl_record
<1> DEFINE u == job[c].vol
           r == job[c].rec
           q == Fresh(r)
<1>1. pc[c] = "apply" /\ job[c].op = "create" /\ Ends(c, [vols EXCEPT ![u] = q]) BY DEF CreateEnd
<1>2. u \in Vols /\ r \in Records /\ r.size > 0 /\ r.name \in Names /\ desc[c][u] = None
  BY <1>1 DEF HolderInv, JobInv, JobRule, Owns
<1>3. vols[u] = None BY <1>1 DEF HolderInv, LifeInv, HasMutex
<1> HIDE DEF u, r
<1>4. q \in Volumes /\ RecordOf(q) = r BY <1>2, FreshTyped
<1> HIDE DEF q
<1>5. SetRam(u, r) BY <1>1, <1>2, <1>4, EndSets
<1>6. Ram(u) = empty_vtbl_record BY <1>3 DEF Ram, RecordOf
<1> QED BY <1>5, <1>6 DEF u, r

\* The end of a removal: no volume is left.
LEMMA RemoveEndRam ==
    ASSUME HolderInv, NEW c \in Clients, RemoveEnd(c)
    PROVE  SetRam(job[c].vol, empty_vtbl_record)
<1>1. pc[c] = "apply" /\ job[c].op = "remove" /\ Ends(c, [vols EXCEPT ![job[c].vol] = None])
  BY DEF RemoveEnd
<1>2. job[c].vol \in Vols BY <1>1, HisVolume DEF OneVolume
<1>3. RecordOf(None) = empty_vtbl_record BY DEF RecordOf
<1> QED BY <1>1, <1>2, <1>3, EndSets

\* The end of a re-size: the volume has its new size.
LEMMA ResizeEndRam ==
    ASSUME HolderInv, NEW c \in Clients, ResizeEnd(c)
    PROVE  SetRam(job[c].vol, [Ram(job[c].vol) EXCEPT !.size = job[c].rec.size])
<1> DEFINE u == job[c].vol
           s == job[c].rec.size
           r == vols[u]
           q == [r EXCEPT !.size = s]
<1>1. pc[c] = "apply" /\ job[c].op = "resize" /\ Ends(c, [vols EXCEPT ![u].size = s]) BY DEF ResizeEnd
<1>2. u \in Vols /\ r \in Volumes BY <1>1, HisVolume DEF OneVolume
<1>a. job[c].rec \in Records /\ s > 0 BY <1>1 DEF HolderInv, JobInv, JobRule
<1>3. s \in 1 .. MaxSize BY <1>a, VolSizes DEF Records
<1>4. Ends(c, [vols EXCEPT ![u] = q]) BY <1>1
<1>5. q \in Volumes /\ q.use = r.use /\ q.refs = r.refs /\ RecordOf(q) = [RecordOf(r) EXCEPT !.size = s]
  <2>1. q = [r EXCEPT !.size = s] OBVIOUS
  <2> HIDE DEF q, r, s
  <2> QED BY <1>2, <1>3, <2>1, VolumeSize
<1> HIDE DEF q, u, s
<1>6. SetRam(u, RecordOf(q)) BY <1>2, <1>4, <1>5, EndSets
<1> QED BY <1>5, <1>6 DEF Ram, u, s

\* A removal that fails at the LEBs leaves what the volume says of itself.
LEMMA UnmapFailsRam ==
    ASSUME HolderInv, NEW c \in Clients, UnmapFails(c)
    PROVE  KeepRam
BY ListedKeeps DEF UnmapFails

\* The end of an update, and of setting the marker.
LEMMA MarkedRam ==
    ASSUME HolderInv, NEW u \in Vols, vols[u] \in Volumes, NEW b \in BOOLEAN,
           vols' = [vols EXCEPT ![u].mark = b]
    PROVE  SetRam(u, [Ram(u) EXCEPT !.mark = b])
<1> DEFINE r == vols[u]
           q == [r EXCEPT !.mark = b]
<1>1. vols' = [vols EXCEPT ![u] = q] OBVIOUS
<1>2. q = [r EXCEPT !.mark = b] /\ r \in Volumes OBVIOUS
<1> HIDE DEF q, r
<1>3. q \in Volumes /\ RecordOf(q) = [RecordOf(r) EXCEPT !.mark = b] BY <1>2, VolumeMark
<1>4. SetRam(u, RecordOf(q)) BY <1>1, <1>3, ReplacedRam
<1> QED BY <1>3, <1>4 DEF Ram, r

\* The end of set_update_marker(): the volume has the marker.
LEMMA MarkEndRam ==
    ASSUME HolderInv, NEW c \in Clients, MarkEnd(c)
    PROVE  SetRam(job[c].vol, [Ram(job[c].vol) EXCEPT !.mark = TRUE])
<1>1. job[c].vol \in Vols /\ vols[job[c].vol] \in Volumes BY HisVolume DEF MarkEnd, OneVolume
<1> DEFINE b == TRUE
<1>2. b \in BOOLEAN /\ vols' = [vols EXCEPT ![job[c].vol].mark = b] BY DEF MarkEnd
<1> HIDE DEF b
<1>3. SetRam(job[c].vol, [Ram(job[c].vol) EXCEPT !.mark = b]) BY <1>1, <1>2, MarkedRam
<1> QED BY <1>3 DEF b

\* The end of clear_update_marker(): the volume has none.
LEMMA ClearEndRam ==
    ASSUME HolderInv, NEW c \in Clients, ClearEnd(c)
    PROVE  SetRam(job[c].vol, [Ram(job[c].vol) EXCEPT !.mark = FALSE])
<1> DEFINE u == job[c].vol
           b == FALSE
           k == Only("rw")
           r == vols[u]
           q == Cleared(r, k, b)
<1>1. u \in Vols /\ r \in Volumes BY HisVolume DEF ClearEnd, OneVolume
<1>2. vols' = [vols EXCEPT ![u] = q] BY DEF ClearEnd, Cleared
<1>3. k \in [Modes -> Nat] /\ b \in BOOLEAN /\ q = Cleared(r, k, b) BY OnlyIs, ExIsMode
<1> HIDE DEF u, k, b, r, q
<1>4. q \in Volumes /\ RecordOf(q) = [RecordOf(r) EXCEPT !.mark = b] BY <1>1, <1>3, VolumeUpdated
<1>5. SetRam(u, RecordOf(q)) BY <1>1, <1>2, <1>4, ReplacedRam
<1>6. SetRam(u, [Ram(u) EXCEPT !.mark = b]) BY <1>4, <1>5 DEF Ram, r
<1> QED BY <1>6 DEF u, b

\* A table that cannot be written changes at most the marker in RAM.
LEMMA TableFailsRam ==
    ASSUME HolderInv, NEW c \in Clients, TableFails(c)
    PROVE  \/ KeepRam
           \/ /\ job[c].op \in {"mark", "clear"} /\ job[c].vol \in Vols /\ pc[c] = "table"
              /\ SetRam(job[c].vol, [Ram(job[c].vol) EXCEPT !.mark = (job[c].op = "mark")])
<1> DEFINE op == job[c].op
<1>0. pc[c] \in {"flush", "table"} /\ (pc[c] = "flush" => op = "create")
  BY DEF TableFails, HolderInv, JobInv, JobRule
<1>1. CASE op = "remove"
  <2>1. Ends(c, [vols EXCEPT ![job[c].vol].listed = TRUE]) BY <1>1 DEF TableFails
  <2> QED BY <1>0, <1>1, <2>1, ListedKeeps
<1>2. CASE op \in {"mark", "clear"}
  <2> DEFINE b == (op = "mark")
             u == job[c].vol
  <2>1. vols' = [vols EXCEPT ![u].mark = b]
    <3>1. op # "remove" BY <1>2
    <3> QED BY <1>2, <3>1 DEF TableFails
  <2>2. b \in BOOLEAN /\ u \in Vols /\ vols[u] \in Volumes BY <1>0, <1>2, HisVolume DEF OneVolume
  <2> HIDE DEF b
  <2>3. SetRam(u, [Ram(u) EXCEPT !.mark = b]) BY <2>1, <2>2, MarkedRam
  <2>4. pc[c] = "table" BY <1>0, <1>2
  <2> QED BY <1>2, <2>2, <2>3, <2>4 DEF b
<1>3. CASE op \notin {"remove", "mark", "clear"}
  <2>1. Ends(c, vols) BY <1>3 DEF TableFails
  <2> QED BY <2>1, EndKeeps
<1> QED BY <1>1, <1>2, <1>3

\* The volumes gone leave, and if none stays the others are re-named.
RenamedRam(j, gone) ==
    \A v \in Vols : Ram(v)' =
        IF v \in gone THEN empty_vtbl_record
        ELSE IF gone = j.drop /\ v \in DOMAIN j.names THEN [Ram(v) EXCEPT !.name = j.names[v]] ELSE Ram(v)

\* The end of a re-name: some volumes leave, the others are re-named.
LEMMA RenameEndRam ==
    ASSUME HolderInv, NEW c \in Clients, NEW gone \in SUBSET job[c].drop,
           pc[c] = "apply", job[c].op = "rename",
           Ends(c, [v \in Vols |->
                      IF v \in gone THEN None
                      ELSE IF gone = job[c].drop /\ v \in DOMAIN job[c].names
                           THEN [vols[v] EXCEPT !.name = job[c].names[v]] ELSE vols[v]])
    PROVE  RenamedRam(job[c], gone) /\ gone \subseteq Vols
<1> DEFINE j == job[c]
           vs == [v \in Vols |->
                      IF v \in gone THEN None
                      ELSE IF gone = j.drop /\ v \in DOMAIN j.names
                           THEN [vols[v] EXCEPT !.name = j.names[v]] ELSE vols[v]]
<1>0. HolderTypes BY DEF HolderInv
<1>1. \A v \in Vols : desc[c][v] = IF v \in Listed(j) THEN "ex" ELSE None
  BY DEF HolderInv, JobInv, JobRule, Owns
<1>2. gone \subseteq Listed(j) /\ DOMAIN j.names \subseteq Listed(j) BY DEF Listed
<1>3. Listed(j) \subseteq Vols /\ \A v \in DOMAIN j.names : j.names[v] \in Names
  BY <1>0, Unchanged, JobTyped
<1>4. Ends(c, vs) OBVIOUS
<1>5. \A v \in Vols : vs[v] = IF v \in gone THEN None
                              ELSE IF gone = j.drop /\ v \in DOMAIN j.names
                                   THEN [vols[v] EXCEPT !.name = j.names[v]] ELSE vols[v]
  OBVIOUS
<1> HIDE DEF vs
<1>6. \A v \in Vols : v \in DOMAIN j.names /\ v \notin gone /\ gone = j.drop =>
         /\ vs[v] \in Volumes /\ vs[v].use = vols[v].use /\ vs[v].refs = vols[v].refs
         /\ RecordOf(vs[v]) = [Ram(v) EXCEPT !.name = j.names[v]]
  <2> SUFFICES ASSUME NEW v \in Vols, v \in DOMAIN j.names, v \notin gone, gone = j.drop
               PROVE  /\ vs[v] \in Volumes /\ vs[v].use = vols[v].use /\ vs[v].refs = vols[v].refs
                      /\ RecordOf(vs[v]) = [Ram(v) EXCEPT !.name = j.names[v]]
    OBVIOUS
  <2> DEFINE r == vols[v]
             n == j.names[v]
             q == vs[v]
  <2>1. n \in Names /\ q = [r EXCEPT !.name = n] BY <1>3, <1>5
  <2>2. desc[c][v] = "ex" BY <1>1, <1>2
  <2>3. r \in Volumes BY <2>2, Exclusive
  <2> HIDE DEF r, n, q
  <2>4. q \in Volumes /\ q.use = r.use /\ q.refs = r.refs /\ RecordOf(q) = [RecordOf(r) EXCEPT !.name = n]
    BY <2>1, <2>3, VolumeName
  <2> QED BY <2>4 DEF r, n, q, Ram
<1>7. SameUsers(c, vs)
  <2> SUFFICES ASSUME NEW v \in Vols, vs[v] # None, desc[c][v] # None
               PROVE  vs[v] \in Volumes /\ vs[v].use = vols[v].use /\ vs[v].refs = vols[v].refs
    BY DEF SameUsers
  <2>1. v \notin gone BY <1>5
  <2>2. CASE gone = j.drop /\ v \in DOMAIN j.names BY <1>6, <2>1, <2>2
  <2>3. CASE ~(gone = j.drop /\ v \in DOMAIN j.names) BY <1>5, <2>1, <2>3, VolumeOf
  <2> QED BY <2>2, <2>3
<1>8. \A v \in Vols : Ram(v)' = RecordOf(vs[v]) BY <1>4, <1>7, EndRam
<1>9. RecordOf(None) = empty_vtbl_record BY DEF RecordOf
<1>10. \A v \in Vols : RecordOf(vs[v]) =
        IF v \in gone THEN empty_vtbl_record
        ELSE IF gone = j.drop /\ v \in DOMAIN j.names THEN [Ram(v) EXCEPT !.name = j.names[v]] ELSE Ram(v)
  <2> SUFFICES ASSUME NEW v \in Vols
               PROVE RecordOf(vs[v]) =
        IF v \in gone THEN empty_vtbl_record
        ELSE IF gone = j.drop /\ v \in DOMAIN j.names THEN [Ram(v) EXCEPT !.name = j.names[v]] ELSE Ram(v)
    OBVIOUS
  <2>1. CASE v \in gone BY <1>5, <1>9, <2>1
  <2>2. CASE v \notin gone /\ gone = j.drop /\ v \in DOMAIN j.names BY <1>6, <2>2
  <2>3. CASE v \notin gone /\ ~(gone = j.drop /\ v \in DOMAIN j.names) BY <1>5, <2>3 DEF Ram
  <2> QED BY <2>1, <2>2, <2>3
<1> QED BY <1>2, <1>3, <1>8, <1>10 DEF RenamedRam

\* Every other step of a process leaves what the volumes say of themselves.
Changes(c) == CreateEnd(c) \/ RemoveEnd(c) \/ ResizeEnd(c) \/ RenameEnd(c) \/ MarkEnd(c) \/ ClearEnd(c) \/ TableFails(c)

\* Only the end of an operation changes what the volumes say of themselves.
LEMMA ClientRam ==
    ASSUME HolderInv, NEW c \in Clients, Client(c)
    PROVE  KeepRam \/ Changes(c)
<1>1. CASE vols' = vols BY <1>1 DEF KeepRam, Ram
<1>2. CASE \/ \E v \in Vols, m \in Modes : Open(c, v, m)
           \/ \E v \in Vols : Remove(c, v)
           \/ \E v \in Vols, s \in 1 .. MaxSize : Exists(v) /\ Resize(c, v, s)
           \/ \E v \in Vols : RenameOpen(c, v)
           \/ RenameOpenNamed(c)
  BY <1>2, OpeningKeeps
<1>3. CASE (\E v \in Vols : ShowStart(c, v)) \/ ShowEnd(c) BY <1>3, ShowKeeps
<1>4. CASE Close(c) BY <1>4, CloseKeeps
<1>5. CASE \E v \in Vols : UpdateStart(c, v) BY <1>5, UpdateStartKeeps
<1>6. CASE LockRemove(c) BY <1>6, LockRemoveKeeps
<1>7. CASE GiveUp(c) \/ RenameBusy(c) BY <1>7, GiveUpKeeps
<1>8. CASE UnmapFails(c) BY <1>8, UnmapFailsRam
<1>9. \/ vols' = vols
      \/ \E v \in Vols, m \in Modes : Open(c, v, m)
      \/ \E v \in Vols : Remove(c, v)
      \/ \E v \in Vols, s \in 1 .. MaxSize : Exists(v) /\ Resize(c, v, s)
      \/ \E v \in Vols : RenameOpen(c, v)
      \/ RenameOpenNamed(c)
      \/ (\E v \in Vols : ShowStart(c, v)) \/ ShowEnd(c) \/ Close(c)
      \/ (\E v \in Vols : UpdateStart(c, v)) \/ LockRemove(c) \/ GiveUp(c) \/ RenameBusy(c)
      \/ UnmapFails(c) \/ Changes(c)
  BY DEF Client, Changes, Write, Unmap, CreateStart, CreateFlush, LockResize, RenameStart, RenameFind,
         LockRename, UpdateWrite, UpdateWipe, UpdateFlush, LockMark, TableStep
<1> QED BY <1>1, <1>2, <1>3, <1>4, <1>5, <1>6, <1>7, <1>8, <1>9

-----------------------------------------------------------------------------
(*****************************************************************************)
(* PEBs: every good one is available, reserved or a volume's.                *)
(*****************************************************************************)

\* The LEBs of all volumes.
Sizes == [v \in Vols |-> Ram(v).size]
Total == SumFunctionOnSet(Sizes, Vols)

\* The sum of the sizes of the volumes.
LEMMA TotalIs ==
    ASSUME HolderInv
    PROVE  /\ Total = TotalSize([v \in Vols |-> RecordOf(vols[v])])
           /\ Total \in Nat
           /\ \A v \in Vols : Ram(v) \in Records /\ Sizes[v] = Ram(v).size /\ Ram(v).size \in Nat
<1>1. \A v \in Vols : Ram(v) \in Records
  BY RecordOfTyped DEF Ram, HolderInv, HolderTypes
<1>2. \A v \in Vols : Ram(v).size \in Nat BY <1>1, RecordTyped
<1>3. \A v \in Vols : Sizes[v] = Ram(v).size BY DEF Sizes
<1>4. Total \in Nat BY <1>2, <1>3, VolSizes, SumNat DEF Total
<1>5. Sizes = [v \in Vols |-> [w \in Vols |-> RecordOf(vols[w])][v].size] BY DEF Sizes, Ram
<1>6. Total = TotalSize([v \in Vols |-> RecordOf(vols[v])]) BY <1>5 DEF Total, TotalSize
<1> QED BY <1>1, <1>2, <1>3, <1>4, <1>6

\* It stays when the volumes stay.
LEMMA TotalKept ==
    ASSUME KeepRam
    PROVE  Total' = Total
<1>1. Sizes' = Sizes BY DEF Sizes, KeepRam
<1>2. Total' = SumFunctionOnSet(Sizes', Vols) BY DEF Total
<1> QED BY <1>1, <1>2 DEF Total

\* It changes with the one volume that changes.
LEMMA TotalSet ==
    ASSUME HolderInv, NEW u \in Vols, NEW r \in Records, SetRam(u, r)
    PROVE  Total' = Total - Ram(u).size + r.size
<1>1. \A v \in Vols : Sizes'[v] = IF v = u THEN r.size ELSE Ram(v).size BY DEF Sizes, SetRam
<1>2. \A v \in Vols : Sizes[v] = Ram(v).size /\ Ram(v).size \in Nat BY TotalIs
<1>3. r.size \in Nat BY RecordTyped
<1>4. Total' = SumFunctionOnSet(Sizes', Vols) BY DEF Total
<1> DEFINE S == Sizes'
           T == Sizes
<1>5. \A x \in Vols : T[x] \in Nat /\ S[x] \in Nat BY <1>1, <1>2, <1>3
<1>8. \A x \in Vols \ {u} : T[x] = S[x] BY <1>1, <1>2
<1>9. IsFiniteSet(Vols) BY VolSizes
<1>6. T[u] = Ram(u).size /\ S[u] = r.size BY <1>1, <1>2
<1> HIDE DEF S, T
<1>7. SumFunctionOnSet(S, Vols) = SumFunctionOnSet(T, Vols) - T[u] + S[u]
  BY <1>5, <1>8, <1>9, SumChange
<1> QED BY <1>4, <1>6, <1>7 DEF S, T, Total

\* The PEBs of the volumes that leave.
LEMMA TotalGone ==
    ASSUME HolderInv, NEW j \in Jobs, NEW gone \in SUBSET Vols, RenamedRam(j, gone),
           \A v \in gone : vols[v] \in Volumes
    PROVE  /\ Total' = Total - SumFunctionOnSet([w \in gone |-> vols[w].size], gone)
           /\ SumFunctionOnSet([w \in gone |-> vols[w].size], gone) \in Nat
<1> DEFINE S == Sizes'
           T == Sizes
           G == [w \in gone |-> vols[w].size]
           rest == Vols \ gone
<1>1. \A v \in Vols : T[v] = Ram(v).size /\ Ram(v).size \in Nat BY TotalIs
<1>2. \A v \in Vols : S[v] = IF v \in gone THEN 0 ELSE Ram(v).size
  <2> SUFFICES ASSUME NEW v \in Vols PROVE S[v] = IF v \in gone THEN 0 ELSE Ram(v).size OBVIOUS
  <2>1. S[v] = Ram(v)'.size BY DEF Sizes
  <2>2. Ram(v) \in Records BY TotalIs
  <2>3. \A n : [Ram(v) EXCEPT !.name = n].size = Ram(v).size BY <2>2 DEF Records
  <2>4. empty_vtbl_record.size = 0 BY DEF empty_vtbl_record
  <2> QED BY <2>1, <2>3, <2>4 DEF RenamedRam
<1>3. \A v \in gone : G[v] = T[v]
  <2> SUFFICES ASSUME NEW v \in gone PROVE vols[v].size = Sizes[v] OBVIOUS
  <2>1. vols[v] # None BY VolNone
  <2> QED BY <1>1, <2>1 DEF Ram, RecordOf
<1>4. Total' = SumFunctionOnSet(S, Vols) /\ Total = SumFunctionOnSet(T, Vols) BY DEF Total
<1>5. \A x \in Vols : T[x] \in Nat /\ S[x] \in Nat BY <1>1, <1>2
<1>6. \A x \in rest : S[x] = T[x] BY <1>1, <1>2
<1>7. IsFiniteSet(gone) /\ IsFiniteSet(rest) BY VolSizes, FS_Subset
<1>8. \A x \in gone : S[x] = 0 BY <1>2
<1> DEFINE Z == [x \in gone |-> 0]
<1> HIDE DEF S, T, G
<1>9. SumFunctionOnSet(T, Vols) = SumFunctionOnSet(T, gone) + SumFunctionOnSet(T, rest)
  BY <1>5, VolSizes, SumSplit
<1>10. SumFunctionOnSet(S, Vols) = SumFunctionOnSet(S, gone) + SumFunctionOnSet(S, rest)
  BY <1>5, VolSizes, SumSplit
<1>11. SumFunctionOnSet(S, rest) = SumFunctionOnSet(T, rest) BY <1>6, <1>7, SumSame
<1>12. SumFunctionOnSet(G, gone) = SumFunctionOnSet(T, gone) BY <1>3, <1>7, SumSame
<1>13. SumFunctionOnSet(S, gone) = 0 BY <1>7, <1>8, SumZero
<1>14. SumFunctionOnSet(T, gone) \in Nat /\ SumFunctionOnSet(T, rest) \in Nat BY <1>5, <1>7, SumNat
<1>15. Total' = Total - SumFunctionOnSet(G, gone)
  BY <1>4, <1>9, <1>10, <1>11, <1>12, <1>13, <1>14
<1> QED BY <1>12, <1>14, <1>15 DEF G

\* ubi_update_reserved() moves PEBs, it neither makes nor loses one.
LEMMA ToppedIs ==
    ASSUME NEW a \in Nat, NEW b \in Nat, NEW level \in Nat
    PROVE  /\ Topped(a, b, level).avail \in Nat /\ Topped(a, b, level).beb \in Nat
           /\ Topped(a, b, level).avail + Topped(a, b, level).beb = a + b
           /\ Topped(a, b, level).beb >= b
<1> DEFINE m == Min({level - b, a})
           n == Max({0, m})
<1>1. m = IF level - b <= a THEN level - b ELSE a
  <2>1. level - b \in Int /\ a \in Int OBVIOUS
  <2> QED BY <2>1, MinTwo
<1>2. m \in Int /\ m <= a BY <1>1
<1> HIDE DEF m
<1>3. n = IF 0 >= m THEN 0 ELSE m
  <2>1. 0 \in Int OBVIOUS
  <2> QED BY <1>2, <2>1, MaxTwo
<1>4. n \in Nat /\ n <= a BY <1>2, <1>3
<1> HIDE DEF n
<1>5. Topped(a, b, level) = [avail |-> a - n, beb |-> b + n] BY DEF Topped, n, m
<1>6. Topped(a, b, level).avail = a - n /\ Topped(a, b, level).beb = b + n BY <1>5
<1>7. a - n \in Nat /\ b + n \in Nat /\ (a - n) + (b + n) = a + b /\ b + n >= b BY <1>4
<1> QED BY <1>6, <1>7

\* PEBs that come back are available, or reserved for bad PEBs.
LEMMA ReturnedIs ==
    ASSUME avail \in Nat, beb \in Nat, NEW n \in Nat, Returned(n)
    PROVE  avail' \in Nat /\ beb' \in Nat /\ avail' + beb' = avail + beb + n /\ good' = good
<1> DEFINE a == avail + n
           r == Topped(a, beb, BebLevel)
<1>1. a \in Nat /\ BebLevel \in Nat BY VolSizes
<1> HIDE DEF a
<1>2. r.avail \in Nat /\ r.beb \in Nat /\ r.avail + r.beb = a + beb BY <1>1, ToppedIs
<1>3. avail' = r.avail /\ beb' = r.beb /\ good' = good BY DEF Returned, a
<1> HIDE DEF r
<1> QED BY <1>2, <1>3 DEF a

Grown(j) == Max({0, j.rec.size - Ram(j.vol).size})

\* PEBs that process c has taken for the volume it creates or re-sizes.
TakenBy(c) ==
    IF job[c].op = "create" THEN job[c].rec.size
    ELSE IF job[c].op = "resize" THEN Grown(job[c]) ELSE 0

PebTypes == avail \in Nat /\ beb \in Nat /\ good \in Nat

\* Every good PEB has its place, also while an operation is under way.
Balanced ==
    dev = "on" =>
        /\ mutex = None => avail + beb + Fixed + Total = good
        /\ \A c \in Clients : mutex = c => avail + beb + TakenBy(c) + Fixed + Total = good

PebInv == PebTypes /\ Balanced

\* The PEBs of a re-size, by the volume or by what it says of itself.
LEMMA GrowthIs ==
    ASSUME HolderInv, NEW c \in Clients, pc[c] \in {"lock", "table", "apply"}, job[c].op = "resize"
    PROVE  /\ job[c].rec.size \in Nat /\ vols[job[c].vol].size \in Nat
           /\ Ram(job[c].vol).size = vols[job[c].vol].size
           /\ Growth(job[c]) = Grown(job[c])
           /\ Growth(job[c]) = IF job[c].rec.size > vols[job[c].vol].size
                               THEN job[c].rec.size - vols[job[c].vol].size ELSE 0
<1> DEFINE s == job[c].rec.size
           k == vols[job[c].vol].size
<1>1. s \in Nat
  <2>1. job[c].rec \in Records BY DEF HolderInv, JobInv, JobRule
  <2> QED BY <2>1, RecordTyped
<1>2. k \in Nat /\ Ram(job[c].vol).size = k
  <2>1. vols[job[c].vol] \in Volumes /\ Ram(job[c].vol).size = k BY HisVolume DEF OneVolume
  <2> QED BY <2>1 DEF Volumes
<1>3. Growth(job[c]) = Max({0, s - k}) BY DEF Growth
<1>7. Grown(job[c]) = Growth(job[c]) BY <1>2 DEF Growth, Grown
<1> HIDE DEF s, k
<1>4. 0 \in Int /\ s - k \in Int BY <1>1, <1>2
<1>5. Max({0, s - k}) = IF 0 >= s - k THEN 0 ELSE s - k BY <1>4, MaxTwo
<1>6. Growth(job[c]) = IF s > k THEN s - k ELSE 0 BY <1>1, <1>2, <1>3, <1>5
<1> QED BY <1>1, <1>2, <1>6, <1>7 DEF s, k

\* No operation takes less than no PEB.
LEMMA TakenTyped ==
    ASSUME HolderInv, NEW c \in Clients, HasMutex(pc[c])
    PROVE  TakenBy(c) \in Nat
<1>1. CASE job[c].op = "create"
  <2>1. job[c].rec \in Records BY <1>1 DEF HolderInv, JobInv, JobRule, HasMutex
  <2> QED BY <1>1, <2>1, RecordTyped DEF TakenBy
<1>2. CASE job[c].op = "resize"
  <2>1. pc[c] \in {"lock", "table", "apply"}
    BY <1>2 DEF HolderInv, JobInv, JobRule, HasMutex
  <2> DEFINE s == job[c].rec.size
             k == vols[job[c].vol].size
             g == Growth(job[c])
  <2>2. s \in Nat /\ k \in Nat /\ g = IF s > k THEN s - k ELSE 0 BY <1>2, <2>1, GrowthIs
  <2> HIDE DEF s, k, g
  <2>3. g \in Nat BY <2>2
  <2>4. g = Grown(job[c]) BY <1>2, <2>1, GrowthIs DEF g
  <2> QED BY <1>2, <2>3, <2>4 DEF TakenBy
<1>3. CASE job[c].op \notin {"create", "resize"} BY <1>3 DEF TakenBy
<1> QED BY <1>1, <1>2, <1>3

\* The processes other than c stay where they are.
Others(c) == \A d \in Clients \ {c} : pc'[d] = pc[d] /\ job'[d] = job[d] /\ desc'[d] = desc[d]

\* A step that moves one process leaves the others.
LEMMA MovedOthers ==
    ASSUME HolderTypes, NEW c \in Clients,
           pc' = pc \/ \E p : pc' = [pc EXCEPT ![c] = p],
           job' = job \/ \E j : job' = [job EXCEPT ![c] = j],
           desc' = desc \/ \E D : desc' = [desc EXCEPT ![c] = D]
    PROVE  Others(c)
<1>1. \A d \in Clients \ {c} : pc'[d] = pc[d] BY DEF HolderTypes
<1>2. \A d \in Clients \ {c} : job'[d] = job[d] BY DEF HolderTypes
<1>3. \A d \in Clients \ {c} : desc'[d] = desc[d] BY DEF HolderTypes
<1> QED BY <1>1, <1>2, <1>3 DEF Others

\* Every step of a process leaves the others.
LEMMA ClientOthers ==
    ASSUME HolderInv, NEW c \in Clients, Client(c)
    PROVE  Others(c)
<1>0. HolderTypes BY DEF HolderInv
<1> DEFINE P == pc' = pc \/ \E p : pc' = [pc EXCEPT ![c] = p]
           J == job' = job \/ \E j : job' = [job EXCEPT ![c] = j]
           D == desc' = desc \/ \E m : desc' = [desc EXCEPT ![c] = m]
<1>1. CASE \/ \E v \in Vols, m \in Modes : Open(c, v, m)
           \/ Close(c) \/ (\E v \in Vols : ShowStart(c, v)) \/ ShowEnd(c)
  <2>1. P /\ J BY <1>1 DEF Open, Close, ShowStart, ShowEnd
  <2>2. D BY <1>1 DEF Open, Close, ShowStart, ShowEnd
  <2> QED BY <1>0, <2>1, <2>2, MovedOthers
<1>2. CASE \E v \in Vols, l \in Lebs : Write(c, v, l) \/ Unmap(c, v, l)
  BY <1>2 DEF Write, Unmap, Others
<1>3. CASE \/ \E v \in Vols, n \in Names, s \in 1 .. MaxSize : CreateStart(c, v, n, s)
           \/ CreateFlush(c) \/ CreateEnd(c)
  <2>1. P BY <1>3 DEF CreateStart, CreateFlush, CreateEnd, ChangeTable, Ends
  <2>2. J BY <1>3 DEF CreateStart, CreateFlush, CreateEnd, Ends
  <2>3. D BY <1>3 DEF CreateStart, CreateFlush, CreateEnd, Ends
  <2> QED BY <1>0, <2>1, <2>2, <2>3, MovedOthers
<1>4. CASE \/ \E v \in Vols : Remove(c, v)
           \/ \E v \in Vols, s \in 1 .. MaxSize : Exists(v) /\ Resize(c, v, s)
  <2>1. P BY <1>4 DEF Remove, Resize, Request
  <2>2. J BY <1>4 DEF Remove, Resize, Request
  <2>3. D BY <1>4 DEF Remove, Resize, Request
  <2> QED BY <1>0, <2>1, <2>2, <2>3, MovedOthers
<1>5. CASE LockRemove(c) \/ LockResize(c) \/ LockRename(c) \/ LockMark(c)
  <2>1. P /\ J /\ D BY <1>5 DEF LockRemove, LockResize, LockRename, LockMark, ChangeTable
  <2> QED BY <1>0, <2>1, MovedOthers
<1>6. CASE RemoveEnd(c) \/ ResizeEnd(c) \/ UnmapFails(c) \/ GiveUp(c) \/ RenameBusy(c) \/ RenameEnd(c)
  <2>1. \E vs : Ends(c, vs) BY <1>6 DEF RemoveEnd, ResizeEnd, UnmapFails, GiveUp, RenameBusy, RenameEnd
  <2>2. P /\ J /\ D BY <2>1 DEF Ends
  <2> QED BY <1>0, <2>2, MovedOthers
<1>7. CASE \/ \E f \in Requests : RenameStart(c, f)
           \/ \E v \in Vols : RenameOpen(c, v) \/ RenameFind(c, v)
           \/ RenameOpenNamed(c)
  <2>1. P BY <1>7 DEF RenameStart, RenameOpen, RenameFind, RenameOpenNamed
  <2>2. J BY <1>7 DEF RenameStart, RenameOpen, RenameFind, RenameOpenNamed
  <2>3. D BY <1>7 DEF RenameStart, RenameOpen, RenameFind, RenameOpenNamed
  <2> QED BY <1>0, <2>1, <2>2, <2>3, MovedOthers
<1>8. CASE (\E v \in Vols : UpdateStart(c, v)) \/ (\E l \in Lebs : UpdateWrite(c, l)) \/ UpdateWipe(c) \/ UpdateFlush(c)
  <2>1. P BY <1>8 DEF UpdateStart, UpdateWrite, UpdateWipe, UpdateFlush
  <2>2. J BY <1>8 DEF UpdateStart, UpdateWrite, UpdateWipe, UpdateFlush
  <2>3. D BY <1>8 DEF UpdateStart, UpdateWrite, UpdateWipe, UpdateFlush
  <2> QED BY <1>0, <2>1, <2>2, <2>3, MovedOthers
<1>9. CASE MarkEnd(c) \/ ClearEnd(c) \/ TableStep(c)
  <2>1. P BY <1>9 DEF MarkEnd, ClearEnd, TableStep
  <2>2. J BY <1>9 DEF MarkEnd, ClearEnd, TableStep
  <2>3. D BY <1>9 DEF MarkEnd, ClearEnd, TableStep
  <2> QED BY <1>0, <2>1, <2>2, <2>3, MovedOthers
<1>10. CASE TableFails(c)
  <2>1. CASE job[c].op = "remove"
    <3>1. \E vs : Ends(c, vs) BY <1>10, <2>1 DEF TableFails
    <3>2. P /\ J /\ D BY <3>1 DEF Ends
    <3> QED BY <1>0, <3>2, MovedOthers
  <2>2. CASE job[c].op \in {"mark", "clear"}
    <3>1. job[c].op # "remove" BY <2>2
    <3>2. P /\ J /\ D BY <1>10, <2>2, <3>1 DEF TableFails
    <3> QED BY <1>0, <3>2, MovedOthers
  <2>3. CASE job[c].op \notin {"remove", "mark", "clear"}
    <3>1. \E vs : Ends(c, vs) BY <1>10, <2>3 DEF TableFails
    <3>2. P /\ J /\ D BY <3>1 DEF Ends
    <3> QED BY <1>0, <3>2, MovedOthers
  <2> QED BY <2>1, <2>2, <2>3
<1> QED BY <1>1, <1>2, <1>3, <1>4, <1>5, <1>6, <1>7, <1>8, <1>9, <1>10 DEF Client

\* The holder of device_mutex is told by where it is.
LEMMA HolderIs ==
    ASSUME HolderInv, NEW c \in Clients
    PROVE  /\ mutex = c <=> HasMutex(pc[c])
           /\ HasMutex(pc[c]) => dev = "on" /\ \A d \in Clients : mutex = d => d = c
           /\ c # None
BY VolNone, ClientOn DEF HolderInv, MutexRule, HasMutex

\* What an operation has taken stays while its volume stays.
LEMMA TakenKept ==
    ASSUME HolderInv, NEW d \in Clients, HasMutex(pc[d]), job'[d] = job[d], KeepRam
    PROVE  TakenBy(d)' = TakenBy(d)
<1>1. CASE job[d].op = "resize"
  <2>1. job[d].vol \in Vols
    BY <1>1 DEF HolderInv, JobInv, JobRule, HasMutex, OneVolume
  <2>2. Ram(job[d].vol)' = Ram(job[d].vol) BY <2>1 DEF KeepRam
  <2> QED BY <1>1, <2>2 DEF TakenBy, Grown, Ram
<1>2. CASE job[d].op # "resize" BY <1>2 DEF TakenBy
<1> QED BY <1>1, <1>2

\* A step that leaves the PEBs alone.
LEMMA PebQuiet ==
    ASSUME HolderInv, PebInv, UNCHANGED <<pebs, dev, mutex>>, KeepRam,
           \A d \in Clients : mutex = d => job'[d] = job[d]
    PROVE  PebInv'
<1>1. Total' = Total BY TotalKept
<1>2. \A d \in Clients : mutex = d => TakenBy(d)' = TakenBy(d) BY TakenKept, HolderIs
<1>3. UNCHANGED <<avail, beb, good>> BY DEF pebs
<1> QED BY <1>1, <1>2, <1>3 DEF PebInv, PebTypes, Balanced

\* Process c takes device_mutex, and n PEBs.
LEMMA PebTake ==
    ASSUME HolderInv, PebInv, NEW c \in Clients, dev = "on", mutex = None, mutex' = c,
           NEW n \in Nat, n <= avail, avail' = avail - n, UNCHANGED <<beb, good>>, KeepRam,
           TakenBy(c)' = n
    PROVE  PebInv'
<1>1. Total' = Total /\ Total \in Nat BY TotalKept, TotalIs
<1>2. PebTypes /\ avail + beb + Fixed + Total = good BY DEF PebInv, Balanced
<1>3. PebTypes' BY <1>2 DEF PebTypes
<1>4. Fixed \in Nat BY VolSizes
<1>5. avail' + beb' + n + Fixed + Total' = good' BY <1>1, <1>2, <1>4 DEF PebTypes
<1>6. c # None BY HolderIs
<1> QED BY <1>3, <1>5, <1>6 DEF PebInv, Balanced

\* The arithmetic of an operation that has taken nothing and gives PEBs back.
LEMMA SumGives ==
    ASSUME NEW a \in Int, NEW b \in Int, NEW k \in Int, NEW t \in Int,
           NEW a1 \in Int, NEW b1 \in Int, NEW t1,
           a1 + b1 = a + b + k, t1 = t - k
    PROVE  t1 \in Int /\ a1 + b1 + t1 = a + b + 0 + t
OBVIOUS

\* Process c gives device_mutex back.
LEMMA PebGive ==
    ASSUME HolderInv, PebInv, NEW c \in Clients, HasMutex(pc[c]), mutex' = None,
           avail' \in Nat, beb' \in Nat, good' = good, Total' \in Int,
           avail' + beb' + Total' = avail + beb + TakenBy(c) + Total
    PROVE  PebInv'
<1>1. mutex = c /\ dev = "on" BY HolderIs
<1>2. PebTypes /\ avail + beb + TakenBy(c) + Fixed + Total = good BY <1>1 DEF PebInv, Balanced
<1>3. TakenBy(c) \in Nat /\ Fixed \in Nat /\ Total \in Nat BY TakenTyped, TotalIs, VolSizes
<1>4. PebTypes' BY <1>2 DEF PebTypes
<1>5. avail' + beb' + Fixed + Total' = good'
  <2>1. avail \in Int /\ beb \in Int /\ good \in Int BY <1>2 DEF PebTypes
  <2>2. avail' \in Int /\ beb' \in Int BY <1>4 DEF PebTypes
  <2>3. TakenBy(c) \in Int /\ Fixed \in Int /\ Total \in Int BY <1>3
  <2> DEFINE a == avail
             b == beb
             k == TakenBy(c)
             t == Total
             g == good
             f == Fixed
             a1 == avail'
             b1 == beb'
             t1 == Total'
  <2>4. a \in Int /\ b \in Int /\ k \in Int /\ t \in Int /\ g \in Int /\ f \in Int BY <2>1, <2>3
  <2>5. a1 \in Int /\ b1 \in Int /\ t1 \in Int BY <2>2
  <2>6. a1 + b1 + t1 = a + b + k + t OBVIOUS
  <2>7. a + b + k + f + t = g BY <1>2
  <2> HIDE DEF a, b, k, t, g, f, a1, b1, t1
  <2>8. a1 + b1 + f + t1 = g BY <2>4, <2>5, <2>6, <2>7
  <2> QED BY <2>8 DEF a1, b1, f, t1, g
<1>6. \A d \in Clients : d # None BY VolNone
<1> QED BY <1>4, <1>5, <1>6 DEF PebInv, Balanced

\* A change of the update marker leaves the sizes.
LEMMA SizeKept ==
    ASSUME HolderInv, NEW u \in Vols, NEW b \in BOOLEAN, SetRam(u, [Ram(u) EXCEPT !.mark = b])
    PROVE  Total' = Total /\ Total \in Nat
<1> DEFINE r == Ram(u)
           q == [r EXCEPT !.mark = b]
<1>1. r \in Records /\ r.size \in Nat /\ Total \in Nat BY TotalIs
<1>2. q \in Records /\ q.size = r.size
  <2> HIDE DEF r
  <2> QED BY <1>1 DEF Records
<1> HIDE DEF q
<1>3. Total' = Total - Ram(u).size + q.size BY <1>2, TotalSet DEF q
<1> QED BY <1>1, <1>2, <1>3

\* Only a creation and a re-size take PEBs.
LEMMA NothingTaken ==
    ASSUME NEW c \in Clients, job[c].op \notin {"create", "resize"}
    PROVE  TakenBy(c) = 0
BY DEF TakenBy

\* ubi_create_volume() reserves PEBs that are available.
LEMMA CreateStartPebs ==
    ASSUME HolderInv, PebInv, NEW c \in Clients, NEW v \in Vols, NEW n \in Names, NEW s \in 1 .. MaxSize,
           CreateStart(c, v, n, s)
    PROVE  PebInv'
<1>1. s \in Nat BY VolSizes
<1>2. dev = "on" /\ mutex = None /\ mutex' = c /\ s <= avail /\ avail' = avail - s /\ UNCHANGED <<beb, good>>
  BY DEF CreateStart, Idle, Enough
<1>3. KeepRam BY DEF CreateStart, KeepRam, Ram
<1> DEFINE r == [size |-> s, name |-> n, mark |-> FALSE]
           j == [NoJob EXCEPT !.op = "create", !.vol = v, !.rec = r]
<1>4. job'[c] = j BY DEF CreateStart, HolderInv, HolderTypes
<1>5. r.size = s OBVIOUS
<1> HIDE DEF r
<1>6. j.op = "create" /\ j.rec = r BY DEF NoJob
<1> HIDE DEF j
<1>7. TakenBy(c)' = s BY <1>4, <1>5, <1>6 DEF TakenBy
<1> QED BY <1>1, <1>2, <1>3, <1>7, PebTake

\* ubi_resize_volume() reserves the PEBs of a growth.
LEMMA LockResizePebs ==
    ASSUME HolderInv, PebInv, NEW c \in Clients, LockResize(c)
    PROVE  PebInv'
<1> DEFINE g == Growth(job[c])
           s == job[c].rec.size
           k == vols[job[c].vol].size
<1>1. pc[c] = "lock" /\ job[c].op = "resize" /\ mutex = None /\ mutex' = c
      /\ avail' = avail - g /\ UNCHANGED <<beb, good, vols, job>> /\ ~Refused(c)
  BY DEF LockResize, ChangeTable
<1>2. s \in Nat /\ k \in Nat /\ g = (IF s > k THEN s - k ELSE 0) /\ g = Grown(job[c])
  BY <1>1, GrowthIs
<1>3. s - k <= avail BY <1>1 DEF Refused, Enough
<1>4. dev = "on" BY <1>1, ClientOn
<1>5. KeepRam BY <1>1 DEF KeepRam, Ram
<1>6. TakenBy(c)' = g BY <1>1, <1>2 DEF TakenBy, Grown, Ram
<1>7. avail \in Nat BY DEF PebInv, PebTypes
<1> HIDE DEF g, s, k
<1>8. g \in Nat /\ g <= avail BY <1>2, <1>3, <1>7
<1> QED BY <1>1, <1>4, <1>5, <1>6, <1>8, PebTake

\* Other operations begin without PEBs.
LEMMA LockPebs ==
    ASSUME HolderInv, PebInv, NEW c \in Clients, LockRemove(c) \/ LockRename(c) \/ LockMark(c)
    PROVE  PebInv'
<1>1. pc[c] = "lock" /\ mutex = None /\ mutex' = c /\ UNCHANGED <<avail, beb, good, job>>
      /\ job[c].op \in {"remove", "rename", "mark", "clear"}
  BY DEF LockRemove, LockRename, LockMark, ChangeTable, pebs
<1>2. KeepRam
  <2>1. CASE LockRemove(c) BY <2>1, LockRemoveKeeps
  <2>2. CASE LockRename(c) \/ LockMark(c) BY <2>2 DEF LockRename, LockMark, KeepRam, Ram
  <2> QED BY <2>1, <2>2
<1>3. dev = "on" BY <1>1, ClientOn
<1>4. TakenBy(c)' = 0 BY <1>1 DEF TakenBy
<1>5. avail \in Nat BY DEF PebInv, PebTypes
<1> DEFINE n == 0
<1>6. n \in Nat /\ n <= avail /\ avail' = avail - n BY <1>1, <1>5
<1> HIDE DEF n
<1> QED BY <1>1, <1>2, <1>3, <1>4, <1>6, PebTake DEF n

\* The end of a creation: the PEBs reserved are those of the volume.
LEMMA CreateEndPebs ==
    ASSUME HolderInv, PebInv, NEW c \in Clients, CreateEnd(c)
    PROVE  PebInv'
<1> DEFINE u == job[c].vol
           r == job[c].rec
<1>1. /\ pc[c] = "apply" /\ job[c].op = "create" /\ mutex' = None /\ UNCHANGED <<avail, beb, good>>
  BY DEF CreateEnd, Unlock, pebs
<1>2. u \in Vols /\ r \in Records BY <1>1 DEF HolderInv, JobInv, JobRule
<1>3. SetRam(u, r) /\ Ram(u) = empty_vtbl_record BY CreateEndRam
<1>4. TakenBy(c) = r.size BY <1>1 DEF TakenBy
<1>5. HasMutex(pc[c]) BY <1>1 DEF HasMutex
<1> HIDE DEF u, r
<1>6. Total' = Total - Ram(u).size + r.size BY <1>2, <1>3, TotalSet
<1>7. Ram(u).size = 0 BY <1>3 DEF empty_vtbl_record
<1>8. Total \in Nat /\ r.size \in Nat BY <1>2, TotalIs, RecordTyped
<1>9. avail \in Nat /\ beb \in Nat BY DEF PebInv, PebTypes
<1>10. Total' \in Int /\ avail' + beb' + Total' = avail + beb + TakenBy(c) + Total
  BY <1>1, <1>4, <1>6, <1>7, <1>8, <1>9
<1> QED BY <1>1, <1>5, <1>9, <1>10, PebGive

\* The end of a removal: the PEBs of the volume come back.
LEMMA RemoveEndPebs ==
    ASSUME HolderInv, PebInv, NEW c \in Clients, RemoveEnd(c)
    PROVE  PebInv'
<1> DEFINE u == job[c].vol
           k == vols[u].size
<1>1. pc[c] = "apply" /\ job[c].op = "remove" /\ mutex' = None /\ Returned(k) BY DEF RemoveEnd, Unlock
<1>2. u \in Vols /\ vols[u] \in Volumes /\ Ram(u).size = k BY <1>1, HisVolume DEF OneVolume
<1>3. SetRam(u, empty_vtbl_record) BY RemoveEndRam
<1>4. TakenBy(c) = 0 BY <1>1, NothingTaken
<1>5. HasMutex(pc[c]) BY <1>1 DEF HasMutex
<1>6. Total \in Nat /\ k \in Nat BY <1>2, TotalIs
<1> HIDE DEF u, k
<1> DEFINE e == empty_vtbl_record
<1>7. e \in Records /\ e.size = 0 BY EmptyTyped DEF empty_vtbl_record
<1>8. SetRam(u, e) BY <1>3
<1> HIDE DEF e
<1>9. Total' = Total - Ram(u).size + e.size BY <1>2, <1>7, <1>8, TotalSet
<1>10. avail \in Nat /\ beb \in Nat BY DEF PebInv, PebTypes
<1>11. avail' \in Nat /\ beb' \in Nat /\ avail' + beb' = avail + beb + k /\ good' = good
  BY <1>1, <1>6, <1>10, ReturnedIs
<1>12. Total' = Total - k BY <1>2, <1>6, <1>7, <1>9
<1>13. Total' \in Int /\ avail' + beb' + Total' = avail + beb + TakenBy(c) + Total
  <2>1. avail \in Int /\ beb \in Int /\ k \in Int /\ Total \in Int BY <1>6, <1>10
  <2>2. avail' \in Int /\ beb' \in Int BY <1>11
  <2>3. avail' + beb' = avail + beb + k BY <1>11
  <2> DEFINE a1 == avail'
             b1 == beb'
             t1 == Total'
             t == Total
  <2>4. a1 \in Int /\ b1 \in Int /\ a1 + b1 = avail + beb + k /\ t1 = t - k /\ t \in Int
    BY <1>12, <2>1, <2>2, <2>3
  <2> HIDE DEF a1, b1, t1, t
  <2>5. t1 \in Int /\ a1 + b1 + t1 = avail + beb + 0 + t BY <2>1, <2>4
  <2> QED BY <1>4, <2>5 DEF a1, b1, t1, t
<1> QED BY <1>1, <1>5, <1>11, <1>13, PebGive

\* The end of a re-size: the PEBs of a growth are the volume's, those of a
\* reduction come back.
LEMMA ResizeEndPebs ==
    ASSUME HolderInv, PebInv, NEW c \in Clients, ResizeEnd(c)
    PROVE  PebInv'
<1> DEFINE u == job[c].vol
           s == job[c].rec.size
           k == vols[u].size
           r == [Ram(u) EXCEPT !.size = s]
<1>1. /\ pc[c] = "apply" /\ job[c].op = "resize" /\ mutex' = None
      /\ IF s < k THEN Returned(k - s) ELSE UNCHANGED pebs
  BY DEF ResizeEnd, Unlock
<1>2. u \in Vols /\ Ram(u) \in Records /\ Ram(u).size = k BY <1>1, HisVolume DEF OneVolume
<1>3. s \in Nat /\ k \in Nat /\ Growth(job[c]) = (IF s > k THEN s - k ELSE 0) /\ Growth(job[c]) = Grown(job[c])
  BY <1>1, GrowthIs
<1>4. SetRam(u, r) BY ResizeEndRam
<1>5. HasMutex(pc[c]) BY <1>1 DEF HasMutex
<1>6. TakenBy(c) = IF s > k THEN s - k ELSE 0 BY <1>1, <1>3 DEF TakenBy
<1>7. s \in 0 .. MaxSize
  <2>1. job[c].rec \in Records BY <1>1 DEF HolderInv, JobInv, JobRule
  <2> QED BY <2>1, RecordTyped
<1>8. r \in Records /\ r.size = s
  <2>1. r \in Records BY <1>2, <1>7, RecordTyped
  <2> QED BY <1>2, <2>1 DEF Records
<1> HIDE DEF r
<1>9. Total' = Total - Ram(u).size + r.size BY <1>2, <1>4, <1>8, TotalSet
<1>10. Total \in Nat /\ avail \in Nat /\ beb \in Nat BY TotalIs DEF PebInv, PebTypes
<1> HIDE DEF u, s, k
<1>11. Total' = Total - k + s BY <1>2, <1>8, <1>9
<1>12. CASE s < k
  <2>1. k - s \in Nat BY <1>3, <1>12
  <2>2. avail' \in Nat /\ beb' \in Nat /\ avail' + beb' = avail + beb + (k - s) /\ good' = good
    BY <1>1, <1>10, <1>12, <2>1, ReturnedIs
  <2>3. TakenBy(c) = 0 BY <1>3, <1>6, <1>12
  <2>4. Total' \in Int /\ avail' + beb' + Total' = avail + beb + TakenBy(c) + Total
    <3>1. avail \in Int /\ beb \in Int /\ k - s \in Int /\ Total \in Int BY <1>10, <2>1
    <3>2. avail' \in Int /\ beb' \in Int /\ avail' + beb' = avail + beb + (k - s) BY <2>2
    <3>3. Total' = Total - (k - s) BY <1>3, <1>10, <1>11
    <3>4. Total' \in Int /\ avail' + beb' + Total' = avail + beb + 0 + Total
      BY <3>1, <3>2, <3>3, SumGives
    <3> QED BY <2>3, <3>4
  <2> QED BY <1>1, <1>5, <2>2, <2>4, PebGive
<1>13. CASE ~(s < k)
  <2>1. avail' = avail /\ beb' = beb /\ good' = good BY <1>1, <1>13 DEF pebs
  <2>2. TakenBy(c) = s - k BY <1>3, <1>6, <1>13
  <2>3. Total' \in Int /\ avail' + beb' + Total' = avail + beb + TakenBy(c) + Total
    BY <1>3, <1>10, <1>11, <2>1, <2>2
  <2>4. avail' \in Nat /\ beb' \in Nat BY <1>10, <2>1
  <2> QED BY <1>1, <1>5, <2>1, <2>3, <2>4, PebGive
<1> QED BY <1>12, <1>13

\* Process c gives device_mutex back and the PEBs with it.
LEMMA PebReturn ==
    ASSUME HolderInv, PebInv, NEW c \in Clients, HasMutex(pc[c]), mutex' = None, Total' = Total,
           avail' = avail + TakenBy(c), UNCHANGED <<beb, good>>
    PROVE  PebInv'
<1>1. avail \in Nat /\ beb \in Nat /\ Total \in Nat /\ TakenBy(c) \in Nat
  BY TotalIs, TakenTyped DEF PebInv, PebTypes
<1> DEFINE a == avail
           k == TakenBy(c)
           t == Total
<1>2. a \in Nat /\ k \in Nat /\ t \in Nat /\ beb \in Nat BY <1>1
<1> HIDE DEF a, k, t
<1>3. a + k \in Nat /\ (a + k) + beb + t = a + beb + k + t /\ t \in Int BY <1>2
<1>4. avail' = a + k /\ Total' = t BY DEF a, k, t
<1>5. avail' \in Nat /\ Total' \in Int /\ avail' + beb' + Total' = avail + beb + TakenBy(c) + Total
  BY <1>3, <1>4 DEF a, k, t
<1>6. beb' \in Nat /\ good' = good BY <1>1
<1> QED BY <1>5, <1>6, PebGive

\* A table that cannot be written: the PEBs reserved come back.
LEMMA TableFailsPebs ==
    ASSUME HolderInv, PebInv, NEW c \in Clients, TableFails(c)
    PROVE  PebInv'
<1> DEFINE op == job[c].op
<1>1. pc[c] \in {"flush", "table"} /\ (pc[c] = "flush" => op = "create") /\ mutex' = None /\ UNCHANGED <<beb, good>>
      /\ avail' = avail + (CASE op = "create" -> job[c].rec.size
                             [] op = "resize" -> Growth(job[c])
                             [] OTHER -> 0)
  BY DEF TableFails, HolderInv, JobInv, JobRule
<1>2. avail' = avail + TakenBy(c)
  <2>1. CASE op = "create" BY <1>1, <2>1 DEF TakenBy
  <2>2. CASE op = "resize"
    <3>1. Growth(job[c]) = Grown(job[c]) BY <1>1, <2>2, GrowthIs
    <3> QED BY <1>1, <2>2, <3>1 DEF TakenBy
  <2>3. CASE op \notin {"create", "resize"} BY <1>1, <2>3 DEF TakenBy
  <2> QED BY <2>1, <2>2, <2>3
<1>3. Total' = Total
  <2>1. CASE KeepRam BY <2>1, TotalKept
  <2>2. CASE ~KeepRam
    <3> DEFINE u == job[c].vol
               b == (op = "mark")
    <3>1. u \in Vols /\ b \in BOOLEAN /\ SetRam(u, [Ram(u) EXCEPT !.mark = b]) BY <2>2, TableFailsRam
    <3> HIDE DEF u, b
    <3> QED BY <3>1, SizeKept
  <2> QED BY <2>1, <2>2
<1>4. HasMutex(pc[c]) BY <1>1 DEF HasMutex
<1> QED BY <1>1, <1>2, <1>3, <1>4, PebReturn

\* The ends of the marker changes leave the PEBs.
LEMMA MarkPebs ==
    ASSUME HolderInv, PebInv, NEW c \in Clients, MarkEnd(c) \/ ClearEnd(c)
    PROVE  PebInv'
<1> DEFINE u == job[c].vol
           b == (job[c].op = "mark")
<1>1. pc[c] = "apply" /\ job[c].op \in {"mark", "clear"} /\ mutex' = None /\ UNCHANGED <<avail, beb, good>>
  BY DEF MarkEnd, ClearEnd, Unlock, pebs
<1>2. SetRam(u, [Ram(u) EXCEPT !.mark = b]) /\ b \in BOOLEAN
  <2>1. CASE MarkEnd(c)
    <3>1. b = TRUE BY <2>1 DEF MarkEnd
    <3> QED BY <2>1, <3>1, MarkEndRam
  <2>2. CASE ClearEnd(c)
    <3>1. b = FALSE BY <2>2 DEF ClearEnd
    <3> QED BY <2>2, <3>1, ClearEndRam
  <2> QED BY <2>1, <2>2
<1>3. u \in Vols BY <1>1, HisVolume DEF OneVolume
<1> HIDE DEF b, u
<1>4. Total' = Total BY <1>2, <1>3, SizeKept
<1>5. TakenBy(c) = 0 BY <1>1, NothingTaken
<1>6. avail \in Nat BY DEF PebInv, PebTypes
<1>7. avail' = avail + TakenBy(c) BY <1>1, <1>5, <1>6
<1>8. HasMutex(pc[c]) BY <1>1 DEF HasMutex
<1> QED BY <1>1, <1>4, <1>7, <1>8, PebReturn

\* A removal that fails at the LEBs: the volume keeps its PEBs.
LEMMA UnmapFailsPebs ==
    ASSUME HolderInv, PebInv, NEW c \in Clients, UnmapFails(c)
    PROVE  PebInv'
<1>1. pc[c] = "apply" /\ job[c].op \in {"remove", "resize"} /\ mutex' = None /\ UNCHANGED <<avail, beb, good>>
  BY DEF UnmapFails, Unlock, pebs
<1>2. Total' = Total BY UnmapFailsRam, TotalKept
<1>3. TakenBy(c) = 0
  <2>1. CASE job[c].op = "remove" BY <2>1, NothingTaken
  <2>2. CASE job[c].op = "resize"
    <3> DEFINE s == job[c].rec.size
               k == vols[job[c].vol].size
               g == Growth(job[c])
    <3>1. \E l \in s .. k - 1 : TRUE BY <2>2 DEF UnmapFails
    <3>2. s \in Nat /\ k \in Nat /\ g = (IF s > k THEN s - k ELSE 0) /\ TakenBy(c) = g
      BY <1>1, <2>2, GrowthIs DEF TakenBy
    <3> HIDE DEF s, k, g
    <3>3. s <= k - 1 BY <3>1, <3>2
    <3> QED BY <3>2, <3>3
  <2> QED BY <1>1, <2>1, <2>2
<1>4. avail \in Nat BY DEF PebInv, PebTypes
<1>5. avail' = avail + TakenBy(c) BY <1>1, <1>3, <1>4
<1>6. HasMutex(pc[c]) BY <1>1 DEF HasMutex
<1> QED BY <1>1, <1>2, <1>5, <1>6, PebReturn

\* The end of a re-name: the PEBs of the volumes removed come back.
LEMMA RenameEndPebs ==
    ASSUME HolderInv, PebInv, NEW c \in Clients, RenameEnd(c)
    PROVE  PebInv'
<1>1. PICK gone \in SUBSET job[c].drop :
        /\ Returned(SumFunctionOnSet([w \in gone |-> vols[w].size], gone))
        /\ Ends(c, [v \in Vols |->
                      IF v \in gone THEN None
                      ELSE IF gone = job[c].drop /\ v \in DOMAIN job[c].names
                           THEN [vols[v] EXCEPT !.name = job[c].names[v]] ELSE vols[v]])
  BY DEF RenameEnd
<1>2. pc[c] = "apply" /\ job[c].op = "rename" /\ mutex' = None BY DEF RenameEnd, Unlock
<1>3. RenamedRam(job[c], gone) /\ gone \subseteq Vols BY <1>1, <1>2, RenameEndRam
<1>4. \A v \in gone : vols[v] \in Volumes
  <2>1. \A v \in gone : desc[c][v] = "ex" BY <1>2, <1>3 DEF HolderInv, JobInv, JobRule, Owns, Listed
  <2> QED BY <1>3, <2>1, Exclusive
<1>5. job[c] \in Jobs BY DEF HolderInv, HolderTypes
<1> DEFINE n == SumFunctionOnSet([w \in gone |-> vols[w].size], gone)
<1>6. Total' = Total - n /\ n \in Nat BY <1>3, <1>4, <1>5, TotalGone
<1>7. Returned(n) BY <1>1
<1> HIDE DEF n
<1>8. avail \in Nat /\ beb \in Nat /\ Total \in Nat BY TotalIs DEF PebInv, PebTypes
<1>9. avail' \in Nat /\ beb' \in Nat /\ avail' + beb' = avail + beb + n /\ good' = good
  BY <1>6, <1>7, <1>8, ReturnedIs
<1>10. TakenBy(c) = 0 BY <1>2, NothingTaken
<1>11. Total' \in Int /\ avail' + beb' + Total' = avail + beb + TakenBy(c) + Total
  <2> DEFINE a1 == avail'
             b1 == beb'
             t1 == Total'
             t == Total
  <2>1. a1 \in Int /\ b1 \in Int /\ t \in Int /\ n \in Int BY <1>6, <1>8, <1>9
  <2>3. a1 + b1 = avail + beb + n BY <1>9
  <2>4. t1 = t - n BY <1>6
  <2> HIDE DEF a1, b1, t1, t
  <2>2. t1 \in Int /\ a1 + b1 + t1 = avail + beb + 0 + t BY <1>8, <2>1, <2>3, <2>4
  <2> QED BY <1>10, <2>2 DEF a1, b1, t1, t
<1>12. HasMutex(pc[c]) BY <1>2 DEF HasMutex
<1> QED BY <1>2, <1>9, <1>11, <1>12, PebGive

\* The steps that neither move PEBs nor end an operation.
LEMMA ClientPebs ==
    ASSUME HolderInv, PebInv, NEW c \in Clients, Client(c)
    PROVE  PebInv'
<1>1. CASE Changes(c)
  BY <1>1, CreateEndPebs, RemoveEndPebs, ResizeEndPebs, RenameEndPebs, MarkPebs, TableFailsPebs DEF Changes
<1>2. CASE LockRemove(c) \/ LockRename(c) \/ LockMark(c) BY <1>2, LockPebs
<1>3. CASE LockResize(c) BY <1>3, LockResizePebs
<1>4. CASE \E v \in Vols, n \in Names, s \in 1 .. MaxSize : CreateStart(c, v, n, s)
  BY <1>4, CreateStartPebs
<1>5. CASE UnmapFails(c) BY <1>5, UnmapFailsPebs
<1>6. CASE CreateFlush(c) \/ TableStep(c)
  <2>1. KeepRam BY <1>6 DEF CreateFlush, TableStep, KeepRam, Ram
  <2>2. HasMutex(pc[c]) /\ UNCHANGED <<pebs, dev, job>>
    BY <1>6 DEF CreateFlush, TableStep, HasMutex
  <2>3. mutex = c BY <2>2, HolderIs
  <2>4. mutex' = mutex BY <1>6, <2>3 DEF CreateFlush, TableStep, ChangeTable
  <2> QED BY <2>1, <2>2, <2>4, PebQuiet
<1>7. CASE /\ ~Changes(c) /\ UNCHANGED <<pebs, dev, mutex>>
           /\ pc[c] \in {"idle", "show", "lock", "rnopen", "rnfind", "rnnamed", "wipe", "write"}
  <2>1. KeepRam BY <1>7, ClientRam
  <2>2. mutex # c BY <1>7, HolderIs DEF HasMutex
  <2>3. Others(c) BY ClientOthers
  <2>4. \A d \in Clients : mutex = d => job'[d] = job[d] BY <2>2, <2>3 DEF Others
  <2> QED BY <1>7, <2>1, <2>4, PebQuiet
<1> DEFINE Q == /\ UNCHANGED <<pebs, dev, mutex>>
                /\ pc[c] \in {"idle", "show", "lock", "rnopen", "rnfind", "rnnamed", "wipe", "write"}
<1>8. (\E v \in Vols, m \in Modes : Open(c, v, m)) \/ Close(c) \/ (\E v \in Vols : ShowStart(c, v)) \/ ShowEnd(c) => Q
  BY DEF Open, Close, ShowStart, ShowEnd, Idle
<1>9. (\E v \in Vols, l \in Lebs : Write(c, v, l) \/ Unmap(c, v, l)) => Q BY DEF Write, Unmap
<1>10. (\E v \in Vols : Remove(c, v)) \/ (\E v \in Vols, s \in 1 .. MaxSize : Exists(v) /\ Resize(c, v, s)) => Q
  BY DEF Remove, Resize, Request, Idle
<1>11. GiveUp(c) \/ RenameBusy(c) => Q BY DEF GiveUp, RenameBusy
<1>12. (\E f \in Requests : RenameStart(c, f)) \/ (\E v \in Vols : RenameOpen(c, v) \/ RenameFind(c, v))
       \/ RenameOpenNamed(c) => Q
  BY DEF RenameStart, RenameOpen, RenameFind, RenameOpenNamed, Idle
<1>13. (\E v \in Vols : UpdateStart(c, v)) \/ (\E l \in Lebs : UpdateWrite(c, l))
       \/ UpdateWipe(c) \/ UpdateFlush(c) => Q
  BY DEF UpdateStart, UpdateWrite, UpdateWipe, UpdateFlush
<1>14. Changes(c) \/ ~Changes(c) OBVIOUS
<1> HIDE DEF Q
<1>15. \/ Changes(c) \/ LockRemove(c) \/ LockRename(c) \/ LockMark(c) \/ LockResize(c) \/ UnmapFails(c)
       \/ CreateFlush(c) \/ TableStep(c)
       \/ \E v \in Vols, n \in Names, s \in 1 .. MaxSize : CreateStart(c, v, n, s)
       \/ Q
  BY <1>8, <1>9, <1>10, <1>11, <1>12, <1>13 DEF Client, Changes
<1>16. Q => /\ UNCHANGED <<pebs, dev, mutex>>
            /\ pc[c] \in {"idle", "show", "lock", "rnopen", "rnfind", "rnnamed", "wipe", "write"}
  BY DEF Q
<1> QED BY <1>1, <1>2, <1>3, <1>4, <1>5, <1>6, <1>7, <1>14, <1>15, <1>16

\* An attach finds in the table what the volumes say of themselves.
LEMMA AttachRam ==
    ASSUME NEW t \in Tables, SaneTable(t), vols' = AttachVols(t)
    PROVE  \A v \in Vols : Ram(v)' = t[v]
<1> SUFFICES ASSUME NEW v \in Vols PROVE Ram(v)' = t[v] OBVIOUS
<1>1. Ram(v)' = RecordOf(vols'[v]) BY DEF Ram, RecordOf
<1>2. vols'[v] = IF t[v].size > 0 THEN Fresh(t[v]) ELSE None BY AttachVolsIs
<1>3. t[v] \in Records /\ t[v].size \in Nat
  <2>1. t[v] \in Records BY TableWith
  <2> QED BY <2>1, RecordTyped
<1>4. CASE t[v].size > 0
  <2>1. t[v].name # None BY <1>3, <1>4 DEF SaneTable
  <2>2. t[v].name \in Names BY <1>3, <2>1, RecordTyped
  <2> DEFINE r == t[v]
  <2>3. r \in Records /\ r.size > 0 /\ r.name \in Names BY <1>3, <1>4, <2>2
  <2> HIDE DEF r
  <2>4. RecordOf(Fresh(r)) = r BY <2>3, FreshTyped
  <2> QED BY <1>1, <1>2, <1>4, <2>4 DEF r
<1>5. CASE ~(t[v].size > 0)
  <2>1. t[v] = empty_vtbl_record BY <1>3, <1>5 DEF SaneTable
  <2>2. RecordOf(None) = empty_vtbl_record BY DEF RecordOf
  <2> QED BY <1>1, <1>2, <1>5, <2>1, <2>2
<1> QED BY <1>4, <1>5

\* The sizes of the volumes are those of the table at an attach.
LEMMA AttachTotal ==
    ASSUME NEW t \in Tables, SaneTable(t), vols' = AttachVols(t)
    PROVE  Total' = TotalSize(t) /\ TotalSize(t) \in Nat
<1> DEFINE S == Sizes'
           T == [v \in Vols |-> t[v].size]
<1>1. \A v \in Vols : S[v] = t[v].size
  <2>1. \A v \in Vols : S[v] = Ram(v)'.size BY DEF Sizes
  <2> QED BY <2>1, AttachRam
<1>2. \A v \in Vols : t[v].size \in Nat
  <2>1. \A v \in Vols : t[v] \in Records BY TableWith
  <2> QED BY <2>1, RecordTyped
<1>3. \A v \in Vols : T[v] = S[v] /\ T[v] \in Nat BY <1>1, <1>2
<1>4. Total' = SumFunctionOnSet(S, Vols) BY DEF Total
<1>5. TotalSize(t) = SumFunctionOnSet(T, Vols) BY DEF TotalSize
<1> HIDE DEF S, T
<1>6. SumFunctionOnSet(T, Vols) = SumFunctionOnSet(S, Vols) BY <1>3, VolSizes, SumSame
<1>7. SumFunctionOnSet(T, Vols) \in Nat BY <1>3, VolSizes, SumNat
<1> QED BY <1>4, <1>5, <1>6, <1>7

\* An attach counts the PEBs anew (ubi_eba_init_scan(), init_volumes()).
LEMMA CutPebs ==
    ASSUME HolderInv, FlashTypes, PebInv, PowerCut
    PROVE  PebInv'
<1>1. mutex' = None BY DEF PowerCut
<1>2. ASSUME NEW ls, NEW ds, Attaches(AttachTable(ls), ds) PROVE PebInv'
  <2> DEFINE t == AttachTable(ls)
  <2>1. t \in Tables
    <3>1. t # None BY <1>2 DEF Attaches
    <3> QED BY <3>1, AttachTyped
  <2>2. Attaches(t, ds) BY <1>2
  <2> HIDE DEF t
  <2> DEFINE p == PebsLeft(t)
             n == Min({p, BebLevel})
             s == TotalSize(t)
             s1 == Total'
  <2>3. SaneTable(t) /\ p >= 0 /\ vols' = AttachVols(t) /\ beb' = n /\ avail' = p - n /\ good' = good
    BY <2>2 DEF Attaches
  <2>4. s1 = s /\ s \in Nat BY <2>1, <2>3, AttachTotal
  <2>5. p = good - Fixed - s BY DEF PebsLeft
  <2>6. good \in Nat /\ Fixed \in Nat /\ BebLevel \in Nat BY VolSizes DEF PebInv, PebTypes
  <2> HIDE DEF p, s, s1
  <2>7. p \in Nat BY <2>3, <2>4, <2>5, <2>6
  <2>8. n = IF p <= BebLevel THEN p ELSE BebLevel
    <3>1. p \in Int /\ BebLevel \in Int BY <2>6, <2>7
    <3> QED BY <3>1, MinTwo
  <2> HIDE DEF n
  <2>9. n \in Nat /\ p - n \in Nat BY <2>6, <2>7, <2>8
  <2>10. (p - n) + n + Fixed + s1 = good BY <2>4, <2>5, <2>6, <2>7, <2>9
  <2>11. PebTypes' BY <2>3, <2>6, <2>9 DEF PebTypes
  <2>12. avail' + beb' + Fixed + Total' = good' BY <2>3, <2>10 DEF s1
  <2>13. \A c \in Clients : c # None BY VolNone
  <2> QED BY <1>1, <2>11, <2>12, <2>13 DEF PebInv, Balanced
<1>3. CASE dev' = "refused" /\ UNCHANGED pebs
  BY <1>3 DEF PebInv, PebTypes, Balanced, pebs
<1> QED BY <1>2, <1>3, CutIs

\* erase_worker(): a PEB that goes bad leaves the reserve and the good ones.
LEMMA PebGoesBadPebs ==
    ASSUME HolderInv, PebInv, PebGoesBad
    PROVE  PebInv'
<1> DEFINE r == Topped(avail, beb, BebLevel + 1)
           b1 == BebLevel + 1
<1>1. PebTypes /\ BebLevel \in Nat /\ Fixed \in Nat /\ MaxBad \in Nat /\ GoodPebs \in Nat /\ BebLevel # 0
      /\ GoodPebs >= Fixed + BebLevel + MaxBad
  BY VolSizes DEF PebInv
<1>2. avail \in Nat /\ beb \in Nat /\ b1 \in Nat BY <1>1 DEF PebTypes
<1> HIDE DEF b1
<1>3. LET q == Topped(avail, beb, b1)
      IN  q.avail \in Nat /\ q.beb \in Nat /\ q.avail + q.beb = avail + beb /\ q.beb >= beb
  BY <1>2, ToppedIs
<1>4. r.avail \in Nat /\ r.beb \in Nat /\ r.avail + r.beb = avail + beb /\ r.beb >= beb BY <1>3 DEF b1
<1>5. /\ dev = "on" /\ dev' = dev /\ good > GoodPebs - MaxBad /\ avail' = r.avail
      /\ IF r.beb = 0 THEN UNCHANGED <<beb, good>> ELSE beb' = r.beb - 1 /\ good' = good - 1
      /\ UNCHANGED <<vols, mutex, job>>
  BY DEF PebGoesBad
<1> DEFINE x == r.avail
           y == r.beb
<1>6. x \in Nat /\ y \in Nat /\ x + y = avail + beb /\ y >= beb BY <1>4
<1>7. avail' = x /\ IF y = 0 THEN UNCHANGED <<beb, good>> ELSE beb' = y - 1 /\ good' = good - 1 BY <1>5
<1> HIDE DEF x, y, r
<1>8. good \in Nat /\ good > 0
  <2>1. good \in Nat BY <1>1 DEF PebTypes
  <2>2. GoodPebs - MaxBad >= Fixed + BebLevel BY <1>1
  <2>3. good > Fixed + BebLevel BY <1>1, <1>5, <2>1, <2>2
  <2> QED BY <1>1, <2>1, <2>3
<1>9. avail' \in Nat /\ beb' \in Nat /\ good' \in Nat /\ avail' + beb' - good' = avail + beb - good
  <2>1. CASE y = 0
    <3>1. beb = 0 /\ x = avail BY <1>2, <1>6, <2>1
    <3> QED BY <1>2, <1>7, <1>8, <2>1, <3>1
  <2>2. CASE y # 0
    <3>1. avail' = x /\ beb' = y - 1 /\ good' = good - 1 BY <1>7, <2>2
    <3>2. y - 1 \in Nat /\ good - 1 \in Nat /\ x + (y - 1) - (good - 1) = avail + beb - good
      BY <1>2, <1>6, <1>8, <2>2
    <3> QED BY <1>6, <3>1, <3>2
  <2> QED BY <2>1, <2>2
<1>10. PebTypes' BY <1>9 DEF PebTypes
<1>11. KeepRam BY <1>5 DEF KeepRam, Ram
<1>12. Total' = Total /\ Total \in Nat BY <1>11, TotalKept, TotalIs
<1> DEFINE t == Total
           t1 == Total'
           a1 == avail'
           e1 == beb'
           g1 == good'
<1>13. t1 = t /\ t \in Nat BY <1>12
<1>14. a1 \in Nat /\ e1 \in Nat /\ g1 \in Nat /\ a1 + e1 - g1 = avail + beb - good BY <1>9
<1> HIDE DEF t, t1, a1, e1, g1
<1>15. mutex = None => avail + beb + Fixed + t = good BY <1>5 DEF PebInv, Balanced, t
<1>16. mutex = None => a1 + e1 + Fixed + t1 = g1 BY <1>1, <1>2, <1>8, <1>13, <1>14, <1>15
<1>17. \A c \in Clients : mutex = c => a1 + e1 + TakenBy(c)' + Fixed + t1 = g1
  <2> SUFFICES ASSUME NEW c \in Clients, mutex = c PROVE a1 + e1 + TakenBy(c)' + Fixed + t1 = g1 OBVIOUS
  <2> DEFINE k == TakenBy(c)
             k1 == TakenBy(c)'
  <2>1. HasMutex(pc[c]) BY HolderIs
  <2>2. k1 = k BY <1>5, <1>11, <2>1, TakenKept
  <2>3. k \in Nat BY <2>1, TakenTyped
  <2>4. avail + beb + k + Fixed + t = good BY <1>5 DEF PebInv, Balanced, t
  <2> HIDE DEF k, k1
  <2>5. a1 + e1 + k1 + Fixed + t1 = g1 BY <1>1, <1>2, <1>8, <1>13, <1>14, <2>2, <2>3, <2>4
  <2> QED BY <2>5 DEF k1
<1> QED BY <1>5, <1>10, <1>16, <1>17 DEF PebInv, Balanced, t1, a1, e1, g1

\* The PEBs add up at first.
LEMMA PebInit == Init => PebInv
<1> SUFFICES ASSUME Init PROVE PebInv OBVIOUS
<1>1. \A v \in Vols : Sizes[v] = 0 BY DEF Init, Closed, Sizes, Ram, RecordOf, empty_vtbl_record
<1>2. Total = 0 BY <1>1, VolSizes, SumZero DEF Total
<1>3. good = GoodPebs /\ beb = BebLevel /\ avail = GoodPebs - Fixed - BebLevel /\ mutex = None BY DEF Init
<1>4. GoodPebs \in Nat /\ Fixed \in Nat /\ BebLevel \in Nat /\ MaxBad \in Nat /\ GoodPebs >= Fixed + BebLevel + MaxBad
  BY VolSizes
<1>5. avail \in Nat /\ beb \in Nat /\ good \in Nat BY <1>3, <1>4
<1>6. avail + beb + Fixed + Total = good BY <1>2, <1>3, <1>4
<1>7. \A c \in Clients : c # None BY VolNone
<1> QED BY <1>3, <1>5, <1>6, <1>7 DEF PebInv, PebTypes, Balanced

\* Every step preserves the count of PEBs.
LEMMA PebStep == ASSUME HolderInv, FlashTypes, PebInv, [Next]_vars PROVE PebInv'
<1>1. CASE \E c \in Clients : Client(c) BY <1>1, ClientPebs
<1>2. CASE PebGoesBad BY <1>2, PebGoesBadPebs
<1>3. CASE GoesReadOnly \/ UNCHANGED vars
  <2>1. UNCHANGED <<pebs, dev, mutex, job, vols>> BY <1>3 DEF GoesReadOnly, vars
  <2>2. KeepRam BY <2>1 DEF KeepRam, Ram
  <2> QED BY <2>1, <2>2, PebQuiet
<1>4. CASE PowerCut BY <1>4, CutPebs
<1> QED BY <1>1, <1>2, <1>3, <1>4 DEF Next

\* The holder, flash and PEB invariants imply VolInv.
LEMMA VolInvHolds == ASSUME HolderInv, FlashTypes, PebInv PROVE VolInv
<1>1. VolTypeOK BY DEF HolderInv, HolderTypes, FlashTypes, PebInv, PebTypes, MutexRule, HasMutex, VolTypeOK
<1>2. OpenModes BY OpenModesHold
<1>3. PebsAddUp BY TotalIs DEF PebsAddUp, PebInv, Balanced
<1> QED BY <1>1, <1>2, <1>3 DEF VolInv

\* The counters of every volume tell who uses it, who has it in exclusive mode
\* is alone, no volume goes away while it is used, and every good PEB is
\* available, reserved or a volume's (kapi.c, vmt.c, cdev.c, upd.c).
THEOREM VolInvariant == Spec => []VolInv
<1>1. Init => PebInv BY PebInit
<1>2. HolderInv /\ FlashTypes /\ PebInv /\ [Next]_vars => PebInv' BY PebStep
<1>3. HolderInv /\ FlashTypes /\ PebInv => VolInv BY VolInvHolds
<1>4. Spec => [](HolderInv /\ FlashTypes) BY Holders
<1> QED BY <1>1, <1>2, <1>3, <1>4, PTL DEF Spec

-----------------------------------------------------------------------------
(*****************************************************************************)
(* The volume table on flash.                                                *)
(*****************************************************************************)

\* What the LEBs of the layout volume hold: LEB 0 the table, or, while it is
\* being re-written, LEB 1 and the copy of LEB 0 that waits for erasure.
LayInv ==
    /\ \/ lay[0] = done
       \/ lay[0] = None /\ lay[1] = done /\ layPend[0] \in {done, None}
    /\ stage > 0 => \E c \in Clients : pc[c] = "table"
    /\ dev = "on" /\ ~ro =>
        /\ stage = 0 => lay[0] = done /\ lay[1] = done
        /\ stage \in {2, 3} => lay[0] = done /\ vtbl = done

\* The invariant of the layout volume implies TableDurable.
LEMMA DurableHolds == ASSUME FlashTypes, LayInv PROVE TableDurable
<1>1. done # None BY VolNone DEF FlashTypes
<1>2. ASSUME NEW ls \in SUBSET (0 .. 1) PROVE AttachTable(ls) = done
  BY <1>1 DEF AttachTable, LayInv
<1> QED BY <1>2 DEF TableDurable

\* A step of process c that does not touch the table.
TableQuiet(c) ==
    /\ pc[c] # "table" /\ UNCHANGED <<dev, ro, vtbl, lay, done, stage>>
    /\ layPend' = layPend \/ layPend' = [i \in 0 .. 1 |-> None]

\* Process c takes device_mutex and begins to change the table.
TableBegins(c) ==
    /\ \/ pc[c] = "flush" \/ mutex = None
    /\ stage' = 0 /\ UNCHANGED <<dev, ro, lay, done>>
    /\ layPend' = layPend \/ layPend' = [i \in 0 .. 1 |-> None]

ChangeSteps(c) == CreateFlush(c) \/ LockRemove(c) \/ LockResize(c) \/ LockRename(c) \/ LockMark(c)

\* The steps that put a new table in RAM.
LEMMA TableBegun ==
    ASSUME NEW c \in Clients, ChangeSteps(c)
    PROVE  TableBegins(c)
BY DEF ChangeSteps, TableBegins, hist, flash, CreateFlush, LockRemove, LockResize, LockRename, LockMark, ChangeTable, Flushed

\* The steps of a process, by what they do to the table.
LEMMA ClientTable ==
    ASSUME NEW c \in Clients, Client(c)
    PROVE  TableQuiet(c) \/ ChangeSteps(c) \/ TableStep(c) \/ TableFails(c)
<1> USE DEF TableQuiet, hist, flash
<1>1. (\E v \in Vols, m \in Modes : Open(c, v, m)) \/ Close(c) \/ (\E v \in Vols : ShowStart(c, v)) \/ ShowEnd(c)
      => TableQuiet(c)
  BY DEF Open, Close, ShowStart, ShowEnd, Idle
<1>2. (\E v \in Vols, l \in Lebs : Write(c, v, l) \/ Unmap(c, v, l)) => TableQuiet(c) BY DEF Write, Unmap
<1>3. (\E v \in Vols, n \in Names, s \in 1 .. MaxSize : CreateStart(c, v, n, s)) => TableQuiet(c)
  BY DEF CreateStart, Idle
<1>4. (\E v \in Vols : Remove(c, v)) \/ (\E v \in Vols, s \in 1 .. MaxSize : Exists(v) /\ Resize(c, v, s))
      => TableQuiet(c)
  BY DEF Remove, Resize, Request, Idle
<1>5. GiveUp(c) \/ RenameBusy(c) => TableQuiet(c) BY DEF GiveUp, RenameBusy
<1>6. (\E f \in Requests : RenameStart(c, f)) \/ (\E v \in Vols : RenameOpen(c, v) \/ RenameFind(c, v))
       \/ RenameOpenNamed(c) => TableQuiet(c)
  BY DEF RenameStart, RenameOpen, RenameFind, RenameOpenNamed, Idle
<1>7. (\E v \in Vols : UpdateStart(c, v)) \/ (\E l \in Lebs : UpdateWrite(c, l))
       \/ UpdateWipe(c) \/ UpdateFlush(c) => TableQuiet(c)
  BY DEF UpdateStart, UpdateWrite, UpdateWipe, UpdateFlush, Flushed
<1>8. CreateEnd(c) \/ RemoveEnd(c) \/ ResizeEnd(c) \/ UnmapFails(c) => TableQuiet(c)
  BY DEF CreateEnd, RemoveEnd, ResizeEnd, UnmapFails
<1>9. RenameEnd(c) \/ MarkEnd(c) \/ ClearEnd(c) => TableQuiet(c)
  BY DEF RenameEnd, MarkEnd, ClearEnd
<1> HIDE DEF TableQuiet, hist, flash
<1> QED BY <1>1, <1>2, <1>3, <1>4, <1>5, <1>6, <1>7, <1>8, <1>9 DEF Client, ChangeSteps

\* Nobody is writing the table when another process begins.
LEMMA NobodyWrites ==
    ASSUME HolderInv, LayInv, FlashTypes, NEW c \in Clients, pc[c] = "flush" \/ mutex = None
    PROVE  stage = 0
<1>1. \A d \in Clients : pc[d] = "table" => mutex = d /\ d # None BY HolderIs DEF HasMutex
<1>2. pc[c] = "flush" => mutex = c BY HolderIs DEF HasMutex
<1>3. \A d \in Clients : pc[d] # "table" BY <1>1, <1>2
<1> QED BY <1>3 DEF LayInv, FlashTypes

\* A step that leaves the table preserves the layout invariant.
LEMMA TableQuietLay ==
    ASSUME LayInv, NEW c \in Clients, Others(c), TableQuiet(c)
    PROVE  LayInv'
<1>1. stage' > 0 => \E d \in Clients : pc'[d] = "table" BY DEF LayInv, Others, TableQuiet
<1> QED BY <1>1 DEF LayInv, TableQuiet

\* A new table in RAM preserves the layout invariant.
LEMMA TableBeginsLay ==
    ASSUME HolderInv, FlashTypes, LayInv, NEW c \in Clients, TableBegins(c)
    PROVE  LayInv'
<1>1. stage = 0 /\ stage' = 0 BY NobodyWrites DEF TableBegins
<1> QED BY <1>1 DEF LayInv, TableBegins

\* Every step of ubi_change_vtbl_record() preserves the layout invariant: LEB 1
\* has the old table until LEB 0 has the new one.
LEMMA TableStepLay ==
    ASSUME HolderInv, FlashTypes, LayInv, NEW c \in Clients, TableStep(c)
    PROVE  LayInv'
<1>1. pc[c] = "table" /\ ~ro /\ dev = "on" BY ClientOn DEF TableStep
<1>2. lay \in [0 .. 1 -> Tables \cup {None}] /\ layPend \in [0 .. 1 -> Tables \cup {None}] /\ stage \in 0 .. 3
      /\ done # None /\ vtbl \in Tables /\ pc \in [Clients -> Pcs]
  BY VolNone DEF FlashTypes, HolderInv, HolderTypes
<1>3. CASE stage = 0
  <2>1. lay' = [lay EXCEPT ![0] = None] /\ layPend' = [layPend EXCEPT ![0] = lay[0]]
        /\ done' = done /\ stage' = 1 /\ pc'[c] = "table"
    BY <1>2, <1>3 DEF TableStep, LayoutLeb
  <2>2. lay[0] = done /\ lay[1] = done BY <1>1, <1>3 DEF LayInv
  <2> QED BY <1>2, <2>1, <2>2 DEF LayInv
<1>4. CASE stage = 1
  <2>1. lay' = [lay EXCEPT ![0] = vtbl] /\ done' = vtbl /\ stage' = 2 /\ pc'[c] = "table" /\ vtbl' = vtbl
    BY <1>2, <1>4 DEF TableStep, LayoutLeb
  <2> QED BY <1>2, <2>1 DEF LayInv
<1>5. CASE stage = 2
  <2>1. lay' = [lay EXCEPT ![1] = None] /\ done' = done /\ stage' = 3 /\ pc'[c] = "table" /\ vtbl' = vtbl
    BY <1>2, <1>5 DEF TableStep, LayoutLeb
  <2>2. lay[0] = done /\ vtbl = done BY <1>1, <1>5 DEF LayInv
  <2> QED BY <1>2, <2>1, <2>2 DEF LayInv
<1>6. CASE stage = 3
  <2>1. lay' = [lay EXCEPT ![1] = vtbl] /\ done' = done /\ stage' = 0
    BY <1>2, <1>6 DEF TableStep, LayoutLeb
  <2>2. lay[0] = done /\ vtbl = done BY <1>1, <1>6 DEF LayInv
  <2> QED BY <1>2, <2>1, <2>2 DEF LayInv
<1> QED BY <1>2, <1>3, <1>4, <1>5, <1>6

\* Every step preserves the layout invariant.
LEMMA LayStep == ASSUME HolderInv, FlashTypes, LayInv, [Next]_vars PROVE LayInv'
<1>1. CASE \E c \in Clients : Client(c)
  <2>1. PICK c \in Clients : Client(c) BY <1>1
  <2>2. Others(c) BY <2>1, ClientOthers
  <2>3. CASE TableFails(c)
    <3>1. ro' = TRUE /\ stage' = 0 /\ UNCHANGED <<lay, layPend, done>> BY <2>3 DEF TableFails, flash, hist
    <3> QED BY <3>1 DEF LayInv
  <2> QED BY <2>1, <2>2, <2>3, ClientTable, TableQuietLay, TableBegun, TableBeginsLay, TableStepLay
<1>2. CASE PebGoesBad \/ GoesReadOnly \/ UNCHANGED vars
  <2>1. UNCHANGED <<dev, vtbl, lay, layPend, done, stage, pc>> /\ (ro' = ro \/ ro' = TRUE)
    BY <1>2 DEF PebGoesBad, GoesReadOnly, vars, flash, hist
  <2> QED BY <2>1 DEF LayInv
<1>3. CASE PowerCut
  <2>1. stage' = 0 BY <1>3 DEF PowerCut
  <2>2. CASE dev' = "refused" /\ UNCHANGED <<done, flash>>
    <3>1. dev' # "on" /\ UNCHANGED <<done, lay, layPend>> BY <2>2 DEF flash
    <3> QED BY <2>1, <3>1 DEF LayInv
  <2>3. ASSUME NEW ls, NEW ds, Attaches(AttachTable(ls), ds) PROVE LayInv'
    <3>1. done' = AttachTable(ls) /\ lay' = [i \in 0 .. 1 |-> AttachTable(ls)] BY <2>3 DEF Attaches
    <3> QED BY <2>1, <3>1 DEF LayInv
  <2> QED BY <1>3, <2>2, <2>3, CutIs
<1> QED BY <1>1, <1>2, <1>3 DEF Next

\* A change of the table is atomic: whenever the power is cut, whatever is
\* erased by then, process_lvol() finds the table last written to LEB 0.
THEOREM TableSurvives == Spec => []TableDurable
<1>1. Init => LayInv BY DEF Init, LayInv
<1>2. HolderInv /\ FlashTypes /\ LayInv /\ [Next]_vars => LayInv' BY LayStep
<1>3. FlashTypes /\ LayInv => TableDurable BY DurableHolds
<1>4. Spec => [](HolderInv /\ FlashTypes) BY Holders
<1> QED BY <1>1, <1>2, <1>3, <1>4, PTL DEF Spec

-----------------------------------------------------------------------------
(*****************************************************************************)
(* The volume table and the volumes.                                         *)
(*****************************************************************************)

\* The volumes of a request, and what its table says of a volume that the old
\* one describes by r.
Affected(j) == IF j.op = "rename" THEN Listed(j) ELSE {j.vol}

Target(j, v, r) ==
    CASE j.op = "create" -> j.rec
      [] j.op = "remove" -> empty_vtbl_record
      [] j.op = "resize" -> [r EXCEPT !.size = j.rec.size]
      [] j.op = "mark"   -> [r EXCEPT !.mark = TRUE]
      [] j.op = "clear"  -> [r EXCEPT !.mark = FALSE]
      [] OTHER -> IF v \in j.drop THEN empty_vtbl_record ELSE [r EXCEPT !.name = j.names[v]]

\* Process c is changing the table; LEB 0 has the old one.
Changing(c) == pc[c] \in {"table", "apply"}
Writing(c) == pc[c] = "table" /\ stage < 2

\* The table in RAM is that of the volumes, up to the request that is executed.
ChangesTo == \A v \in Vols \ torn, c \in Clients :
    Changing(c) /\ v \in Affected(job[c]) => vtbl[v] = Target(job[c], v, Ram(v))
Agrees == \A v \in Vols \ torn :
    (\A c \in Clients : Changing(c) => v \notin Affected(job[c])) => vtbl[v] = Ram(v)

\* The copy of a record that is to be written is still right.
CopyIs == \A c \in Clients : pc[c] = "lock" /\ job[c].op \in {"mark", "clear"} =>
    job[c].rec = Marked(job[c].vol, job[c].op = "mark")

\* The table on flash is that in RAM, up to the request that is executed.
WritesTo == \A v \in Vols, c \in Clients :
    Writing(c) /\ v \in Affected(job[c]) => vtbl[v] = Target(job[c], v, done[v])
Wrote == \A v \in Vols :
    (\A c \in Clients : Writing(c) => v \notin Affected(job[c])) => vtbl[v] = done[v]
OldIs == \A v \in Vols \ torn, c \in Clients : Writing(c) => done[v] = Ram(v)

TableRules == ChangesTo /\ Agrees /\ CopyIs /\ WritesTo /\ Wrote /\ OldIs
TableInv == dev = "on" /\ ~ro => TableRules

\* The volumes of a request that is executed are those its process has open,
\* in exclusive mode, or the one it creates.
LEMMA AffectedIs ==
    ASSUME HolderInv, NEW c \in Clients, pc[c] \in {"flush", "lock", "table", "apply"}
    PROVE  /\ Affected(job[c]) \subseteq Vols
           /\ job[c].op \in {"create", "remove", "resize", "rename", "mark", "clear"}
           /\ job[c].op # "create" => \A v \in Affected(job[c]) : desc[c][v] = "ex"
           /\ job[c].op = "create" => vols[job[c].vol] = None /\ pc[c] # "lock"
<1>1. job[c] \in Jobs /\ JobRule(pc[c], job[c], desc[c]) BY DEF HolderInv, HolderTypes, JobInv
<1>2. job[c].op \in {"none", "create", "remove", "resize", "rename", "mark", "clear"} BY <1>1 DEF Jobs
<1>3. job[c].op # "none" BY <1>1 DEF JobRule, OneVolume
<1>4. Listed(job[c]) \subseteq Vols BY <1>1, JobTyped
<1>5. job[c].op # "rename" => job[c].vol \in Vols BY <1>1, <1>2, <1>3 DEF JobRule, OneVolume
<1>6. job[c].op # "create" => \A v \in Affected(job[c]) : desc[c][v] = "ex"
  <2>1. CASE job[c].op = "rename" BY <1>1, <1>4, <2>1 DEF JobRule, Owns, Affected
  <2>2. CASE job[c].op \in OneVolume BY <1>1, <2>2 DEF JobRule, Owns, Affected, OneVolume
  <2> QED BY <1>2, <1>3, <2>1, <2>2 DEF OneVolume
<1>7. job[c].op = "create" => vols[job[c].vol] = None /\ pc[c] # "lock"
  <2>1. job[c].op = "create" => pc[c] # "lock" BY <1>1 DEF JobRule, OneVolume
  <2> QED BY <2>1 DEF HolderInv, LifeInv, HasMutex
<1> QED BY <1>2, <1>3, <1>4, <1>5, <1>6, <1>7 DEF Affected

\* Nobody has a volume open that another process changes.
LEMMA Apart ==
    ASSUME HolderInv, NEW c \in Clients, NEW d \in Clients \ {c}, NEW v \in Vols, desc[c][v] # None,
           pc[d] \in {"flush", "lock", "table", "apply"}
    PROVE  v \notin Affected(job[d])
<1> SUFFICES ASSUME v \in Affected(job[d]) PROVE FALSE OBVIOUS
<1>1. CASE job[d].op = "create"
  <2>1. vols[v] = None BY <1>1, AffectedIs DEF Affected
  <2>2. vols[v] \in Volumes BY VolumeOf
  <2> QED BY <2>1, <2>2, VolNone
<1>2. CASE job[d].op # "create"
  <2>1. desc[d][v] = "ex" BY <1>2, AffectedIs
  <2> QED BY <2>1, Exclusive
<1> QED BY <1>1, <1>2

\* One process changes the table at a time.
LEMMA OneChanges ==
    ASSUME HolderInv
    PROVE  /\ \A c, d \in Clients : Changing(c) /\ Changing(d) => c = d
           /\ \A c \in Clients : mutex = None \/ pc[c] = "flush" => \A d \in Clients : ~Changing(d)
           /\ \A c \in Clients : Writing(c) => Changing(c)
<1>1. \A c \in Clients : Changing(c) => mutex = c /\ c # None BY HolderIs DEF Changing, HasMutex
<1>2. \A c \in Clients : pc[c] = "flush" => mutex = c /\ ~Changing(c) BY HolderIs DEF Changing, HasMutex
<1> QED BY <1>1, <1>2 DEF Writing, Changing

\* The steps of an update but for the two changes of the table.
UpdateSteps(c) ==
    (\E v \in Vols : UpdateStart(c, v)) \/ (\E l \in Lebs : UpdateWrite(c, l)) \/ UpdateWipe(c) \/ UpdateFlush(c)

\* A step that is not part of a change of the table.
Elsewhere(c) ==
    /\ TableQuiet(c) /\ torn' = torn /\ pc[c] # "apply" /\ pc'[c] \notin {"table", "apply"}
    /\ pc'[c] = "lock" /\ job'[c].op \in {"mark", "clear"} =>
          job'[c].rec = Marked(job'[c].vol, job'[c].op = "mark")
    /\ \/ UpdateSteps(c)
       \/ pc'[c] \notin {"wipe", "write"} /\ ~(pc'[c] = "lock" /\ job'[c].op = "clear")
    /\ \/ UpdateSteps(c) \/ UNCHANGED <<eba, pend>>
       \/ \E v \in Vols, l \in Lebs : Write(c, v, l) \/ Unmap(c, v, l)

\* A step that is no part of a change preserves the table rules.
LEMMA ElsewhereTable ==
    ASSUME HolderInv, TableInv, NEW c \in Clients, Others(c), Elsewhere(c), KeepRam
    PROVE  TableInv'
<1>0. UNCHANGED <<dev, ro, vtbl, done, stage, torn>> BY DEF Elsewhere, TableQuiet
<1> SUFFICES ASSUME TableRules PROVE TableRules' BY <1>0 DEF TableInv
<1>1. \A d \in Clients : /\ Changing(d)' <=> Changing(d)
                         /\ Writing(d)' <=> Writing(d)
                         /\ Changing(d) \/ Writing(d) => job'[d] = job[d]
  BY <1>0 DEF Changing, Writing, Others, Elsewhere, TableQuiet
<1>2. \A v \in Vols : Ram(v)' = Ram(v) /\ vtbl'[v] = vtbl[v] /\ done'[v] = done[v] BY <1>0 DEF KeepRam
<1>3. ChangesTo'
  <2> SUFFICES ASSUME NEW v \in Vols \ torn, NEW d \in Clients, Changing(d)', v \in Affected(job'[d])
               PROVE vtbl'[v] = Target(job'[d], v, Ram(v)')
    BY <1>0 DEF ChangesTo
  <2> QED BY <1>1, <1>2 DEF TableRules, ChangesTo
<1>4. Agrees'
  <2> SUFFICES ASSUME NEW v \in Vols \ torn, \A d \in Clients : Changing(d)' => v \notin Affected(job'[d])
               PROVE vtbl'[v] = Ram(v)'
    BY <1>0 DEF Agrees
  <2> QED BY <1>1, <1>2 DEF TableRules, Agrees
<1>5. CopyIs'
  <2> SUFFICES ASSUME NEW d \in Clients, pc'[d] = "lock", job'[d].op \in {"mark", "clear"}
               PROVE job'[d].rec = [vtbl'[job'[d].vol] EXCEPT !.mark = (job'[d].op = "mark")]
    BY DEF CopyIs, Marked
  <2>1. CASE d = c BY <1>0, <2>1 DEF Elsewhere, Marked
  <2>2. CASE d # c
    <3>1. pc'[d] = pc[d] /\ job'[d] = job[d] BY <2>2 DEF Others
    <3>2. job[d].rec = Marked(job[d].vol, job[d].op = "mark") BY <3>1 DEF TableRules, CopyIs
    <3> QED BY <1>0, <3>1, <3>2 DEF Marked
  <2> QED BY <2>1, <2>2
<1>6. WritesTo'
  <2> SUFFICES ASSUME NEW v \in Vols, NEW d \in Clients, Writing(d)', v \in Affected(job'[d])
               PROVE vtbl'[v] = Target(job'[d], v, done'[v])
    BY DEF WritesTo
  <2> QED BY <1>1, <1>2 DEF TableRules, WritesTo
<1>7. Wrote'
  <2> SUFFICES ASSUME NEW v \in Vols, \A d \in Clients : Writing(d)' => v \notin Affected(job'[d])
               PROVE vtbl'[v] = done'[v]
    BY DEF Wrote
  <2> QED BY <1>1, <1>2 DEF TableRules, Wrote
<1>8. OldIs' BY <1>0, <1>1, <1>2 DEF TableRules, OldIs
<1> QED BY <1>3, <1>4, <1>5, <1>6, <1>7, <1>8 DEF TableRules

\* Process c puts the table of its request in RAM.
Begins(c) ==
    /\ TableBegins(c) /\ UNCHANGED <<torn, job>>
    /\ pc[c] \in {"flush", "lock"} /\ pc'[c] = "table"
    /\ \A v \in Vols : vtbl'[v] = IF v \in Affected(job[c]) THEN Target(job[c], v, vtbl[v]) ELSE vtbl[v]

\* The new table in RAM differs from the volumes by its request only.
LEMMA BeginsTable ==
    ASSUME HolderInv, TableInv, NEW c \in Clients, Others(c), Begins(c), KeepRam
    PROVE  TableInv'
<1>0. UNCHANGED <<dev, ro, done, torn, job>> /\ stage' = 0 BY DEF Begins, TableBegins
<1> SUFFICES ASSUME TableRules PROVE TableRules' BY <1>0 DEF TableInv
<1>1. \A d \in Clients : ~Changing(d) /\ ~Writing(d) BY OneChanges DEF Begins, TableBegins
<1>2. \A d \in Clients : Changing(d)' => d = c BY <1>1 DEF Others, Changing
<1>3. Writing(c)' /\ Changing(c)' /\ \A d \in Clients : Writing(d)' => d = c
  BY <1>0, <1>2 DEF Begins, Writing, Changing
<1>4. \A v \in Vols \ torn : vtbl[v] = Ram(v) BY <1>1 DEF TableRules, Agrees
<1>5. \A v \in Vols : vtbl[v] = done[v] BY <1>1 DEF TableRules, Wrote
<1>6. \A v \in Vols : Ram(v)' = Ram(v) /\ done'[v] = done[v] BY <1>0 DEF KeepRam
<1>7. \A v \in Vols : vtbl'[v] = IF v \in Affected(job[c]) THEN Target(job[c], v, vtbl[v]) ELSE vtbl[v]
  BY DEF Begins
<1>8. ChangesTo'
  <2> SUFFICES ASSUME NEW v \in Vols \ torn, NEW d \in Clients, Changing(d)', v \in Affected(job[d])
               PROVE vtbl'[v] = Target(job[d], v, Ram(v)')
    BY <1>0 DEF ChangesTo
  <2> QED BY <1>2, <1>4, <1>6, <1>7
<1>9. Agrees'
  <2> SUFFICES ASSUME NEW v \in Vols \ torn, \A d \in Clients : Changing(d)' => v \notin Affected(job[d])
               PROVE vtbl'[v] = Ram(v)'
    BY <1>0 DEF Agrees
  <2> QED BY <1>3, <1>4, <1>6, <1>7
<1>10. CopyIs'
  <2> SUFFICES ASSUME NEW d \in Clients, pc'[d] = "lock", job[d].op \in {"mark", "clear"}
               PROVE job[d].rec = [vtbl'[job[d].vol] EXCEPT !.mark = (job[d].op = "mark")]
    BY <1>0 DEF CopyIs, Marked
  <2>1. d # c BY DEF Begins
  <2>2. pc[d] = "lock" BY <2>1 DEF Others
  <2>3. job[d].rec = [vtbl[job[d].vol] EXCEPT !.mark = (job[d].op = "mark")]
    BY <2>2 DEF TableRules, CopyIs, Marked
  <2>4. job[d].vol \in Affected(job[d]) BY DEF Affected
  <2>5. job[d].vol \in Vols /\ desc[d][job[d].vol] = "ex" BY <2>2, <2>4, AffectedIs
  <2>6. "ex" # None BY VolNone DEF Modes
  <2>7. pc[c] \in {"flush", "lock", "table", "apply"} BY DEF Begins
  <2>8. job[d].vol \notin Affected(job[c]) BY <2>1, <2>5, <2>6, <2>7, Apart
  <2>9. vtbl'[job[d].vol] = vtbl[job[d].vol] BY <1>7, <2>5, <2>8
  <2> QED BY <2>3, <2>9
<1>11. WritesTo'
  <2> SUFFICES ASSUME NEW v \in Vols, NEW d \in Clients, Writing(d)', v \in Affected(job[d])
               PROVE vtbl'[v] = Target(job[d], v, done'[v])
    BY <1>0 DEF WritesTo
  <2> QED BY <1>3, <1>5, <1>6, <1>7
<1>12. Wrote'
  <2> SUFFICES ASSUME NEW v \in Vols, \A d \in Clients : Writing(d)' => v \notin Affected(job[d])
               PROVE vtbl'[v] = done'[v]
    BY <1>0 DEF Wrote
  <2> QED BY <1>3, <1>5, <1>6, <1>7
<1>13. OldIs' BY <1>0, <1>4, <1>5, <1>6 DEF OldIs
<1> QED BY <1>8, <1>9, <1>10, <1>11, <1>12, <1>13 DEF TableRules

\* Process c is done and its volumes are as the table has them.
Finishes(c) ==
    /\ pc[c] = "apply" /\ pc'[c] \notin {"table", "apply", "lock"}
    /\ UNCHANGED <<dev, ro, vtbl, done, stage>> /\ torn \subseteq torn'
    /\ \A v \in Vols \ torn' :
          Ram(v)' = IF v \in Affected(job[c]) THEN Target(job[c], v, Ram(v)) ELSE Ram(v)

\* The end of an operation makes the volumes those of the table.
LEMMA FinishesTable ==
    ASSUME HolderInv, TableInv, NEW c \in Clients, Others(c), Finishes(c)
    PROVE  TableInv'
<1>0. UNCHANGED <<dev, ro, vtbl, done, stage>> /\ torn \subseteq torn' BY DEF Finishes
<1> SUFFICES ASSUME TableRules PROVE TableRules' BY <1>0 DEF TableInv
<1>1. Changing(c) /\ ~Writing(c) BY DEF Finishes, Changing, Writing
<1>2. \A d \in Clients : Changing(d) => d = c BY <1>1, OneChanges
<1>3. \A d \in Clients : ~Changing(d)' /\ ~Writing(d)' /\ ~Writing(d)
  BY <1>1, <1>2, OneChanges DEF Others, Changing, Writing, Finishes
<1>4. Agrees'
  <2> SUFFICES ASSUME NEW v \in Vols \ torn' PROVE vtbl[v] = Ram(v)'
    BY <1>0 DEF Agrees
  <2>1. v \in Vols \ torn BY <1>0
  <2>2. CASE v \in Affected(job[c])
    <3>1. vtbl[v] = Target(job[c], v, Ram(v)) BY <1>1, <2>1, <2>2 DEF TableRules, ChangesTo
    <3> QED BY <2>2, <3>1 DEF Finishes
  <2>3. CASE v \notin Affected(job[c])
    <3>1. vtbl[v] = Ram(v) BY <1>2, <2>1, <2>3 DEF TableRules, Agrees
    <3> QED BY <2>3, <3>1 DEF Finishes
  <2> QED BY <2>2, <2>3
<1>5. CopyIs'
  <2> SUFFICES ASSUME NEW d \in Clients, pc'[d] = "lock", job'[d].op \in {"mark", "clear"}
               PROVE job'[d].rec = [vtbl'[job'[d].vol] EXCEPT !.mark = (job'[d].op = "mark")]
    BY DEF CopyIs, Marked
  <2>1. d # c BY DEF Finishes
  <2>2. pc[d] = "lock" /\ job'[d] = job[d] BY <2>1 DEF Others
  <2>3. job[d].rec = [vtbl[job[d].vol] EXCEPT !.mark = (job[d].op = "mark")]
    BY <2>2 DEF TableRules, CopyIs, Marked
  <2> QED BY <1>0, <2>2, <2>3
<1>6. Wrote'
  <2> SUFFICES ASSUME NEW v \in Vols PROVE vtbl[v] = done[v] BY <1>0 DEF Wrote
  <2> QED BY <1>3 DEF TableRules, Wrote
<1>7. ChangesTo' BY <1>3 DEF ChangesTo
<1>8. WritesTo' BY <1>3 DEF WritesTo
<1>9. OldIs' BY <1>3 DEF OldIs
<1> QED BY <1>4, <1>5, <1>6, <1>7, <1>8, <1>9 DEF TableRules

\* The writes of the table preserve the table rules.
LEMMA TableStepTable ==
    ASSUME HolderInv, FlashTypes, TableInv, NEW c \in Clients, Others(c), TableStep(c)
    PROVE  TableInv'
<1>0. /\ UNCHANGED <<dev, ro, vols, vtbl, job, torn>> /\ pc[c] = "table" /\ stage \in 0 .. 3
      /\ done' = (IF stage = 1 THEN vtbl ELSE done) /\ stage' = (stage + 1) % 4
      /\ pc'[c] = IF stage = 3 THEN "apply" ELSE "table"
  BY DEF TableStep, FlashTypes, HolderInv, HolderTypes
<1> SUFFICES ASSUME TableRules PROVE TableRules' BY <1>0 DEF TableInv
<1>1. \A d \in Clients : Changing(d)' <=> Changing(d) BY <1>0 DEF Others, Changing
<1>2. \A d \in Clients : Changing(d) => d = c BY <1>0, OneChanges DEF Changing
<1>3. \A d \in Clients : Writing(d)' => stage = 0 /\ Writing(d) /\ done' = done
  <2> SUFFICES ASSUME NEW d \in Clients, Writing(d)' PROVE stage = 0 /\ Writing(d) /\ done' = done OBVIOUS
  <2>1. d = c BY <1>1, <1>2 DEF Writing, Changing
  <2>2. stage' < 2 /\ pc'[c] = "table" BY <2>1 DEF Writing
  <2>3. stage # 3 BY <1>0, <2>2
  <2>4. stage = 0 BY <1>0, <2>2, <2>3
  <2> QED BY <1>0, <2>1, <2>4 DEF Writing
<1>4. \A v \in Vols : Ram(v)' = Ram(v) BY <1>0 DEF Ram
<1>5. ChangesTo'
  <2> SUFFICES ASSUME NEW v \in Vols \ torn, NEW d \in Clients, Changing(d)', v \in Affected(job[d])
               PROVE vtbl[v] = Target(job[d], v, Ram(v)')
    BY <1>0 DEF ChangesTo
  <2> QED BY <1>1, <1>4 DEF TableRules, ChangesTo
<1>6. Agrees'
  <2> SUFFICES ASSUME NEW v \in Vols \ torn, \A d \in Clients : Changing(d)' => v \notin Affected(job[d])
               PROVE vtbl[v] = Ram(v)'
    BY <1>0 DEF Agrees
  <2> QED BY <1>1, <1>4 DEF TableRules, Agrees
<1>7. CopyIs'
  <2> SUFFICES ASSUME NEW d \in Clients, pc'[d] = "lock", job[d].op \in {"mark", "clear"}
               PROVE job[d].rec = [vtbl[job[d].vol] EXCEPT !.mark = (job[d].op = "mark")]
    BY <1>0 DEF CopyIs, Marked
  <2>1. d # c BY <1>0
  <2>2. pc[d] = "lock" BY <2>1 DEF Others
  <2> QED BY <2>2 DEF TableRules, CopyIs, Marked
<1>8. WritesTo'
  <2> SUFFICES ASSUME NEW v \in Vols, NEW d \in Clients, Writing(d)', v \in Affected(job[d])
               PROVE vtbl[v] = Target(job[d], v, done'[v])
    BY <1>0 DEF WritesTo
  <2> QED BY <1>3 DEF TableRules, WritesTo
<1>9. Wrote'
  <2> SUFFICES ASSUME NEW v \in Vols, \A d \in Clients : Writing(d)' => v \notin Affected(job[d])
               PROVE vtbl[v] = done'[v]
    BY <1>0 DEF Wrote
  <2>1. CASE stage = 0
    <3>1. Writing(c)' BY <1>0, <2>1 DEF Writing
    <3>2. \A d \in Clients : Writing(d) => v \notin Affected(job[d]) BY <1>2, <3>1, OneChanges
    <3> QED BY <1>0, <2>1, <3>2 DEF TableRules, Wrote
  <2>2. CASE stage = 1 BY <1>0, <2>2
  <2>3. CASE stage \in {2, 3}
    <3>1. \A d \in Clients : ~Writing(d) BY <2>3 DEF Writing
    <3> QED BY <1>0, <2>3, <3>1 DEF TableRules, Wrote
  <2> QED BY <1>0, <2>1, <2>2, <2>3
<1>10. OldIs'
  <2> SUFFICES ASSUME NEW v \in Vols \ torn, NEW d \in Clients, Writing(d)' PROVE done'[v] = Ram(v)'
    BY <1>0 DEF OldIs
  <2> QED BY <1>3, <1>4 DEF TableRules, OldIs
<1> QED BY <1>5, <1>6, <1>7, <1>8, <1>9, <1>10 DEF TableRules

\* An attach makes the volumes from the table it has read.
LEMMA AttachesTable ==
    ASSUME FlashTypes, PowerCut, NEW ls, NEW ds, Attaches(AttachTable(ls), ds)
    PROVE  TableInv'
<1> DEFINE t == AttachTable(ls)
<1>1. t \in Tables
  <2>1. t # None BY DEF Attaches
  <2> QED BY <2>1, AttachTyped
<1>2. Attaches(t, ds) OBVIOUS
<1> HIDE DEF t
<1>3. vtbl' = t /\ done' = t /\ \A v \in Vols : Ram(v)' = t[v] BY <1>1, <1>2, AttachRam DEF Attaches
<1>4. \A d \in Clients : pc'[d] = "idle" BY DEF PowerCut
<1>5. \A d \in Clients : ~Changing(d)' /\ ~Writing(d)' BY <1>4 DEF Changing, Writing
<1>6. ChangesTo' BY <1>5 DEF ChangesTo
<1>7. Agrees' BY <1>3 DEF Agrees
<1>8. CopyIs' BY <1>4 DEF CopyIs
<1>9. WritesTo' BY <1>5 DEF WritesTo
<1>10. Wrote' BY <1>3 DEF Wrote
<1>11. OldIs' BY <1>5 DEF OldIs
<1> QED BY <1>6, <1>7, <1>8, <1>9, <1>10, <1>11 DEF TableInv, TableRules

\* Where the steps that neither take nor give device_mutex lead.
LEMMA MovedTo ==
    ASSUME HolderTypes, NEW c \in Clients, NEW p, NEW j, pc' = [pc EXCEPT ![c] = p], job' = [job EXCEPT ![c] = j]
    PROVE  pc'[c] = p /\ job'[c] = j
BY DEF HolderTypes

\* The steps of a process that are no part of a change.
LEMMA ClientElsewhere ==
    ASSUME HolderInv, NEW c \in Clients, Client(c), TableQuiet(c), pc[c] # "apply"
    PROVE  Elsewhere(c) \/ ChangeSteps(c) \/ TableFails(c)
<1>0. HolderTypes BY DEF HolderInv
<1> DEFINE M == pc'[c] = "lock" /\ job'[c].op \in {"mark", "clear"} =>
                  job'[c].rec = Marked(job'[c].vol, job'[c].op = "mark")
           U == /\ \/ UpdateSteps(c)
                   \/ pc'[c] \notin {"wipe", "write"} /\ ~(pc'[c] = "lock" /\ job'[c].op = "clear")
                /\ \/ UpdateSteps(c) \/ UNCHANGED <<eba, pend>>
                   \/ \E v \in Vols, l \in Lebs : Write(c, v, l) \/ Unmap(c, v, l)
           E == torn' = torn /\ pc'[c] \notin {"table", "apply"} /\ M /\ U
<1>1. (\E v \in Vols, m \in Modes : Open(c, v, m)) \/ Close(c) \/ (\E v \in Vols : ShowStart(c, v)) \/ ShowEnd(c) => E
  BY <1>0, MovedTo DEF HolderTypes, Open, Close, ShowStart, ShowEnd, hist, flash, Idle
<1>2. (\E v \in Vols, l \in Lebs : Write(c, v, l) \/ Unmap(c, v, l)) => E BY DEF Write, Unmap, hist
<1>3. (\E v \in Vols, n \in Names, s \in 1 .. MaxSize : CreateStart(c, v, n, s)) => E
  <2>1. (\E v \in Vols, n \in Names, s \in 1 .. MaxSize : CreateStart(c, v, n, s)) => torn' = torn /\ pc'[c] = "flush" /\ UNCHANGED <<eba, pend>>
    BY <1>0 DEF HolderTypes, CreateStart, hist, flash
  <2> QED BY <2>1
<1>4. \A v \in Vols : Remove(c, v) => E
  <2> SUFFICES ASSUME NEW v \in Vols, Remove(c, v) PROVE E OBVIOUS
  <2> DEFINE j == [NoJob EXCEPT !.op = "remove", !.vol = v]
  <2>1. torn' = torn /\ pc'[c] = "lock" /\ job'[c] = j /\ UNCHANGED <<eba, pend>>
    BY <1>0 DEF HolderTypes, Remove, Request, hist, flash
  <2>2. j.op = "remove" BY DEF NoJob
  <2> QED BY <2>1, <2>2
<1>5. \A v \in Vols, s \in 1 .. MaxSize : Resize(c, v, s) => E
  <2> SUFFICES ASSUME NEW v \in Vols, NEW s \in 1 .. MaxSize, Resize(c, v, s) PROVE E OBVIOUS
  <2> DEFINE r == [RecordOf(vols[v]) EXCEPT !.size = s]
             j == [NoJob EXCEPT !.op = "resize", !.vol = v, !.rec = r]
  <2>1. torn' = torn /\ pc'[c] = "lock" /\ job'[c] = j /\ UNCHANGED <<eba, pend>>
    BY <1>0 DEF HolderTypes, Resize, Request, hist, flash
  <2> HIDE DEF r
  <2>2. j.op = "resize" BY DEF NoJob
  <2> QED BY <2>1, <2>2
<1>6. GiveUp(c) \/ RenameBusy(c) => E BY <1>0 DEF HolderTypes, GiveUp, RenameBusy, Ends, hist, flash
<1>7. (\E f \in Requests : RenameStart(c, f)) => E
  <2>1. (\E f \in Requests : RenameStart(c, f)) => torn' = torn /\ pc'[c] = "rnopen" /\ UNCHANGED <<eba, pend>>
    BY <1>0 DEF HolderTypes, RenameStart, hist, flash
  <2> QED BY <2>1
<1>8. (\E v \in Vols : RenameOpen(c, v)) => E
  <2>1. (\E v \in Vols : RenameOpen(c, v)) => torn' = torn /\ pc'[c] \in {"rnopen", "idle", "rnfind"} /\ UNCHANGED <<eba, pend>>
    BY <1>0 DEF HolderTypes, RenameOpen, hist, flash
  <2> QED BY <2>1
<1>9. \A v \in Vols : RenameFind(c, v) => E
  <2> SUFFICES ASSUME NEW v \in Vols, RenameFind(c, v) PROVE E OBVIOUS
  <2>1. torn' = torn /\ pc'[c] \in {"rnnamed", "lock", "rnfind"} /\ UNCHANGED <<eba, pend>> BY <1>0 DEF HolderTypes, RenameFind, hist, flash
  <2>2. job[c].op = "rename" BY DEF RenameFind, HolderInv, JobInv, JobRule
  <2>3. job'[c].op = job[c].op
    <3>1. \E x, y : job' = [job EXCEPT ![c] = [job[c] EXCEPT !.todo = x, !.vol = y]] BY DEF RenameFind
    <3>2. PICK x, y : job' = [job EXCEPT ![c] = [job[c] EXCEPT !.todo = x, !.vol = y]] BY <3>1
    <3> DEFINE r == [job[c] EXCEPT !.todo = x, !.vol = y]
    <3>3. job'[c] = r BY <1>0, <3>2 DEF HolderTypes
    <3>4. job[c] \in Jobs BY <1>0 DEF HolderTypes
    <3>5. r.op = job[c].op BY <3>4 DEF Jobs
    <3> QED BY <3>3, <3>5
  <2> QED BY <2>1, <2>2, <2>3
<1>10. RenameOpenNamed(c) => E
  <2> SUFFICES ASSUME RenameOpenNamed(c) PROVE E OBVIOUS
  <2>1. torn' = torn /\ pc'[c] \in {"lock", "rnfind"} /\ UNCHANGED <<eba, pend>> BY <1>0 DEF HolderTypes, RenameOpenNamed, hist, flash
  <2>2. job[c].op = "rename" BY DEF RenameOpenNamed, HolderInv, JobInv, JobRule
  <2>3. job'[c].op = job[c].op
    <3>1. \E x : job' = [job EXCEPT ![c] = [job[c] EXCEPT !.vol = None, !.drop = x]] BY DEF RenameOpenNamed
    <3>2. PICK x : job' = [job EXCEPT ![c] = [job[c] EXCEPT !.vol = None, !.drop = x]] BY <3>1
    <3> DEFINE r == [job[c] EXCEPT !.vol = None, !.drop = x]
    <3>3. job'[c] = r BY <1>0, <3>2 DEF HolderTypes
    <3>4. job[c] \in Jobs BY <1>0 DEF HolderTypes
    <3>5. r.op = job[c].op BY <3>4 DEF Jobs
    <3> QED BY <3>3, <3>5
  <2> QED BY <2>1, <2>2, <2>3
<1>11. \A v \in Vols : UpdateStart(c, v) => E
  <2> SUFFICES ASSUME NEW v \in Vols, UpdateStart(c, v) PROVE E OBVIOUS
  <2> DEFINE r == Marked(v, TRUE)
             j == [NoJob EXCEPT !.op = "mark", !.vol = v, !.rec = r]
  <2>1. torn' = torn /\ pc'[c] \in {"wipe", "lock"} /\ job'[c] = j
    BY <1>0 DEF HolderTypes, UpdateStart, hist
  <2> HIDE DEF r
  <2>2. j.op = "mark" /\ j.vol = v /\ j.rec = r BY DEF NoJob
  <2> HIDE DEF j
  <2>3. (j.op = "mark") = TRUE BY <2>2
  <2>4. j.rec = Marked(j.vol, j.op = "mark") BY <2>2, <2>3 DEF r
  <2>5. UpdateSteps(c) BY DEF UpdateSteps
  <2> QED BY <2>1, <2>4, <2>5
<1>12. UpdateFlush(c) => E
  <2> SUFFICES ASSUME UpdateFlush(c) PROVE E OBVIOUS
  <2> DEFINE r == Marked(job[c].vol, FALSE)
             j == [job[c] EXCEPT !.op = "clear", !.rec = r]
  <2>1. torn' = torn /\ pc'[c] = "lock" /\ job'[c] = j
    BY <1>0 DEF HolderTypes, UpdateFlush, hist
  <2> HIDE DEF r
  <2>2. job[c] \in Jobs BY <1>0 DEF HolderTypes
  <2>3. j.op = "clear" /\ j.vol = job[c].vol /\ j.rec = r BY <2>2 DEF Jobs
  <2> HIDE DEF j
  <2>4. (j.op = "mark") = FALSE BY <2>3
  <2>5. j.rec = Marked(j.vol, j.op = "mark") BY <2>3, <2>4 DEF r
  <2>6. UpdateSteps(c) BY DEF UpdateSteps
  <2> QED BY <2>1, <2>5, <2>6
<1>13. (\E l \in Lebs : UpdateWrite(c, l)) \/ UpdateWipe(c) => E
  <2>1. (\E l \in Lebs : UpdateWrite(c, l)) \/ UpdateWipe(c) => torn' = torn /\ pc'[c] \in {"write", "idle"}
    BY <1>0 DEF HolderTypes, UpdateWrite, UpdateWipe, hist
  <2> QED BY <2>1 DEF UpdateSteps
<1> HIDE DEF E
<1>14. \/ CreateFlush(c) \/ TableStep(c) \/ TableFails(c) \/ LockRemove(c) \/ LockResize(c)
       \/ LockRename(c) \/ LockMark(c)
       \/ CreateEnd(c) \/ RemoveEnd(c) \/ ResizeEnd(c) \/ UnmapFails(c) \/ RenameEnd(c) \/ MarkEnd(c) \/ ClearEnd(c)
       \/ E
  BY <1>1, <1>2, <1>3, <1>4, <1>5, <1>6, <1>7, <1>8, <1>9, <1>10, <1>11, <1>12, <1>13 DEF Client
<1>15. ~(CreateEnd(c) \/ RemoveEnd(c) \/ ResizeEnd(c) \/ UnmapFails(c) \/ RenameEnd(c) \/ MarkEnd(c) \/ ClearEnd(c))
  BY DEF CreateEnd, RemoveEnd, ResizeEnd, UnmapFails, RenameEnd, MarkEnd, ClearEnd
<1>16. ~TableStep(c) BY DEF TableStep, TableQuiet
<1>17. E => Elsewhere(c) BY DEF E, Elsewhere
<1> QED BY <1>14, <1>15, <1>16, <1>17 DEF ChangeSteps

\* Every operation puts the table of its request in RAM.
LEMMA ChangeBegins ==
    ASSUME HolderInv, CopyIs, NEW c \in Clients, ChangeSteps(c)
    PROVE  Begins(c) /\ KeepRam
<1>0. HolderTypes /\ TableBegins(c) /\ vtbl \in Tables BY TableBegun DEF HolderInv, HolderTypes
<1> DEFINE u == job[c].vol
           B(v) == vtbl'[v] = IF v \in Affected(job[c]) THEN Target(job[c], v, vtbl[v]) ELSE vtbl[v]
<1>1. UNCHANGED <<torn, job>> /\ pc[c] \in {"flush", "lock"} /\ pc'[c] = "table"
  BY <1>0 DEF HolderTypes, ChangeSteps, CreateFlush, LockRemove, LockResize, LockRename, LockMark, ChangeTable, hist
<1>2. CASE CreateFlush(c)
  <2>1. vtbl' = [vtbl EXCEPT ![u] = job[c].rec] /\ vols' = vols BY <1>2 DEF CreateFlush, ChangeTable
  <2>2. job[c].op = "create" BY <1>2 DEF CreateFlush, HolderInv, JobInv, JobRule
  <2>3. \A v \in Vols : B(v) BY <1>0, <2>1, <2>2 DEF Affected, Target, Tables
  <2> QED BY <1>0, <1>1, <2>1, <2>3 DEF Begins, KeepRam, Ram
<1>3. CASE LockRemove(c)
  <2>1. vtbl' = [vtbl EXCEPT ![u] = empty_vtbl_record] /\ job[c].op = "remove" BY <1>3 DEF LockRemove, ChangeTable
  <2>2. \A v \in Vols : B(v) BY <1>0, <2>1 DEF Affected, Target, Tables
  <2> QED BY <1>0, <1>1, <1>3, <2>2, LockRemoveKeeps DEF Begins
<1>4. CASE LockResize(c)
  <2>1. vtbl' = [vtbl EXCEPT ![u].size = job[c].rec.size] /\ job[c].op = "resize" /\ vols' = vols
    BY <1>4 DEF LockResize, ChangeTable
  <2>2. \A v \in Vols : B(v) BY <1>0, <2>1 DEF Affected, Target, Tables
  <2> QED BY <1>0, <1>1, <2>1, <2>2 DEF Begins, KeepRam, Ram
<1>5. CASE LockRename(c)
  <2>1. vtbl' = RenamedTable(job[c]) /\ job[c].op = "rename" /\ vols' = vols
    BY <1>5 DEF LockRename, ChangeTable
  <2>2. \A v \in Vols : B(v) BY <2>1 DEF Affected, Target, RenamedTable, Listed
  <2> QED BY <1>0, <1>1, <2>1, <2>2 DEF Begins, KeepRam, Ram
<1>6. CASE LockMark(c)
  <2>1. vtbl' = [vtbl EXCEPT ![u] = job[c].rec] /\ job[c].op \in {"mark", "clear"} /\ vols' = vols /\ pc[c] = "lock"
    BY <1>6 DEF LockMark, ChangeTable
  <2>2. job[c].rec = [vtbl[u] EXCEPT !.mark = (job[c].op = "mark")] BY <2>1 DEF CopyIs, Marked
  <2>3. job[c].rec = Target(job[c], u, vtbl[u])
    <3>1. CASE job[c].op = "mark"
      <4>1. (job[c].op = "mark") = TRUE BY <3>1
      <4> QED BY <2>2, <3>1, <4>1 DEF Target
    <3>2. CASE job[c].op = "clear"
      <4>1. (job[c].op = "mark") = FALSE BY <3>2
      <4> QED BY <2>2, <3>2, <4>1 DEF Target
    <3> QED BY <2>1, <3>1, <3>2
  <2>4. Affected(job[c]) = {u} BY <2>1 DEF Affected
  <2>5. \A v \in Vols : B(v) BY <1>0, <2>1, <2>3, <2>4 DEF Tables
  <2> QED BY <1>0, <1>1, <2>1, <2>5 DEF Begins, KeepRam, Ram
<1> QED BY <1>2, <1>3, <1>4, <1>5, <1>6 DEF ChangeSteps

\* The steps that end a change without a failure.
EndSteps(c) == CreateEnd(c) \/ RemoveEnd(c) \/ ResizeEnd(c) \/ RenameEnd(c) \/ MarkEnd(c) \/ ClearEnd(c)

\* Every operation on one volume ends with the volume of its table.
LEMMA OneFinishes ==
    ASSUME HolderInv, NEW c \in Clients, EndSteps(c), ~RenameEnd(c)
    PROVE  Finishes(c)
<1>0. HolderTypes BY DEF HolderInv
<1> DEFINE u == job[c].vol
           S == /\ pc[c] = "apply" /\ pc'[c] \in {"idle", "wipe"}
                /\ UNCHANGED <<dev, ro, vtbl, done, stage, torn>>
<1>1. CASE CreateEnd(c)
  <2>1. S /\ job[c].op = "create" BY <1>0, <1>1 DEF HolderTypes, CreateEnd, Ends, hist
  <2>2. SetRam(u, job[c].rec) BY <1>1, CreateEndRam
  <2> QED BY <2>1, <2>2 DEF Finishes, SetRam, Affected, Target
<1>2. CASE RemoveEnd(c)
  <2>1. S /\ job[c].op = "remove" BY <1>0, <1>2 DEF HolderTypes, RemoveEnd, Ends, hist
  <2>2. SetRam(u, empty_vtbl_record) BY <1>2, RemoveEndRam
  <2> QED BY <2>1, <2>2 DEF Finishes, SetRam, Affected, Target
<1>3. CASE ResizeEnd(c)
  <2>1. S /\ job[c].op = "resize" BY <1>0, <1>3 DEF HolderTypes, ResizeEnd, Ends, hist
  <2>2. SetRam(u, [Ram(u) EXCEPT !.size = job[c].rec.size]) BY <1>3, ResizeEndRam
  <2> QED BY <2>1, <2>2 DEF Finishes, SetRam, Affected, Target
<1>4. CASE MarkEnd(c)
  <2>1. S /\ job[c].op = "mark" BY <1>0, <1>4 DEF HolderTypes, MarkEnd, hist
  <2>2. SetRam(u, [Ram(u) EXCEPT !.mark = TRUE]) BY <1>4, MarkEndRam
  <2> QED BY <2>1, <2>2 DEF Finishes, SetRam, Affected, Target
<1>5. CASE ClearEnd(c)
  <2>1. S /\ job[c].op = "clear" BY <1>0, <1>5 DEF HolderTypes, ClearEnd, hist
  <2>2. SetRam(u, [Ram(u) EXCEPT !.mark = FALSE]) BY <1>5, ClearEndRam
  <2> QED BY <2>1, <2>2 DEF Finishes, SetRam, Affected, Target
<1> QED BY <1>1, <1>2, <1>3, <1>4, <1>5 DEF EndSteps

\* A re-name ends with the volumes of its table, or breaks off.
LEMMA RenameFinishes ==
    ASSUME HolderInv, NEW c \in Clients, RenameEnd(c)
    PROVE  Finishes(c)
<1>0. HolderTypes BY DEF HolderInv
<1>1. PICK gone \in SUBSET job[c].drop :
        /\ torn' = torn \cup (IF gone = job[c].drop THEN {} ELSE Listed(job[c]))
        /\ Ends(c, [v \in Vols |->
                      IF v \in gone THEN None
                      ELSE IF gone = job[c].drop /\ v \in DOMAIN job[c].names
                           THEN [vols[v] EXCEPT !.name = job[c].names[v]] ELSE vols[v]])
  BY DEF RenameEnd
<1>2. pc[c] = "apply" /\ job[c].op = "rename" /\ UNCHANGED <<dev, ro, vtbl, done, stage>> BY DEF RenameEnd
<1>3. RenamedRam(job[c], gone) BY <1>1, <1>2, RenameEndRam
<1>4. pc'[c] = "idle" BY <1>0, <1>1 DEF HolderTypes, Ends
<1>5. torn \subseteq torn' BY <1>1
<1>6. \A v \in Vols \ torn' : Ram(v)' = IF v \in Affected(job[c]) THEN Target(job[c], v, Ram(v)) ELSE Ram(v)
  <2>1. CASE gone = job[c].drop
    BY <1>2, <1>3, <2>1 DEF RenamedRam, Affected, Target, Listed
  <2>2. CASE gone # job[c].drop
    <3>1. \A v \in Vols \ torn' : v \notin Listed(job[c]) /\ v \notin gone BY <1>1, <2>2 DEF Listed
    <3> QED BY <1>2, <1>3, <2>2, <3>1 DEF RenamedRam, Affected
  <2> QED BY <2>1, <2>2
<1> QED BY <1>2, <1>4, <1>5, <1>6 DEF Finishes

\* Who has written the table ends its request.
LEMMA ClientApplies ==
    ASSUME NEW c \in Clients, Client(c), pc[c] = "apply"
    PROVE  EndSteps(c) \/ UnmapFails(c)
<1>1. ~((\E v \in Vols, m \in Modes : Open(c, v, m)) \/ Close(c) \/ (\E v \in Vols : ShowStart(c, v)) \/ ShowEnd(c))
  BY DEF Open, Close, ShowStart, ShowEnd, Idle
<1>2. ~(\E v \in Vols, l \in Lebs : Write(c, v, l) \/ Unmap(c, v, l)) BY DEF Write, Unmap
<1>3. ~(\E v \in Vols, n \in Names, s \in 1 .. MaxSize : CreateStart(c, v, n, s)) BY DEF CreateStart, Idle
<1>4. ~((\E v \in Vols : Remove(c, v)) \/ (\E v \in Vols, s \in 1 .. MaxSize : Exists(v) /\ Resize(c, v, s)))
  BY DEF Remove, Resize, Request, Idle
<1>5. ~(GiveUp(c) \/ RenameBusy(c)) BY DEF GiveUp, RenameBusy
<1>6. ~((\E f \in Requests : RenameStart(c, f)) \/ (\E v \in Vols : RenameOpen(c, v) \/ RenameFind(c, v))
         \/ RenameOpenNamed(c))
  BY DEF RenameStart, RenameOpen, RenameFind, RenameOpenNamed, Idle
<1>7. ~((\E v \in Vols : UpdateStart(c, v)) \/ (\E l \in Lebs : UpdateWrite(c, l)) \/ UpdateWipe(c) \/ UpdateFlush(c))
  BY DEF UpdateStart, UpdateWrite, UpdateWipe, UpdateFlush
<1>8. ~(CreateFlush(c) \/ LockRemove(c) \/ LockResize(c) \/ LockRename(c) \/ LockMark(c) \/ TableStep(c) \/ TableFails(c))
  BY DEF CreateFlush, LockRemove, LockResize, LockRename, LockMark, TableStep, TableFails
<1> QED BY <1>1, <1>2, <1>3, <1>4, <1>5, <1>6, <1>7, <1>8 DEF Client, EndSteps

\* Every step of a process preserves the table rules.
LEMMA ClientTableInv ==
    ASSUME HolderInv, FlashTypes, TableInv, NEW c \in Clients, Client(c)
    PROVE  TableInv'
<1>0. Others(c) BY ClientOthers
<1>1. CASE TableFails(c)
  <2>1. ro' = TRUE BY <1>1 DEF TableFails
  <2> QED BY <2>1 DEF TableInv
<1>2. CASE TableStep(c) BY <1>0, <1>2, TableStepTable
<1>3. CASE ChangeSteps(c)
  <2>1. CASE dev = "on" /\ ~ro
    <3>1. CopyIs BY <2>1 DEF TableInv, TableRules
    <3> QED BY <1>0, <1>3, <3>1, ChangeBegins, BeginsTable
  <2>2. CASE ~(dev = "on" /\ ~ro)
    <3>1. UNCHANGED <<dev, ro>> BY <1>3, TableBegun DEF TableBegins
    <3> QED BY <2>2, <3>1 DEF TableInv
  <2> QED BY <2>1, <2>2
<1>4. CASE pc[c] = "apply"
  <2>1. CASE UnmapFails(c)
    <3>1. ro /\ ro' = ro /\ dev' = dev BY <2>1 DEF UnmapFails
    <3> QED BY <3>1 DEF TableInv
  <2>2. CASE EndSteps(c) BY <1>0, <2>2, OneFinishes, RenameFinishes, FinishesTable
  <2> QED BY <1>4, <2>1, <2>2, ClientApplies
<1>5. CASE pc[c] # "apply" /\ ~TableFails(c) /\ ~TableStep(c) /\ ~ChangeSteps(c)
  <2>1. TableQuiet(c) BY <1>5, ClientTable
  <2>2. Elsewhere(c) BY <1>5, <2>1, ClientElsewhere
  <2>3. KeepRam BY <1>5, ClientRam
        DEF Changes, CreateEnd, RemoveEnd, ResizeEnd, RenameEnd, MarkEnd, ClearEnd
  <2> QED BY <1>0, <2>2, <2>3, ElsewhereTable
<1> QED BY <1>1, <1>2, <1>3, <1>4, <1>5

\* Every step preserves the table rules.
LEMMA TableInvStep == ASSUME HolderInv, FlashTypes, TableInv, [Next]_vars PROVE TableInv'
<1>1. CASE \E c \in Clients : Client(c) BY <1>1, ClientTableInv
<1>2. CASE PebGoesBad \/ GoesReadOnly \/ UNCHANGED vars
  <2>1. UNCHANGED <<dev, vols, vtbl, done, stage, pc, job, torn>> /\ (ro' = ro \/ ro' = TRUE)
    BY <1>2 DEF PebGoesBad, GoesReadOnly, vars, flash, hist
  <2>2. CASE ro' = TRUE BY <2>2 DEF TableInv
  <2>3. CASE ro' = ro
    BY <2>1, <2>3 DEF TableInv, TableRules, ChangesTo, Agrees, CopyIs, WritesTo, Wrote, OldIs, Changing, Writing, Ram, Marked
  <2> QED BY <2>1, <2>2, <2>3
<1>3. CASE PowerCut
  <2>1. CASE dev' = "refused" BY <2>1 DEF TableInv
  <2> QED BY <1>3, <2>1, CutIs, AttachesTable
<1> QED BY <1>1, <1>2, <1>3 DEF Next

\* The table rules hold at first.
LEMMA TableInvInit == Init => TableInv
<1> SUFFICES ASSUME Init PROVE TableInv OBVIOUS
<1>1. \A c \in Clients : pc[c] = "idle" BY DEF Init
<1>2. \A v \in Vols : vtbl[v] = empty_vtbl_record /\ done[v] = empty_vtbl_record /\ Ram(v) = empty_vtbl_record
  BY DEF Init, EmptyTable, Closed, Ram, RecordOf
<1> QED BY <1>1, <1>2
        DEF TableInv, TableRules, ChangesTo, Agrees, CopyIs, WritesTo, Wrote, OldIs, Changing, Writing

\* The table rules imply TablesMatch.
LEMMA MatchHolds == ASSUME HolderInv, TableInv PROVE TablesMatch
<1> SUFFICES ASSUME dev = "on", mutex = None, ~ro, NEW v \in Vols \ torn PROVE vtbl[v] = RecordOf(vols[v])
  BY DEF TablesMatch
<1>1. \A c \in Clients : ~Changing(c) BY OneChanges
<1>2. Agrees BY DEF TableInv, TableRules
<1> QED BY <1>1, <1>2 DEF Agrees, Ram

\* paranoid_check_volumes() never fails while the device works and no
\* operation is under way: the volumes in RAM are those of the table.
THEOREM TablesStayEqual == Spec => []TablesMatch
<1>1. Init => TableInv BY TableInvInit
<1>2. HolderInv /\ FlashTypes /\ TableInv /\ [Next]_vars => TableInv' BY TableInvStep
<1>3. HolderInv /\ TableInv => TablesMatch BY MatchHolds
<1>4. Spec => [](HolderInv /\ FlashTypes) BY Holders
<1> QED BY <1>1, <1>2, <1>3, <1>4, PTL DEF Spec

-----------------------------------------------------------------------------
(*****************************************************************************)
(* The data of the volumes.                                                  *)
(*****************************************************************************)

\* An update is over when LEB 0 has the table without the marker.
Clearing(c) == job[c].op = "clear" /\ (pc[c] = "lock" \/ Writing(c))

\* No LEB is mapped beyond the end of its volume.
InBounds == dev = "on" => \A v \in Vols, l \in Lebs : eba[v][l] # None => l < Ram(v).size

\* NoStaleData, also while the device is refused.
Clean == \A v \in Vols : done[v].size > 0 /\ ~done[v].mark =>
    \A l \in Lebs : /\ eba[v][l] \in {"data", None}
                    /\ eba[v][l] = None => pend[v][l] \in {"data", None}

\* What process c has found, or left, in the LEBs of its volume.
Leaves(c) ==
    /\ (Writing(c) /\ job[c].op = "create") \/ Clearing(c) => \A l \in Lebs : pend[job[c].vol][l] = None
    /\ pc[c] = "write" \/ Clearing(c) => \A l \in Lebs : eba[job[c].vol][l] \in {"new", None}
    /\ ~ro /\ (pc[c] \in {"wipe", "write"} \/ Clearing(c)) => done[job[c].vol].mark

DataInv == InBounds /\ Clean /\ \A c \in Clients : Leaves(c)

\* A step of process c that leaves the volumes of the others alone.
Spares(c) ==
    /\ \A v \in Vols : desc[c][v] = None =>
          \A l \in Lebs : eba'[v][l] = eba[v][l] /\ pend'[v][l] \in {pend[v][l], None}
    /\ \A v \in Vols : (\E d \in Clients \ {c} : desc[d][v] # None) => done'[v] = done[v]
    /\ stage' = stage \/ \A d \in Clients \ {c} : pc[d] # "table"
    /\ ~ro' => ~ro

\* The volume that a process has to itself.
LEMMA HisOwn ==
    ASSUME HolderInv, NEW d \in Clients,
           pc[d] \in {"wipe", "write"} \/ Clearing(d) \/ (Writing(d) /\ job[d].op = "create")
    PROVE  /\ job[d].vol \in Vols
           /\ pc[d] \in {"wipe", "write"} \/ Clearing(d) => desc[d][job[d].vol] = "ex" /\ desc[d][job[d].vol] # None
           /\ \A c \in Clients \ {d} : desc[c][job[d].vol] = None
<1> DEFINE v == job[d].vol
<1>0. "ex" # None BY VolNone DEF Modes
<1>1. CASE pc[d] \in {"wipe", "write"}
  <2>1. v \in Vols /\ desc[d][v] = "ex" BY <1>1 DEF HolderInv, JobInv, JobRule, Owns
  <2> QED BY <1>0, <2>1, Exclusive
<1>2. CASE Clearing(d)
  <2>1. pc[d] \in {"lock", "table"} /\ job[d].op = "clear" BY <1>2 DEF Clearing, Writing
  <2>2. v \in Affected(job[d]) BY <2>1 DEF Affected
  <2>3. v \in Vols /\ desc[d][v] = "ex" BY <2>1, <2>2, AffectedIs
  <2> QED BY <1>0, <2>3, Exclusive
<1>3. CASE Writing(d) /\ job[d].op = "create"
  <2>1. pc[d] = "table" BY <1>3 DEF Writing
  <2>2. v \in Affected(job[d]) BY <1>3 DEF Affected
  <2>3. v \in Vols /\ vols[v] = None BY <1>3, <2>1, <2>2, AffectedIs
  <2>4. \A c \in Clients : desc[c][v] = None BY <2>3, VolumeOf, VolNone
  <2>5. ~(pc[d] \in {"wipe", "write"}) /\ ~Clearing(d) BY <1>3, <2>1 DEF Clearing
  <2> QED BY <2>3, <2>4, <2>5
<1> QED BY <1>1, <1>2, <1>3

\* A step that spares the volumes of the others leaves what they have found.
LEMMA OthersLeave ==
    ASSUME HolderInv, DataInv, NEW c \in Clients, Others(c), Spares(c), NEW d \in Clients \ {c}
    PROVE  Leaves(d)'
<1> DEFINE v == job[d].vol
<1>1. pc'[d] = pc[d] /\ job'[d] = job[d] BY DEF Others
<1>2. Writing(d)' => Writing(d) BY <1>1 DEF Writing, Spares
<1>3. Clearing(d)' => Clearing(d) BY <1>1, <1>2 DEF Clearing
<1>4. Leaves(d) BY DEF DataInv
<1>5. CASE pc[d] \in {"wipe", "write"} \/ Clearing(d) \/ (Writing(d) /\ job[d].op = "create")
  <2>1. v \in Vols /\ desc[c][v] = None BY <1>5, HisOwn
  <2>2. \A l \in Lebs : eba'[v][l] = eba[v][l] /\ pend'[v][l] \in {pend[v][l], None} BY <2>1 DEF Spares
  <2>3. pc[d] \in {"wipe", "write"} \/ Clearing(d) => done'[v] = done[v]
    <3>1. pc[d] \in {"wipe", "write"} \/ Clearing(d) => desc[d][v] # None BY HisOwn
    <3> QED BY <2>1, <3>1 DEF Spares
  <2>4. ~ro' => ~ro BY DEF Spares
  <2> QED BY <1>1, <1>2, <1>3, <1>4, <2>2, <2>3, <2>4 DEF Leaves
<1>6. CASE ~(pc[d] \in {"wipe", "write"} \/ Clearing(d) \/ (Writing(d) /\ job[d].op = "create"))
  <2>1. ~Clearing(d)' /\ ~(Writing(d)' /\ job'[d].op = "create") /\ pc'[d] \notin {"wipe", "write"}
    BY <1>1, <1>2, <1>3, <1>6
  <2> QED BY <2>1 DEF Leaves
<1> QED BY <1>5, <1>6

\* A step of one process that preserves the data invariant.
LEMMA DataMoves ==
    ASSUME HolderInv, DataInv, NEW c \in Clients, Others(c), Spares(c), InBounds', Clean', Leaves(c)'
    PROVE  DataInv'
<1>1. \A d \in Clients : Leaves(d)' BY OthersLeave
<1> QED BY <1>1 DEF DataInv

\* What leaves the LEBs clean.
LEMMA CleanUnmapped ==
    ASSUME FlashTypes, Clean, NEW S, Unmapped(S), done' = done
    PROVE  Clean'
<1>1. \A v \in Vols, l \in Lebs :
         /\ eba'[v][l] = IF <<v, l>> \in S THEN None ELSE eba[v][l]
         /\ pend'[v][l] = IF <<v, l>> \in S /\ eba[v][l] # None THEN eba[v][l] ELSE pend[v][l]
  BY UnmappedTyped
<1> SUFFICES ASSUME NEW v \in Vols, done[v].size > 0, ~done[v].mark, NEW l \in Lebs
             PROVE  eba'[v][l] \in {"data", None} /\ (eba'[v][l] = None => pend'[v][l] \in {"data", None})
  BY DEF Clean
<1>2. eba[v][l] \in {"data", None} /\ (eba[v][l] = None => pend[v][l] \in {"data", None}) BY DEF Clean
<1>3. CASE <<v, l>> \in S
  <2>1. eba'[v][l] = None /\ pend'[v][l] = IF eba[v][l] # None THEN eba[v][l] ELSE pend[v][l] BY <1>1, <1>3
  <2> QED BY <1>2, <2>1
<1>4. CASE <<v, l>> \notin S
  <2>1. eba'[v][l] = eba[v][l] /\ pend'[v][l] = pend[v][l] BY <1>1, <1>4
  <2> QED BY <1>2, <2>1
<1> QED BY <1>3, <1>4

\* New data in a LEB leaves the volumes clean.
LEMMA CleanWritten ==
    ASSUME FlashTypes, Clean, NEW v \in Vols, NEW l \in Lebs, NEW x \in Contents, Written(v, l, x), done' = done,
           x = "data" \/ done[v].mark
    PROVE  Clean'
<1>1. \A w \in Vols, k \in Lebs : /\ eba'[w][k] = IF w = v /\ k = l THEN x ELSE eba[w][k]
                                  /\ pend'[w][k] = IF w = v /\ k = l THEN None ELSE pend[w][k]
  BY WrittenTyped
<1> SUFFICES ASSUME NEW w \in Vols, done[w].size > 0, ~done[w].mark, NEW k \in Lebs
             PROVE  eba'[w][k] \in {"data", None} /\ (eba'[w][k] = None => pend'[w][k] \in {"data", None})
  BY DEF Clean
<1>2. eba[w][k] \in {"data", None} /\ (eba[w][k] = None => pend[w][k] \in {"data", None}) BY DEF Clean
<1>3. CASE w = v /\ k = l BY <1>1, <1>3
<1>4. CASE ~(w = v /\ k = l)
  <2>1. eba'[w][k] = eba[w][k] /\ pend'[w][k] = pend[w][k] BY <1>1, <1>4
  <2> QED BY <1>2, <2>1
<1> QED BY <1>3, <1>4

\* ubi_wl_flush() leaves the volumes clean.
LEMMA CleanFlushed ==
    ASSUME FlashTypes, Clean, Flushed, UNCHANGED <<eba, done>>
    PROVE  Clean'
<1>1. \A v \in Vols, l \in Lebs : pend'[v][l] = None BY FlushedTyped
<1> QED BY <1>1 DEF Clean

\* Volumes that stay as large as they are.
LEMMA KeptInBounds ==
    ASSUME InBounds, KeepRam, dev' = dev,
           \A v \in Vols, l \in Lebs : eba'[v][l] # None => eba[v][l] # None \/ l < Ram(v).size
    PROVE  InBounds'
BY DEF InBounds, KeepRam

\* The size of a volume that is open.
LEMMA OpenSize ==
    ASSUME HolderInv, NEW c \in Clients, NEW v \in Vols, desc[c][v] # None
    PROVE  Ram(v).size = vols[v].size /\ vols[v].size \in Nat
<1>1. vols[v] \in Volumes BY VolumeOf
<1>2. vols[v] # None /\ vols[v].size \in Nat BY <1>1, VolNone, VolSizes DEF Volumes
<1> QED BY <1>2 DEF Ram, RecordOf

\* The steps that leave the LEBs alone.
LEMMA CalmSpares ==
    ASSUME NEW c \in Clients, UNCHANGED <<eba, pend, done>>, ~ro' => ~ro,
           stage' = stage \/ \A d \in Clients \ {c} : pc[d] # "table"
    PROVE  Spares(c)
BY DEF Spares

\* A step that leaves the LEBs preserves the data invariant.
LEMMA CalmData ==
    ASSUME HolderInv, DataInv, NEW c \in Clients, Others(c), Elsewhere(c), ~UpdateSteps(c), KeepRam,
           UNCHANGED <<eba, pend>>
    PROVE  DataInv'
<1>1. UNCHANGED <<dev, ro, done, stage>> /\ pc'[c] \notin {"wipe", "write", "table"}
      /\ ~(pc'[c] = "lock" /\ job'[c].op = "clear")
  BY DEF Elsewhere, TableQuiet
<1>2. Spares(c) BY <1>1, CalmSpares
<1>3. Leaves(c)' BY <1>1 DEF Leaves, Clearing, Writing
<1>4. Clean' BY <1>1 DEF DataInv, Clean
<1>5. InBounds' BY <1>1, KeptInBounds DEF DataInv
<1> QED BY <1>2, <1>3, <1>4, <1>5, DataMoves

\* Writes and unmaps of a user, within the volume, preserve the data invariant.
LEMMA WriteData ==
    ASSUME HolderInv, FlashTypes, DataInv, NEW c \in Clients, NEW v \in Vols, NEW l \in Lebs,
           Write(c, v, l) \/ Unmap(c, v, l)
    PROVE  DataInv'
<1>1. /\ pc[c] = "idle" /\ desc[c][v] = "rw" /\ l < vols[v].size
      /\ UNCHANGED <<dev, ro, vols, done, stage, pc, job, desc>>
  BY DEF Write, Unmap, Holds, hist
<1>2. Others(c) /\ KeepRam BY <1>1 DEF Others, KeepRam, Ram
<1>3. desc[c][v] # None BY <1>1, VolNone DEF Modes
<1>4. Ram(v).size = vols[v].size BY <1>3, OpenSize
<1>5. Leaves(c)' BY <1>1 DEF Leaves, Clearing, Writing
<1>6. CASE Write(c, v, l)
  <2>1. Written(v, l, "data") /\ "data" \in Contents BY <1>6 DEF Write, Contents
  <2>2. \A w \in Vols, k \in Lebs : /\ eba'[w][k] = IF w = v /\ k = l THEN "data" ELSE eba[w][k]
                                    /\ pend'[w][k] = IF w = v /\ k = l THEN None ELSE pend[w][k]
    BY <2>1, WrittenTyped
  <2>3. Clean' BY <1>1, <2>1, CleanWritten DEF DataInv
  <2>4. InBounds' BY <1>1, <1>2, <1>4, <2>2, KeptInBounds DEF DataInv
  <2>5. Spares(c) BY <1>1, <1>3, <2>2 DEF Spares
  <2> QED BY <1>2, <1>5, <2>3, <2>4, <2>5, DataMoves
<1>7. CASE Unmap(c, v, l)
  <2>1. Unmapped({<<v, l>>}) BY <1>7 DEF Unmap
  <2> DEFINE S == {<<v, l>>}
  <2>2. \A w \in Vols, k \in Lebs : <<w, k>> \in S => w = v OBVIOUS
  <2>3. Unmapped(S) BY <2>1
  <2> HIDE DEF S
  <2>4. \A w \in Vols, k \in Lebs :
           /\ eba'[w][k] = IF <<w, k>> \in S THEN None ELSE eba[w][k]
           /\ pend'[w][k] = IF <<w, k>> \in S /\ eba[w][k] # None THEN eba[w][k] ELSE pend[w][k]
    BY <2>3, UnmappedTyped
  <2>5. Clean' BY <1>1, <2>3, CleanUnmapped DEF DataInv
  <2>6. InBounds' BY <1>1, <1>2, <2>4, KeptInBounds DEF DataInv
  <2>7. Spares(c) BY <1>1, <1>3, <2>2, <2>4 DEF Spares
  <2> QED BY <1>2, <1>5, <2>5, <2>6, <2>7, DataMoves
<1> QED BY <1>6, <1>7

\* Nobody is changing the volume that process c has open.
LEMMA QuietVolume ==
    ASSUME HolderInv, NEW c \in Clients, NEW v \in Vols, desc[c][v] # None, pc[c] \notin {"table", "apply"}
    PROVE  \A d \in Clients : Changing(d) => v \notin Affected(job[d])
BY Apart DEF Changing

\* An update that finds the marker set finds it in the table on flash.
LEMMA UpdateStartData ==
    ASSUME HolderInv, FlashTypes, TableInv, DataInv, NEW c \in Clients, NEW v \in Vols, UpdateStart(c, v)
    PROVE  DataInv'
<1>0. HolderTypes BY DEF HolderInv
<1> DEFINE r == Marked(v, TRUE)
           j == [NoJob EXCEPT !.op = "mark", !.vol = v, !.rec = r]
<1>1. /\ pc[c] = "idle" /\ desc[c][v] = "rw" /\ UNCHANGED <<dev, ro, eba, pend, done, stage>>
      /\ pc'[c] = (IF vols[v].mark THEN "wipe" ELSE "lock") /\ job'[c] = j
  BY <1>0 DEF HolderTypes, UpdateStart, Holds, flash, hist
<1>2. desc[c][v] # None BY <1>1, VolNone DEF Modes
<1> HIDE DEF r
<1>3. j.op = "mark" /\ j.vol = v BY DEF NoJob
<1> HIDE DEF j
<1>4. vols[v].mark /\ ~ro => done[v].mark
  <2> SUFFICES ASSUME vols[v].mark, ~ro PROVE done[v].mark OBVIOUS
  <2>1. dev = "on" BY <1>2, ClientOn DEF Closed
  <2>2. TableRules BY <2>1 DEF TableInv
  <2>3. v \notin torn BY <1>1, <1>2 DEF HolderInv, LifeInv
  <2>4. \A d \in Clients : Changing(d) => v \notin Affected(job[d]) BY <1>1, <1>2, QuietVolume
  <2>5. vtbl[v] = Ram(v) BY <2>2, <2>3, <2>4 DEF TableRules, Agrees
  <2>6. vtbl[v] = done[v] BY <2>2, <2>4, OneChanges DEF TableRules, Wrote
  <2>7. vols[v] # None BY <1>2, VolumeOf, VolNone
  <2>8. Ram(v).mark = vols[v].mark BY <2>7 DEF Ram, RecordOf
  <2> QED BY <2>5, <2>6, <2>8
<1>5. Others(c)
  <2>1. Client(c) BY DEF Client
  <2> QED BY <2>1, ClientOthers
<1>6. KeepRam BY UpdateStartKeeps
<1>7. Spares(c) BY <1>1, CalmSpares
<1>8. Leaves(c)' BY <1>1, <1>3, <1>4 DEF Leaves, Clearing, Writing
<1>9. Clean' BY <1>1 DEF DataInv, Clean
<1>10. InBounds' BY <1>1, <1>6, KeptInBounds DEF DataInv
<1> QED BY <1>5, <1>7, <1>8, <1>9, <1>10, DataMoves

\* A volume wiped out has the marker on flash.
LEMMA UpdateWipeData ==
    ASSUME HolderInv, FlashTypes, DataInv, NEW c \in Clients, UpdateWipe(c)
    PROVE  DataInv'
<1>0. HolderTypes BY DEF HolderInv
<1> DEFINE v == job[c].vol
           Old(x) == IF x = "new" THEN "data" ELSE x
           new == [l \in Lebs |-> Old(IF eba[v][l] # None THEN eba[v][l] ELSE pend[v][l])]
<1>1. pc[c] = "wipe" /\ UNCHANGED <<dev, ro, vols, done, stage, job>> /\ pc'[c] = IF ro THEN "idle" ELSE "write"
  BY <1>0 DEF HolderTypes, UpdateWipe, hist
<1>2. Others(c)
  <2>1. Client(c) BY DEF Client
  <2> QED BY <2>1, ClientOthers
<1>3. KeepRam BY <1>1 DEF KeepRam, Ram
<1>4. v \in Vols /\ desc[c][v] # None BY <1>1, HisOwn
<1>5. CASE ro
  <2>1. UNCHANGED <<eba, pend>> BY <1>5 DEF UpdateWipe
  <2>2. Spares(c) BY <1>1, <2>1, CalmSpares
  <2>3. Leaves(c)' BY <1>1, <1>5 DEF Leaves, Clearing, Writing
  <2>4. Clean' BY <1>1, <2>1 DEF DataInv, Clean
  <2>5. InBounds' BY <1>1, <1>3, <2>1, KeptInBounds DEF DataInv
  <2> QED BY <1>2, <2>2, <2>3, <2>4, <2>5, DataMoves
<1>6. CASE ~ro
  <2>1. eba' = [eba EXCEPT ![v] = Nothing] /\ pend' = [pend EXCEPT ![v] = new] BY <1>6 DEF UpdateWipe
  <2>2. done[v].mark BY <1>1, <1>6 DEF DataInv, Leaves
  <2>3. \A l \in Lebs : Nothing[l] = None BY DEF Nothing
  <2> HIDE DEF new, v
  <2>4. \A w \in Vols : w # v => eba'[w] = eba[w] /\ pend'[w] = pend[w] BY <1>4, <2>1 DEF FlashTypes
  <2>5. \A l \in Lebs : eba'[v][l] = None BY <1>4, <2>1, <2>3 DEF FlashTypes
  <2>6. Spares(c) BY <1>1, <1>4, <2>4 DEF Spares
  <2>7. Clean' BY <1>1, <2>2, <2>4 DEF DataInv, Clean
  <2>8. InBounds'
    <3>1. \A w \in Vols, l \in Lebs : eba'[w][l] # None => eba[w][l] # None BY <2>4, <2>5
    <3> QED BY <1>1, <1>3, <3>1, KeptInBounds DEF DataInv
  <2>9. Leaves(c)'
    <3>1. pc'[c] = "write" /\ job'[c] = job[c] BY <1>1, <1>6
    <3> QED BY <1>1, <2>2, <2>5, <3>1 DEF Leaves, Clearing, Writing, v
  <2> QED BY <1>2, <2>6, <2>7, <2>8, <2>9, DataMoves
<1> QED BY <1>5, <1>6

\* Update data is written while the table on flash has the marker.
LEMMA UpdateWriteData ==
    ASSUME HolderInv, FlashTypes, DataInv, NEW c \in Clients, NEW l \in Lebs, UpdateWrite(c, l)
    PROVE  DataInv'
<1> DEFINE v == job[c].vol
<1>1. /\ pc[c] = "write" /\ ~ro /\ l < vols[v].size /\ Written(v, l, "new")
      /\ UNCHANGED <<dev, ro, vols, done, stage, pc, job, desc>>
  BY DEF UpdateWrite, hist
<1>2. Others(c) /\ KeepRam BY <1>1 DEF Others, KeepRam, Ram
<1>3. v \in Vols /\ desc[c][v] # None BY <1>1, HisOwn
<1>4. Ram(v).size = vols[v].size BY <1>3, OpenSize
<1>5. done[v].mark /\ \A k \in Lebs : eba[v][k] \in {"new", None} BY <1>1 DEF DataInv, Leaves
<1> HIDE DEF v
<1>6. "new" \in Contents BY DEF Contents
<1>7. \A w \in Vols, k \in Lebs : /\ eba'[w][k] = IF w = v /\ k = l THEN "new" ELSE eba[w][k]
                                  /\ pend'[w][k] = IF w = v /\ k = l THEN None ELSE pend[w][k]
  BY <1>1, <1>3, <1>6, WrittenTyped
<1>8. Clean'
  <2>1. FlashTypes /\ Clean /\ done' = done BY <1>1 DEF DataInv
  <2> DEFINE x == "new"
  <2>2. x \in Contents /\ Written(v, l, x) BY <1>1, <1>6
  <2> HIDE DEF x
  <2> QED BY <1>3, <1>5, <2>1, <2>2, CleanWritten
<1>9. InBounds' BY <1>1, <1>2, <1>4, <1>7, KeptInBounds DEF DataInv
<1>10. Spares(c) BY <1>1, <1>3, <1>7 DEF Spares
<1>11. Leaves(c)' BY <1>1, <1>3, <1>5, <1>7 DEF Leaves, Clearing, Writing, v
<1> QED BY <1>2, <1>8, <1>9, <1>10, <1>11, DataMoves

\* The marker goes when nothing of before the update waits for erasure.
LEMMA UpdateFlushData ==
    ASSUME HolderInv, FlashTypes, DataInv, NEW c \in Clients, UpdateFlush(c)
    PROVE  DataInv'
<1>0. HolderTypes BY DEF HolderInv
<1> DEFINE v == job[c].vol
           r == Marked(v, FALSE)
           j == [job[c] EXCEPT !.op = "clear", !.rec = r]
<1>1. /\ pc[c] = "write" /\ ~ro /\ Flushed /\ UNCHANGED <<dev, ro, vols, eba, done, stage>>
      /\ pc'[c] = "lock" /\ job'[c] = j
  BY <1>0 DEF HolderTypes, UpdateFlush, hist
<1>2. Others(c)
  <2>1. Client(c) BY DEF Client
  <2> QED BY <2>1, ClientOthers
<1>3. KeepRam BY <1>1 DEF KeepRam, Ram
<1>4. v \in Vols /\ desc[c][v] # None BY <1>1, HisOwn
<1>5. done[v].mark /\ \A k \in Lebs : eba[v][k] \in {"new", None} BY <1>1 DEF DataInv, Leaves
<1> HIDE DEF r
<1>6. j.vol = v
  <2>1. job[c] \in Jobs BY <1>0 DEF HolderTypes
  <2> QED BY <2>1 DEF Jobs
<1> HIDE DEF j, v
<1>7. \A w \in Vols, l \in Lebs : pend'[w][l] = None BY <1>1, FlushedTyped
<1>8. Clean' BY <1>1, CleanFlushed DEF DataInv
<1>9. InBounds' BY <1>1, <1>3, KeptInBounds DEF DataInv
<1>10. Spares(c) BY <1>1, <1>7 DEF Spares
<1>11. Leaves(c)' BY <1>1, <1>4, <1>5, <1>6, <1>7 DEF Leaves
<1> QED BY <1>2, <1>8, <1>9, <1>10, <1>11, DataMoves

\* A new table in RAM leaves the data; a creation has waited for the erasures.
LEMMA ChangeData ==
    ASSUME HolderInv, FlashTypes, DataInv, NEW c \in Clients, Others(c), ChangeSteps(c)
    PROVE  DataInv'
<1>0. HolderTypes BY DEF HolderInv
<1>1. /\ pc'[c] = "table" /\ UNCHANGED <<dev, ro, eba, done, job>> /\ stage' = 0
      /\ pc[c] = "flush" \/ mutex = None
      /\ (pc[c] = "flush" /\ job[c].op = "create" /\ Flushed) \/ (pc[c] = "lock" /\ pend' = pend)
  <2>1. CreateFlush(c) => job[c].op = "create" BY DEF CreateFlush, HolderInv, JobInv, JobRule
  <2> QED BY <1>0, <2>1 DEF HolderTypes, ChangeSteps, CreateFlush, LockRemove, LockResize, LockRename, LockMark,
               ChangeTable, hist, flash
<1>2. KeepRam
  <2>1. CASE LockRemove(c) BY <2>1, LockRemoveKeeps
  <2>2. CASE ~LockRemove(c)
    <3>1. vols' = vols BY <2>2 DEF ChangeSteps, CreateFlush, LockResize, LockRename, LockMark
    <3> QED BY <3>1 DEF KeepRam, Ram
  <2> QED BY <2>1, <2>2
<1>3. \A d \in Clients \ {c} : pc[d] # "table" BY <1>1, OneChanges DEF Changing
<1>4. \A v \in Vols, l \in Lebs : pend'[v][l] \in {pend[v][l], None} BY <1>1, FlushedTyped
<1>5. Spares(c) BY <1>1, <1>3, <1>4 DEF Spares
<1>6. Clean'
  <2>1. CASE Flushed BY <1>1, <2>1, CleanFlushed DEF DataInv
  <2>2. CASE pend' = pend BY <1>1, <2>2 DEF DataInv, Clean
  <2> QED BY <1>1, <2>1, <2>2
<1>7. InBounds' BY <1>1, <1>2, KeptInBounds DEF DataInv
<1>8. Leaves(c)'
  <2>1. CASE pc[c] = "flush" /\ job[c].op = "create" /\ Flushed
    <3>1. job[c].vol \in Vols BY <2>1 DEF HolderInv, JobInv, JobRule
    <3>2. \A l \in Lebs : pend'[job[c].vol][l] = None BY <2>1, <3>1, FlushedTyped
    <3> QED BY <1>1, <2>1, <3>2 DEF Leaves, Clearing
  <2>2. CASE pc[c] = "lock" /\ pend' = pend
    <3>1. job[c].op # "create" BY <2>2 DEF HolderInv, JobInv, JobRule, OneVolume
    <3>2. Clearing(c)' => Clearing(c) BY <1>1, <2>2 DEF Clearing
    <3>3. Leaves(c) BY DEF DataInv
    <3> QED BY <1>1, <2>2, <3>1, <3>2, <3>3 DEF Leaves
  <2> QED BY <1>1, <2>1, <2>2
<1> QED BY <1>5, <1>6, <1>7, <1>8, DataMoves

\* A table that cannot be written leaves the data.
LEMMA FailsData ==
    ASSUME HolderInv, FlashTypes, DataInv, NEW c \in Clients, Others(c), TableFails(c)
    PROVE  DataInv'
<1>0. HolderTypes BY DEF HolderInv
<1>1. pc[c] \in {"flush", "table"} /\ UNCHANGED <<dev, eba, pend, done>> /\ ro' = TRUE /\ stage' = 0
  BY DEF TableFails, hist, flash
<1>2. pc'[c] = "idle" BY <1>0 DEF HolderTypes, TableFails, Ends
<1>3. \A d \in Clients \ {c} : pc[d] # "table" BY <1>1, OneChanges DEF Changing
<1>4. Spares(c) BY <1>1, <1>3 DEF Spares
<1>5. Clean' BY <1>1 DEF DataInv, Clean
<1>6. Leaves(c)' BY <1>2 DEF Leaves, Clearing, Writing
<1>7. InBounds'
  <2>1. CASE KeepRam BY <1>1, <2>1, KeptInBounds DEF DataInv
  <2>2. CASE ~KeepRam
    <3> DEFINE b == job[c].op = "mark"
    <3>1. SetRam(job[c].vol, [Ram(job[c].vol) EXCEPT !.mark = b]) BY <2>2, TableFailsRam
    <3> HIDE DEF b
    <3>2. \A v \in Vols : Ram(v).size' = Ram(v).size
      <4> SUFFICES ASSUME NEW v \in Vols PROVE Ram(v).size' = Ram(v).size OBVIOUS
      <4>1. Ram(v) \in Records BY TotalIs
      <4>2. [Ram(v) EXCEPT !.mark = b].size = Ram(v).size BY <4>1 DEF Records
      <4>3. Ram(v)' = Ram(v) \/ Ram(v)' = [Ram(v) EXCEPT !.mark = b] BY <3>1 DEF SetRam
      <4> QED BY <4>2, <4>3
    <3> QED BY <1>1, <3>2 DEF DataInv, InBounds
  <2> QED BY <2>1, <2>2
<1> QED BY <1>4, <1>5, <1>6, <1>7, DataMoves

\* Process c has ended its request and unmapped the LEBs S of its volumes.
Ended(c, S) ==
    /\ Unmapped(S) \/ (S = {} /\ UNCHANGED <<eba, pend>>)
    /\ UNCHANGED <<dev, ro, done, stage>>
    /\ \A v \in Vols, l \in Lebs : <<v, l>> \in S => desc[c][v] # None
    /\ dev = "on" => \A v \in Vols, l \in Lebs :
          l < Ram(v).size /\ eba[v][l] # None => <<v, l>> \in S \/ l < Ram(v)'.size
    /\ pc'[c] \in {"idle", "wipe"}
    /\ pc'[c] = "wipe" /\ ~ro => done[job'[c].vol].mark

\* The end of a request that unmaps what its volumes lose.
LEMMA EndedData ==
    ASSUME HolderInv, FlashTypes, DataInv, NEW c \in Clients, Others(c), NEW S, Ended(c, S)
    PROVE  DataInv'
<1>1. \A v \in Vols, l \in Lebs :
         /\ eba'[v][l] = IF <<v, l>> \in S THEN None ELSE eba[v][l]
         /\ pend'[v][l] = IF <<v, l>> \in S /\ eba[v][l] # None THEN eba[v][l] ELSE pend[v][l]
  <2>1. CASE Unmapped(S) BY <2>1, UnmappedTyped
  <2>2. CASE S = {} /\ UNCHANGED <<eba, pend>> BY <2>2
  <2> QED BY <2>1, <2>2 DEF Ended
<1>2. Spares(c) BY <1>1 DEF Spares, Ended
<1>3. Clean'
  <2>1. CASE Unmapped(S) BY <2>1, CleanUnmapped DEF Ended, DataInv
  <2>2. CASE UNCHANGED <<eba, pend>> BY <2>2 DEF Ended, DataInv, Clean
  <2> QED BY <2>1, <2>2 DEF Ended
<1>4. InBounds'
  <2>1. dev = "on" => \A v \in Vols, l \in Lebs : eba[v][l] # None => l < Ram(v).size BY DEF DataInv, InBounds
  <2> SUFFICES ASSUME dev' = "on", NEW v \in Vols, NEW l \in Lebs, eba'[v][l] # None PROVE l < Ram(v)'.size
    BY DEF InBounds
  <2>2. dev = "on" /\ <<v, l>> \notin S /\ eba[v][l] # None BY <1>1 DEF Ended
  <2> QED BY <2>1, <2>2 DEF Ended
<1>5. Leaves(c)' BY DEF Ended, Leaves, Clearing, Writing
<1> QED BY <1>2, <1>3, <1>4, <1>5, DataMoves

\* The LEBs of the volumes that process c has open.
LEMMA WholeIs ==
    ASSUME HolderInv, NEW c \in Clients, NEW T \in SUBSET Vols, \A v \in T : desc[c][v] # None
    PROVE  /\ \A v \in Vols, l \in Lebs : <<v, l>> \in WholeOf(T) <=> v \in T /\ l < Ram(v).size
           /\ \A v \in Vols, l \in Lebs : <<v, l>> \in WholeOf(T) => desc[c][v] # None
<1>1. \A v \in T : Ram(v).size = vols[v].size BY OpenSize
<1>2. \A v \in Vols, l \in Lebs : <<v, l>> \in WholeOf(T) <=> v \in T /\ l < vols[v].size BY DEF WholeOf
<1> QED BY <1>1, <1>2

\* Another marker leaves the size of the volume.
LEMMA SizeMarked ==
    ASSUME HolderInv, NEW u \in Vols, NEW b \in BOOLEAN, SetRam(u, [Ram(u) EXCEPT !.mark = b])
    PROVE  \A v \in Vols : Ram(v)'.size = Ram(v).size
<1> SUFFICES ASSUME NEW v \in Vols PROVE Ram(v)'.size = Ram(v).size OBVIOUS
<1>1. Ram(v) \in Records BY TotalIs
<1>2. [Ram(v) EXCEPT !.mark = b].size = Ram(v).size BY <1>1 DEF Records
<1>3. Ram(v)' = Ram(v) \/ Ram(v)' = [Ram(v) EXCEPT !.mark = b] BY DEF SetRam
<1> QED BY <1>2, <1>3

\* A volume begins with nothing mapped.
LEMMA CreateEndData ==
    ASSUME HolderInv, FlashTypes, DataInv, NEW c \in Clients, Others(c), CreateEnd(c)
    PROVE  DataInv'
<1>0. HolderTypes BY DEF HolderInv
<1>1. UNCHANGED <<dev, ro, eba, pend, done, stage>> BY DEF CreateEnd, hist, flash
<1>2. pc'[c] = "idle" BY <1>0 DEF HolderTypes, CreateEnd, Ends
<1>3. SetRam(job[c].vol, job[c].rec) /\ Ram(job[c].vol) = empty_vtbl_record BY CreateEndRam
<1>4. \A v \in Vols, l \in Lebs : l < Ram(v).size => l < Ram(v)'.size
  <2> SUFFICES ASSUME NEW v \in Vols, NEW l \in Lebs, l < Ram(v).size PROVE l < Ram(v)'.size OBVIOUS
  <2>1. l \in Nat BY VolSizes DEF Lebs
  <2>2. CASE v = job[c].vol
    <3>1. Ram(v).size = 0 BY <1>3, <2>2 DEF empty_vtbl_record
    <3> QED BY <2>1, <3>1
  <2>3. CASE v # job[c].vol BY <1>3, <2>3 DEF SetRam
  <2> QED BY <2>2, <2>3
<1>5. Ended(c, {}) BY <1>1, <1>2, <1>4 DEF Ended
<1> QED BY <1>5, EndedData

\* A volume removed leaves nothing mapped.
LEMMA RemoveEndData ==
    ASSUME HolderInv, FlashTypes, DataInv, NEW c \in Clients, Others(c), RemoveEnd(c)
    PROVE  DataInv'
<1>0. HolderTypes BY DEF HolderInv
<1> DEFINE u == job[c].vol
           S == WholeOf({u})
<1>1. pc[c] = "apply" /\ job[c].op = "remove" /\ Unmapped(S) /\ UNCHANGED <<dev, ro, done, stage>> BY DEF RemoveEnd, hist
<1>2. pc'[c] = "idle" BY <1>0 DEF HolderTypes, RemoveEnd, Ends
<1>3. SetRam(u, empty_vtbl_record) BY RemoveEndRam
<1>4. u \in Vols /\ desc[c][u] # None BY <1>1, HisVolume DEF OneVolume
<1>5. \A v \in Vols, l \in Lebs : <<v, l>> \in S <=> v = u /\ l < Ram(v).size
  <2>1. {u} \in SUBSET Vols /\ \A v \in {u} : desc[c][v] # None BY <1>4
  <2> QED BY <2>1, WholeIs
<1> HIDE DEF S, u
<1>6. \A v \in Vols, l \in Lebs : l < Ram(v).size => <<v, l>> \in S \/ l < Ram(v)'.size
  BY <1>3, <1>5 DEF SetRam
<1>7. Ended(c, S) BY <1>1, <1>2, <1>4, <1>5, <1>6 DEF Ended
<1> QED BY <1>7, EndedData

\* A volume that shrinks leaves nothing mapped beyond its end.
LEMMA ResizeEndData ==
    ASSUME HolderInv, FlashTypes, DataInv, NEW c \in Clients, Others(c), ResizeEnd(c)
    PROVE  DataInv'
<1>0. HolderTypes BY DEF HolderInv
<1> DEFINE u == job[c].vol
           size == job[c].rec.size
           S == IF size < vols[u].size THEN {<<u, l>> : l \in size .. vols[u].size - 1} ELSE {}
<1>1. pc[c] = "apply" /\ job[c].op = "resize" /\ UNCHANGED <<dev, ro, done, stage>>
  BY DEF ResizeEnd, hist
<1>2. pc'[c] = "idle" BY <1>0 DEF HolderTypes, ResizeEnd, Ends
<1>3. Unmapped(S) \/ (S = {} /\ UNCHANGED <<eba, pend>>) BY DEF ResizeEnd
<1>4. u \in Vols /\ desc[c][u] # None BY <1>1, HisVolume DEF OneVolume
<1>5. size \in Nat /\ vols[u].size \in Nat /\ Ram(u).size = vols[u].size BY <1>1, GrowthIs
<1>6. SetRam(u, [Ram(u) EXCEPT !.size = size]) BY ResizeEndRam
<1>7. \A v \in Vols : v = u => Ram(v)'.size = size
  <2>1. Ram(u) \in Records BY <1>4, TotalIs
  <2>2. [Ram(u) EXCEPT !.size = size].size = size BY <2>1 DEF Records
  <2> QED BY <1>4, <1>6, <2>2 DEF SetRam
<1>8. \A v \in Vols, l \in Lebs : <<v, l>> \in S <=> v = u /\ l < Ram(u).size /\ ~(l < size)
  <2>1. \A l \in Lebs : l \in Nat BY VolSizes DEF Lebs
  <2>2. CASE size < vols[u].size
    <3>1. S = {<<u, l>> : l \in size .. vols[u].size - 1} BY <2>2
    <3> HIDE DEF S, size, u
    <3>2. \A v \in Vols, l \in Lebs : <<v, l>> \in S <=> v = u /\ l \in size .. vols[u].size - 1 BY <3>1
    <3>3. \A l \in Lebs : l \in size .. vols[u].size - 1 <=> l < vols[u].size /\ ~(l < size) BY <2>1, <1>5
    <3> QED BY <1>5, <3>2, <3>3
  <2>3. CASE ~(size < vols[u].size)
    <3>1. S = {} BY <2>3
    <3> HIDE DEF S, size, u
    <3>2. \A l \in Lebs : ~(l < vols[u].size /\ ~(l < size)) BY <2>1, <2>3, <1>5
    <3> QED BY <1>5, <3>1, <3>2
  <2> QED BY <2>2, <2>3
<1> HIDE DEF S, size, u
<1>9. \A v \in Vols, l \in Lebs : l < Ram(v).size => <<v, l>> \in S \/ l < Ram(v)'.size
  <2> SUFFICES ASSUME NEW v \in Vols, NEW l \in Lebs, l < Ram(v).size PROVE <<v, l>> \in S \/ l < Ram(v)'.size OBVIOUS
  <2>1. CASE v = u BY <1>7, <1>8, <2>1
  <2>2. CASE v # u BY <1>6, <2>2 DEF SetRam
  <2> QED BY <2>1, <2>2
<1>10. Ended(c, S) BY <1>1, <1>2, <1>3, <1>4, <1>8, <1>9 DEF Ended
<1> QED BY <1>10, EndedData

\* The volumes that a re-name removes leave nothing mapped.
LEMMA RenameEndData ==
    ASSUME HolderInv, FlashTypes, DataInv, NEW c \in Clients, Others(c), RenameEnd(c)
    PROVE  DataInv'
<1>0. HolderTypes BY DEF HolderInv
<1>1. PICK gone \in SUBSET job[c].drop :
        /\ Unmapped(WholeOf(gone))
        /\ Ends(c, [v \in Vols |->
                      IF v \in gone THEN None
                      ELSE IF gone = job[c].drop /\ v \in DOMAIN job[c].names
                           THEN [vols[v] EXCEPT !.name = job[c].names[v]] ELSE vols[v]])
  BY DEF RenameEnd
<1> DEFINE S == WholeOf(gone)
<1>2. pc[c] = "apply" /\ job[c].op = "rename" /\ UNCHANGED <<dev, ro, done, stage>> BY DEF RenameEnd
<1>3. RenamedRam(job[c], gone) /\ gone \subseteq Vols BY <1>1, <1>2, RenameEndRam
<1>4. pc'[c] = "idle" BY <1>0, <1>1 DEF HolderTypes, Ends
<1>5. \A v \in gone : desc[c][v] # None
  <2>1. \A v \in gone : v \in Affected(job[c]) BY <1>2 DEF Affected, Listed
  <2>2. "ex" # None BY VolNone DEF Modes
  <2> QED BY <1>2, <2>1, <2>2, AffectedIs
<1>6. \A v \in Vols, l \in Lebs : <<v, l>> \in S <=> v \in gone /\ l < Ram(v).size BY <1>3, <1>5, WholeIs
<1>7. Unmapped(S) BY <1>1
<1> HIDE DEF S
<1>8. \A v \in Vols \ gone : Ram(v)'.size = Ram(v).size
  <2> SUFFICES ASSUME NEW v \in Vols \ gone PROVE Ram(v)'.size = Ram(v).size OBVIOUS
  <2>1. Ram(v) \in Records BY TotalIs
  <2>2. [Ram(v) EXCEPT !.name = job[c].names[v]].size = Ram(v).size BY <2>1 DEF Records
  <2>3. Ram(v)' = Ram(v) \/ Ram(v)' = [Ram(v) EXCEPT !.name = job[c].names[v]] BY <1>3 DEF RenamedRam
  <2> QED BY <2>2, <2>3
<1>9. \A v \in Vols, l \in Lebs : l < Ram(v).size => <<v, l>> \in S \/ l < Ram(v)'.size BY <1>6, <1>8
<1>10. Ended(c, S) BY <1>2, <1>4, <1>5, <1>6, <1>7, <1>9 DEF Ended
<1> QED BY <1>10, EndedData

\* The update goes on when the table on flash has the marker.
LEMMA MarkEndData ==
    ASSUME HolderInv, FlashTypes, TableInv, DataInv, NEW c \in Clients, Others(c), MarkEnd(c)
    PROVE  DataInv'
<1>0. HolderTypes BY DEF HolderInv
<1> DEFINE u == job[c].vol
<1>1. pc[c] = "apply" /\ job[c].op = "mark" /\ UNCHANGED <<dev, ro, eba, pend, done, stage, job>> BY DEF MarkEnd, flash, hist
<1>2. pc'[c] = "wipe" BY <1>0 DEF HolderTypes, MarkEnd
<1>3. u \in Vols /\ desc[c][u] # None /\ Ram(u) \in Records BY <1>1, HisVolume DEF OneVolume
<1>4. \A v \in Vols : Ram(v)'.size = Ram(v).size
  <2>1. SetRam(u, [Ram(u) EXCEPT !.mark = TRUE]) BY MarkEndRam
  <2> DEFINE b == TRUE
  <2>2. b \in BOOLEAN /\ SetRam(u, [Ram(u) EXCEPT !.mark = b]) BY <2>1
  <2> HIDE DEF b
  <2> QED BY <1>3, <2>2, SizeMarked
<1>5. ~ro => done[u].mark
  <2> SUFFICES ASSUME ~ro PROVE done[u].mark OBVIOUS
  <2>1. dev = "on" BY <1>1, ClientOn
  <2>2. TableRules BY <2>1 DEF TableInv
  <2>3. u \notin torn BY <1>1, <1>3 DEF HolderInv, LifeInv
  <2>4. Changing(c) /\ ~Writing(c) /\ u \in Affected(job[c]) BY <1>1 DEF Changing, Writing, Affected
  <2>5. vtbl[u] = Target(job[c], u, Ram(u)) BY <1>3, <2>2, <2>3, <2>4 DEF TableRules, ChangesTo
  <2>6. vtbl[u].mark = TRUE BY <1>1, <1>3, <2>5 DEF Target, Records
  <2>7. \A d \in Clients : ~Writing(d) BY <2>4, OneChanges
  <2>8. vtbl[u] = done[u] BY <1>3, <2>2, <2>7 DEF TableRules, Wrote
  <2> QED BY <2>6, <2>8
<1>6. Ended(c, {}) BY <1>1, <1>2, <1>4, <1>5 DEF Ended
<1> QED BY <1>6, EndedData

\* The end of an update leaves the LEBs.
LEMMA ClearEndData ==
    ASSUME HolderInv, FlashTypes, DataInv, NEW c \in Clients, Others(c), ClearEnd(c)
    PROVE  DataInv'
<1>0. HolderTypes BY DEF HolderInv
<1> DEFINE u == job[c].vol
<1>1. pc[c] = "apply" /\ job[c].op = "clear" /\ UNCHANGED <<dev, ro, eba, pend, done, stage>> BY DEF ClearEnd, flash, hist
<1>2. pc'[c] = "idle" BY <1>0 DEF HolderTypes, ClearEnd
<1>3. u \in Vols BY <1>1, HisVolume DEF OneVolume
<1>4. \A v \in Vols : Ram(v)'.size = Ram(v).size
  <2>1. SetRam(u, [Ram(u) EXCEPT !.mark = FALSE]) BY ClearEndRam
  <2> DEFINE b == FALSE
  <2>2. b \in BOOLEAN /\ SetRam(u, [Ram(u) EXCEPT !.mark = b]) BY <2>1
  <2> HIDE DEF b
  <2> QED BY <1>3, <2>2, SizeMarked
<1>5. Ended(c, {}) BY <1>1, <1>2, <1>4 DEF Ended
<1> QED BY <1>5, EndedData

\* A removal that fails half-way preserves the data invariant.
LEMMA UnmapFailsData ==
    ASSUME HolderInv, FlashTypes, DataInv, NEW c \in Clients, Others(c), UnmapFails(c)
    PROVE  DataInv'
<1>0. HolderTypes BY DEF HolderInv
<1> DEFINE u == job[c].vol
           first == IF job[c].op = "remove" THEN 0 ELSE job[c].rec.size
<1>1. pc[c] = "apply" /\ job[c].op \in {"remove", "resize"} /\ UNCHANGED <<dev, ro, done, stage>>
  BY DEF UnmapFails, hist
<1>2. pc'[c] = "idle" BY <1>0 DEF HolderTypes, UnmapFails, Ends
<1>3. PICK l : Unmapped({u} \X (first .. l - 1)) BY DEF UnmapFails
<1> DEFINE S == {u} \X (first .. l - 1)
<1>4. u \in Vols /\ desc[c][u] # None BY <1>1, HisVolume DEF OneVolume
<1>5. \A v \in Vols, k \in Lebs : <<v, k>> \in S => v = u OBVIOUS
<1>6. Unmapped(S) BY <1>3
<1> HIDE DEF S
<1>7. \A v \in Vols : Ram(v)' = Ram(v) BY UnmapFailsRam DEF KeepRam
<1>8. Ended(c, S) BY <1>1, <1>2, <1>4, <1>5, <1>6, <1>7 DEF Ended
<1> QED BY <1>8, EndedData

\* Only a re-name removes more than its own volume.
Plain(j) == j.op # "rename" => j.drop = {}
PlainInv == \A c \in Clients : Plain(job[c])

\* New requests remove no more than their own volume.
LEMMA NoJobPlain ==
    /\ Plain(NoJob)
    /\ \A v : Plain([NoJob EXCEPT !.op = "remove", !.vol = v])
    /\ \A v, r : Plain([NoJob EXCEPT !.op = "create", !.vol = v, !.rec = r])
    /\ \A v, r : Plain([NoJob EXCEPT !.op = "resize", !.vol = v, !.rec = r])
    /\ \A v, r : Plain([NoJob EXCEPT !.op = "mark", !.vol = v, !.rec = r])
    /\ \A f, T : Plain([NoJob EXCEPT !.op = "rename", !.names = f, !.todo = T])
<1>1. Plain(NoJob) BY DEF Plain, NoJob
<1>2. \A v : Plain([NoJob EXCEPT !.op = "remove", !.vol = v]) BY DEF Plain, NoJob
<1>3. \A v, r : Plain([NoJob EXCEPT !.op = "create", !.vol = v, !.rec = r]) BY DEF Plain, NoJob
<1>4. \A v, r : Plain([NoJob EXCEPT !.op = "resize", !.vol = v, !.rec = r]) BY DEF Plain, NoJob
<1>5. \A v, r : Plain([NoJob EXCEPT !.op = "mark", !.vol = v, !.rec = r]) BY DEF Plain, NoJob
<1>6. \A f, T : Plain([NoJob EXCEPT !.op = "rename", !.names = f, !.todo = T]) BY DEF Plain, NoJob
<1> QED BY <1>1, <1>2, <1>3, <1>4, <1>5, <1>6

\* Neither do requests of which another field changes.
LEMMA JobPlain ==
    ASSUME NEW j \in Jobs, Plain(j)
    PROVE  /\ \A v : Plain([j EXCEPT !.vol = v])
           /\ \A r : j.op # "rename" => Plain([j EXCEPT !.op = "clear", !.rec = r])
           /\ \A f, T : j.op = "rename" => Plain([j EXCEPT !.names = f, !.todo = T])
           /\ \A v, T : j.op = "rename" => Plain([j EXCEPT !.todo = T, !.vol = v])
           /\ \A v, T : j.op = "rename" => Plain([j EXCEPT !.vol = v, !.drop = T])
<1>1. \A v : Plain([j EXCEPT !.vol = v]) BY DEF Plain, Jobs
<1>2. \A r : j.op # "rename" => Plain([j EXCEPT !.op = "clear", !.rec = r]) BY DEF Plain, Jobs
<1>3. \A f, T : j.op = "rename" => Plain([j EXCEPT !.names = f, !.todo = T]) BY DEF Plain, Jobs
<1>4. \A v, T : j.op = "rename" => Plain([j EXCEPT !.todo = T, !.vol = v]) BY DEF Plain, Jobs
<1>5. \A v, T : j.op = "rename" => Plain([j EXCEPT !.vol = v, !.drop = T]) BY DEF Plain, Jobs
<1> QED BY <1>1, <1>2, <1>3, <1>4, <1>5

\* Only rename_volumes() collects volumes to remove.
LEMMA ClientPlain ==
    ASSUME HolderInv, PlainInv, NEW c \in Clients, Client(c)
    PROVE  PlainInv'
<1>0. HolderTypes /\ job[c] \in Jobs /\ Plain(job[c]) /\ Plain(NoJob) BY NoJobPlain DEF HolderInv, HolderTypes, PlainInv
<1> DEFINE P == Plain(job'[c])
<1>1. UNCHANGED job => P BY <1>0
<1>2. job' = [job EXCEPT ![c] = NoJob] => P BY <1>0 DEF HolderTypes
<1>3. \A j : job' = [job EXCEPT ![c] = j] => job'[c] = j BY <1>0 DEF HolderTypes
<1>4. \A v \in Vols : ShowStart(c, v) => P
  <2> SUFFICES ASSUME NEW v \in Vols, ShowStart(c, v) PROVE P OBVIOUS
  <2>1. job' = [job EXCEPT ![c] = [job[c] EXCEPT !.vol = v]] BY DEF ShowStart
  <2> QED BY <1>0, <1>3, <2>1, JobPlain
<1>5. \A v \in Vols, n \in Names, s \in 1 .. MaxSize : CreateStart(c, v, n, s) => P
  <2> SUFFICES ASSUME NEW v \in Vols, NEW n \in Names, NEW s \in 1 .. MaxSize, CreateStart(c, v, n, s) PROVE P OBVIOUS
  <2>1. PICK r : job' = [job EXCEPT ![c] = [NoJob EXCEPT !.op = "create", !.vol = v, !.rec = r]] BY DEF CreateStart
  <2> DEFINE j == [NoJob EXCEPT !.op = "create", !.vol = v, !.rec = r]
  <2>2. job' = [job EXCEPT ![c] = j] BY <2>1
  <2>3. Plain(j) BY DEF Plain, NoJob
  <2> HIDE DEF j
  <2> QED BY <1>3, <2>2, <2>3
<1>6. \A v \in Vols : Remove(c, v) => P
  <2> SUFFICES ASSUME NEW v \in Vols, Remove(c, v) PROVE P OBVIOUS
  <2>1. job' = [job EXCEPT ![c] = [NoJob EXCEPT !.op = "remove", !.vol = v]] BY DEF Remove, Request
  <2> QED BY <1>3, <2>1, NoJobPlain
<1>7. \A v \in Vols, s \in 1 .. MaxSize : Resize(c, v, s) => P
  <2> SUFFICES ASSUME NEW v \in Vols, NEW s \in 1 .. MaxSize, Resize(c, v, s) PROVE P OBVIOUS
  <2>1. PICK r : job' = [job EXCEPT ![c] = [NoJob EXCEPT !.op = "resize", !.vol = v, !.rec = r]] BY DEF Resize, Request
  <2> DEFINE j == [NoJob EXCEPT !.op = "resize", !.vol = v, !.rec = r]
  <2>2. job' = [job EXCEPT ![c] = j] BY <2>1
  <2>3. Plain(j) BY DEF Plain, NoJob
  <2> HIDE DEF j
  <2> QED BY <1>3, <2>2, <2>3
<1>8. \A f \in Requests : RenameStart(c, f) => P
  <2> SUFFICES ASSUME NEW f \in Requests, RenameStart(c, f) PROVE P OBVIOUS
  <2>1. PICK T : job' = [job EXCEPT ![c] = [NoJob EXCEPT !.op = "rename", !.names = f, !.todo = T]] BY DEF RenameStart
  <2> DEFINE j == [NoJob EXCEPT !.op = "rename", !.names = f, !.todo = T]
  <2>2. job' = [job EXCEPT ![c] = j] BY <2>1
  <2>3. Plain(j) BY DEF Plain, NoJob
  <2> HIDE DEF j
  <2> QED BY <1>3, <2>2, <2>3
<1>9. \A v \in Vols : UpdateStart(c, v) => P
  <2> SUFFICES ASSUME NEW v \in Vols, UpdateStart(c, v) PROVE P OBVIOUS
  <2>1. PICK r : job' = [job EXCEPT ![c] = [NoJob EXCEPT !.op = "mark", !.vol = v, !.rec = r]] BY DEF UpdateStart
  <2> DEFINE j == [NoJob EXCEPT !.op = "mark", !.vol = v, !.rec = r]
  <2>2. job' = [job EXCEPT ![c] = j] BY <2>1
  <2>3. Plain(j) BY DEF Plain, NoJob
  <2> HIDE DEF j
  <2> QED BY <1>3, <2>2, <2>3
<1>10. UpdateFlush(c) => P
  <2> SUFFICES ASSUME UpdateFlush(c) PROVE P OBVIOUS
  <2>1. PICK r : job' = [job EXCEPT ![c] = [job[c] EXCEPT !.op = "clear", !.rec = r]] BY DEF UpdateFlush
  <2>2. job[c].op = "mark" BY DEF UpdateFlush, HolderInv, JobInv, JobRule
  <2> QED BY <1>0, <1>3, <2>1, <2>2, JobPlain
<1>11. \A v \in Vols : RenameOpen(c, v) => P
  <2> SUFFICES ASSUME NEW v \in Vols, RenameOpen(c, v) PROVE P OBVIOUS
  <2>1. PICK f, T : job' = [job EXCEPT ![c] = [job[c] EXCEPT !.names = f, !.todo = T]] BY DEF RenameOpen
  <2>2. job[c].op = "rename" BY DEF RenameOpen, HolderInv, JobInv, JobRule
  <2> DEFINE j == [job[c] EXCEPT !.names = f, !.todo = T]
  <2>3. job' = [job EXCEPT ![c] = j] BY <2>1
  <2>4. Plain(j) BY <1>0, <2>2 DEF Plain, Jobs
  <2> HIDE DEF j
  <2> QED BY <1>3, <2>3, <2>4
<1>12. \A v \in Vols : RenameFind(c, v) => P
  <2> SUFFICES ASSUME NEW v \in Vols, RenameFind(c, v) PROVE P OBVIOUS
  <2>1. PICK w, T : job' = [job EXCEPT ![c] = [job[c] EXCEPT !.todo = T, !.vol = w]] BY DEF RenameFind
  <2>2. job[c].op = "rename" BY DEF RenameFind, HolderInv, JobInv, JobRule
  <2> DEFINE j == [job[c] EXCEPT !.todo = T, !.vol = w]
  <2>3. job' = [job EXCEPT ![c] = j] BY <2>1
  <2>4. Plain(j) BY <1>0, <2>2 DEF Plain, Jobs
  <2> HIDE DEF j
  <2> QED BY <1>3, <2>3, <2>4
<1>13. RenameOpenNamed(c) => P
  <2> SUFFICES ASSUME RenameOpenNamed(c) PROVE P OBVIOUS
  <2>1. PICK w, T : job' = [job EXCEPT ![c] = [job[c] EXCEPT !.vol = w, !.drop = T]] BY DEF RenameOpenNamed
  <2>2. job[c].op = "rename" BY DEF RenameOpenNamed, HolderInv, JobInv, JobRule
  <2> DEFINE j == [job[c] EXCEPT !.vol = w, !.drop = T]
  <2>3. job' = [job EXCEPT ![c] = j] BY <2>1
  <2>4. Plain(j) BY <1>0, <2>2 DEF Plain, Jobs
  <2> HIDE DEF j
  <2> QED BY <1>3, <2>3, <2>4
<1>14. (\E v \in Vols, m \in Modes : Open(c, v, m)) \/ (\E v \in Vols, l \in Lebs : Write(c, v, l) \/ Unmap(c, v, l))
       \/ CreateFlush(c) \/ LockRemove(c) \/ LockResize(c) \/ LockRename(c) \/ LockMark(c)
       \/ UpdateWipe(c) \/ (\E l \in Lebs : UpdateWrite(c, l)) \/ TableStep(c) \/ MarkEnd(c) => UNCHANGED job
  BY DEF Open, Write, Unmap, CreateFlush, LockRemove, LockResize, LockRename, LockMark, UpdateWipe, UpdateWrite, TableStep, MarkEnd
<1>15. Close(c) \/ ShowEnd(c) \/ CreateEnd(c) \/ RemoveEnd(c) \/ ResizeEnd(c) \/ UnmapFails(c) \/ GiveUp(c) \/ RenameBusy(c)
       \/ RenameEnd(c) \/ ClearEnd(c) \/ TableFails(c) => job' = [job EXCEPT ![c] = NoJob]
  BY DEF Close, ShowEnd, CreateEnd, RemoveEnd, ResizeEnd, UnmapFails, GiveUp, RenameBusy, RenameEnd, ClearEnd, TableFails, Ends
<1> HIDE DEF P
<1>16. P BY <1>1, <1>2, <1>4, <1>5, <1>6, <1>7, <1>8, <1>9, <1>10, <1>11, <1>12, <1>13, <1>14, <1>15 DEF Client
<1>17. \A d \in Clients \ {c} : job'[d] = job[d] BY ClientOthers DEF Others
<1> QED BY <1>16, <1>17 DEF P, PlainInv

\* No step makes another request remove more than its volume.
LEMMA PlainStep == ASSUME HolderInv, PlainInv, [Next]_vars PROVE PlainInv'
<1>1. CASE \E c \in Clients : Client(c) BY <1>1, ClientPlain
<1>2. CASE PebGoesBad \/ GoesReadOnly \/ UNCHANGED vars
  BY <1>2 DEF PebGoesBad, GoesReadOnly, vars, PlainInv
<1>3. CASE PowerCut
  <2>1. \A c \in Clients : job'[c] = NoJob BY <1>3 DEF PowerCut
  <2> QED BY <2>1, NoJobPlain DEF PlainInv
<1> QED BY <1>1, <1>2, <1>3 DEF Next

\* Nothing is in the LEBs of a volume that does not exist.
LEMMA NewIsEmpty ==
    ASSUME HolderInv, DataInv, NEW c \in Clients, Writing(c), job[c].op = "create", NEW l \in Lebs
    PROVE  job[c].vol \in Vols /\ eba[job[c].vol][l] = None /\ pend[job[c].vol][l] = None
<1> DEFINE u == job[c].vol
<1>1. pc[c] = "table" /\ dev = "on" BY ClientOn DEF Writing
<1>2. u \in Affected(job[c]) BY DEF Affected
<1>3. u \in Vols /\ vols[u] = None BY <1>1, <1>2, AffectedIs
<1>4. Ram(u).size = 0 BY <1>3 DEF Ram, RecordOf, empty_vtbl_record
<1>5. l \in Nat BY VolSizes DEF Lebs
<1>6. eba[u][l] = None BY <1>1, <1>3, <1>4, <1>5 DEF DataInv, InBounds
<1>7. pend[u][l] = None BY DEF DataInv, Leaves
<1> QED BY <1>3, <1>6, <1>7

\* A new table turns the contents of the volumes it is about only.
LEMMA TurnedNot ==
    ASSUME NEW c \in Clients, NEW v, job[c].op \notin {"remove", "clear"}, v \notin job[c].drop
    PROVE  \A x : TurnedBy(job[c], v, x) = x
BY DEF TurnedBy

\* It leaves those of every other volume.
LEMMA TurnedElsewhere ==
    ASSUME PlainInv, NEW c \in Clients, NEW v, v \notin Affected(job[c])
    PROVE  \A x : TurnedBy(job[c], v, x) = x
<1>1. Plain(job[c]) BY DEF PlainInv
<1>2. CASE job[c].op = "rename" BY <1>2 DEF Affected, Listed, TurnedBy
<1>3. CASE job[c].op # "rename" BY <1>1, <1>3 DEF Affected, Plain, TurnedBy
<1> QED BY <1>2, <1>3

\* Nothing stays nothing.
LEMMA TurnedNone == \A j, v : TurnedBy(j, v, None) = None
<1>1. None \in Contents \cup {None} OBVIOUS
<1> QED BY <1>1, TurnedTyped

\* LEB 0 of the layout volume has the new table: a volume that it describes,
\* without an update marker, shows what it holds now.
LEMMA WrittenClean ==
    ASSUME HolderInv, FlashTypes, TableInv, DataInv, PlainInv, NEW c \in Clients, TableStep(c), stage = 1
    PROVE  Clean'
<1>1. pc[c] = "table" /\ ~ro /\ done' = vtbl /\ Passed(job[c]) BY DEF TableStep
<1>2. dev = "on" BY <1>1, ClientOn
<1>3. TableRules BY <1>1, <1>2 DEF TableInv
<1>4. Writing(c) /\ Changing(c) BY <1>1 DEF Writing, Changing
<1>5. \A d \in Clients : Writing(d) => d = c BY <1>4, OneChanges
<1> DEFINE j == job[c]
<1>6. \A v \in Vols, l \in Lebs : eba'[v][l] = TurnedBy(j, v, eba[v][l]) /\ pend'[v][l] = TurnedBy(j, v, pend[v][l])
  BY <1>1, PassedTyped
<1> SUFFICES ASSUME NEW v \in Vols, vtbl[v].size > 0, ~vtbl[v].mark, NEW l \in Lebs
             PROVE  eba'[v][l] \in {"data", None} /\ (eba'[v][l] = None => pend'[v][l] \in {"data", None})
  BY <1>1 DEF Clean
<1>7. done[v] \in Records BY DEF FlashTypes, Tables
<1> DEFINE Same == done[v].size > 0 /\ ~done[v].mark /\ \A x : TurnedBy(j, v, x) = x
<1>8. ASSUME Same
      PROVE  eba'[v][l] \in {"data", None} /\ (eba'[v][l] = None => pend'[v][l] \in {"data", None})
  <2>1. eba[v][l] \in {"data", None} /\ (eba[v][l] = None => pend[v][l] \in {"data", None}) BY <1>8 DEF DataInv, Clean
  <2> QED BY <1>6, <1>8, <2>1
<1>9. CASE v \notin Affected(j)
  <2>1. vtbl[v] = done[v] BY <1>3, <1>5, <1>9 DEF TableRules, Wrote
  <2>2. \A x : TurnedBy(j, v, x) = x BY <1>9, TurnedElsewhere
  <2> QED BY <1>8, <2>1, <2>2
<1>10. CASE v \in Affected(j)
  <2>1. vtbl[v] = Target(j, v, done[v]) BY <1>3, <1>4, <1>10 DEF TableRules, WritesTo
  <2>2. j.op \in {"create", "remove", "resize", "rename", "mark", "clear"} BY <1>1, AffectedIs
  <2>3. Plain(j) BY DEF PlainInv
  <2>4. j.op # "rename" => v = j.vol BY <1>10 DEF Affected
  <2>5. CASE j.op = "create"
    <3>1. eba[v][l] = None /\ pend[v][l] = None BY <1>4, <2>4, <2>5, NewIsEmpty
    <3>2. eba'[v][l] = None /\ pend'[v][l] = None BY <1>6, <3>1, TurnedNone
    <3> QED BY <3>2
  <2>6. CASE j.op = "remove"
    <3>1. vtbl[v].size = 0 BY <2>1, <2>6 DEF Target, empty_vtbl_record
    <3> QED BY <3>1
  <2>7. CASE j.op = "resize"
    <3>1. desc[c][v] # None /\ Ram(v).size = vols[v].size /\ vols[v].size > 0
      <4>1. vols[v] \in Volumes /\ desc[c][v] # None /\ Ram(v).size = vols[v].size
        BY <1>1, <2>4, <2>7, HisVolume DEF OneVolume
      <4> QED BY <4>1, VolSizes DEF Volumes
    <3>2. v \notin torn BY <1>1, <2>7, <3>1 DEF HolderInv, LifeInv
    <3>3. done[v] = Ram(v) BY <1>3, <1>4, <3>2 DEF TableRules, OldIs
    <3>4. vtbl[v].mark = done[v].mark BY <1>7, <2>1, <2>7 DEF Target, Records
    <3>5. \A x : TurnedBy(j, v, x) = x BY <2>3, <2>7, TurnedNot DEF Plain
    <3> QED BY <1>8, <3>1, <3>3, <3>4, <3>5
  <2>8. CASE j.op = "mark"
    <3>1. vtbl[v].mark = TRUE BY <1>7, <2>1, <2>8 DEF Target, Records
    <3> QED BY <3>1
  <2>9. CASE j.op = "clear"
    <3>1. Clearing(c) BY <1>4, <2>9 DEF Clearing
    <3>2. eba[v][l] \in {"new", None} /\ pend[v][l] = None BY <2>4, <2>9, <3>1 DEF DataInv, Leaves
    <3>3. v \notin j.drop BY <2>3, <2>9 DEF Plain
    <3>4. "new" # None BY VolNone DEF Contents
    <3>5. TurnedBy(j, v, "new") = "data" BY <2>4, <2>9, <3>3 DEF TurnedBy
    <3> QED BY <1>6, <3>2, <3>5, TurnedNone
  <2>10. CASE j.op = "rename"
    <3>1. v \notin j.drop
      <4> SUFFICES ASSUME v \in j.drop PROVE FALSE OBVIOUS
      <4>1. vtbl[v].size = 0 BY <2>1, <2>10 DEF Target, empty_vtbl_record
      <4> QED BY <4>1
    <3>2. vtbl[v].size = done[v].size /\ vtbl[v].mark = done[v].mark BY <1>7, <2>1, <2>10, <3>1 DEF Target, Records
    <3>3. \A x : TurnedBy(j, v, x) = x BY <2>10, <3>1, TurnedNot
    <3> QED BY <1>8, <3>2, <3>3
  <2> QED BY <2>2, <2>5, <2>6, <2>7, <2>8, <2>9, <2>10
<1> QED BY <1>9, <1>10

\* The writes of the table preserve the data invariant.
LEMMA TableStepData ==
    ASSUME HolderInv, FlashTypes, TableInv, DataInv, PlainInv, NEW c \in Clients, Others(c), TableStep(c)
    PROVE  DataInv'
<1>1. /\ pc[c] = "table" /\ ~ro /\ UNCHANGED <<dev, ro, vols, job>> /\ stage \in 0 .. 3
      /\ stage' = (stage + 1) % 4 /\ pc'[c] = IF stage = 3 THEN "apply" ELSE "table"
      /\ IF stage = 1 THEN done' = vtbl /\ Passed(job[c]) ELSE UNCHANGED <<done, eba, pend>>
  BY DEF TableStep, FlashTypes, HolderInv, HolderTypes
<1>2. \A d \in Clients \ {c} : pc[d] # "table" /\ ~Writing(d)
  <2>1. Changing(c) BY <1>1 DEF Changing
  <2> QED BY <2>1, OneChanges DEF Changing, Writing
<1>3. KeepRam BY <1>1 DEF KeepRam, Ram
<1>4. CASE stage # 1
  <2>1. UNCHANGED <<done, eba, pend>> BY <1>1, <1>4
  <2>2. Spares(c) BY <1>1, <1>2, <2>1 DEF Spares
  <2>3. Clean' BY <2>1 DEF DataInv, Clean
  <2>4. InBounds' BY <1>1, <1>3, <2>1, KeptInBounds DEF DataInv
  <2>5. Leaves(c)'
    <3>1. stage \in {0, 2, 3} BY <1>1, <1>4
    <3>2. stage' < 2 /\ pc'[c] = "table" => stage = 0 BY <1>1, <3>1
    <3>3. Writing(c)' => Writing(c) BY <1>1, <3>2 DEF Writing
    <3>4. Clearing(c)' => Clearing(c) BY <1>1, <3>3 DEF Clearing
    <3>5. Leaves(c) BY DEF DataInv
    <3> QED BY <1>1, <2>1, <3>3, <3>4, <3>5 DEF Leaves
  <2> QED BY <2>2, <2>3, <2>4, <2>5, DataMoves
<1>5. CASE stage = 1
  <2>1. stage' = 2 /\ pc'[c] = "table" /\ done' = vtbl /\ Passed(job[c]) BY <1>1, <1>5
  <2>2. \A v \in Vols, l \in Lebs : /\ eba'[v][l] = TurnedBy(job[c], v, eba[v][l])
                                    /\ pend'[v][l] = TurnedBy(job[c], v, pend[v][l])
    BY <2>1, PassedTyped
  <2>3. Leaves(c)' BY <2>1 DEF Leaves, Clearing, Writing
  <2>4. Clean' BY <1>5, WrittenClean
  <2>5. InBounds'
    <3>1. \A v \in Vols, l \in Lebs : eba[v][l] \in Contents \cup {None} BY DEF FlashTypes
    <3>2. \A v \in Vols, l \in Lebs : eba'[v][l] # None => eba[v][l] # None BY <2>2, <3>1, TurnedTyped
    <3> QED BY <1>1, <1>3, <3>2, KeptInBounds DEF DataInv
  <2>6. dev = "on" /\ TableRules BY <1>1, ClientOn DEF TableInv
  <2>7. \A v \in Vols : desc[c][v] = None =>
           \A l \in Lebs : eba'[v][l] = eba[v][l] /\ pend'[v][l] \in {pend[v][l], None}
    <3> SUFFICES ASSUME NEW v \in Vols, desc[c][v] = None, NEW l \in Lebs
                 PROVE  eba'[v][l] = eba[v][l] /\ pend'[v][l] = pend[v][l]
      OBVIOUS
    <3>1. CASE v \notin Affected(job[c]) BY <2>2, <3>1, TurnedElsewhere
    <3>2. CASE v \in Affected(job[c])
      <4>1. "ex" # None BY VolNone DEF Modes
      <4>2. job[c].op = "create" BY <1>1, <3>2, <4>1, AffectedIs
      <4>3. Plain(job[c]) BY DEF PlainInv
      <4>4. v \notin job[c].drop BY <4>2, <4>3 DEF Plain
      <4>5. job[c].op \notin {"remove", "clear"} BY <4>2
      <4> QED BY <2>2, <4>4, <4>5, TurnedNot
    <3> QED BY <3>1, <3>2
  <2>8. \A v \in Vols : (\E d \in Clients \ {c} : desc[d][v] # None) => done'[v] = done[v]
    <3> SUFFICES ASSUME NEW v \in Vols, NEW d \in Clients \ {c}, desc[d][v] # None PROVE done'[v] = done[v]
      OBVIOUS
    <3>1. v \notin Affected(job[c]) BY <1>1, Apart
    <3>2. \A e \in Clients : Writing(e) => v \notin Affected(job[e]) BY <1>2, <3>1
    <3> QED BY <2>1, <2>6, <3>2 DEF TableRules, Wrote
  <2>9. Spares(c) BY <1>1, <1>2, <2>7, <2>8 DEF Spares
  <2> QED BY <2>3, <2>4, <2>5, <2>9, DataMoves
<1> QED BY <1>4, <1>5

\* Whatever is erased by then, an attach finds the table that was written last.
LEMMA AttachIs ==
    ASSUME FlashTypes, LayInv, NEW ls \in SUBSET (0 .. 1)
    PROVE  AttachTable(ls) = done
<1>1. done # None BY VolNone DEF FlashTypes
<1> QED BY <1>1 DEF AttachTable, LayInv

\* An attach finds clean volumes: a LEB that comes back was clean as well.
LEMMA CutData ==
    ASSUME HolderInv, FlashTypes, LayInv, DataInv, PowerCut
    PROVE  DataInv'
<1>1. \A c \in Clients : pc'[c] = "idle" BY DEF PowerCut
<1>2. \A c \in Clients : Leaves(c)' BY <1>1 DEF Leaves, Clearing, Writing
<1>3. CASE dev' = "refused" /\ vols' = Closed /\ UNCHANGED <<vtbl, done, flash, pebs>>
  <2>1. UNCHANGED <<done, eba, pend>> /\ dev' # "on" BY <1>3 DEF flash
  <2> QED BY <1>2, <2>1 DEF DataInv, InBounds, Clean
<1>4. ASSUME NEW ls \in SUBSET (0 .. 1),
             NEW ds \in SUBSET {p \in Vols \X Lebs : pend[p[1]][p[2]] # None /\ eba[p[1]][p[2]] = None},
             Attaches(AttachTable(ls), ds)
      PROVE  DataInv'
  <2>1. Attaches(done, ds) BY <1>4, AttachIs
  <2> DEFINE found == FoundLebs(ds)
  <2>2. \A v \in Vols, l \in Lebs : found[v][l] = IF <<v, l>> \in ds THEN pend[v][l] ELSE eba[v][l] BY DEF FoundLebs
  <2>3. \A v \in Vols, l \in Lebs : <<v, l>> \in ds => eba[v][l] = None OBVIOUS
  <2>4. done \in Tables BY DEF FlashTypes
  <2>5. /\ SaneTable(done) /\ Fits(done, found) /\ done' = done /\ vols' = AttachVols(done)
        /\ \A v \in Vols : /\ eba'[v] = IF done[v].size > 0 THEN found[v] ELSE Nothing
                           /\ pend'[v] = IF done[v].size > 0 THEN Nothing ELSE found[v]
    BY <2>1 DEF Attaches
  <2>6. \A v \in Vols : Ram(v)' = done[v] BY <2>4, <2>5, AttachRam
  <2> HIDE DEF found
  <2>7. \A l \in Lebs : Nothing[l] = None BY DEF Nothing
  <2>8. Clean'
    <3> SUFFICES ASSUME NEW v \in Vols, done[v].size > 0, ~done[v].mark, NEW l \in Lebs
                 PROVE  eba'[v][l] \in {"data", None} /\ (eba'[v][l] = None => pend'[v][l] \in {"data", None})
      BY <2>5 DEF Clean
    <3>1. eba[v][l] \in {"data", None} /\ (eba[v][l] = None => pend[v][l] \in {"data", None}) BY DEF DataInv, Clean
    <3>2. eba'[v][l] = found[v][l] /\ pend'[v][l] = None BY <2>5, <2>7
    <3> QED BY <2>2, <2>3, <3>1, <3>2
  <2>9. InBounds'
    <3> SUFFICES ASSUME NEW v \in Vols, NEW l \in Lebs, eba'[v][l] # None PROVE l < done[v].size
      BY <2>6 DEF InBounds
    <3>1. done[v].size > 0 /\ found[v][l] # None BY <2>5, <2>7
    <3>2. done[v].size \in 0 .. MaxSize BY <2>4 DEF Tables, Records
    <3>3. \A k \in done[v].size .. MaxSize - 1 : found[v][k] = None BY <2>5, <3>1 DEF Fits
    <3>4. l \notin done[v].size .. MaxSize - 1 BY <3>1, <3>3
    <3> QED BY <3>2, <3>4, VolSizes DEF Lebs
  <2> QED BY <1>2, <2>8, <2>9 DEF DataInv
<1> QED BY <1>3, <1>4, CutIs

\* Every step of a process preserves the data invariant.
LEMMA ClientData ==
    ASSUME HolderInv, FlashTypes, TableInv, DataInv, PlainInv, NEW c \in Clients, Client(c)
    PROVE  DataInv'
<1>0. Others(c) BY ClientOthers
<1>1. CASE TableFails(c) BY <1>0, <1>1, FailsData
<1>2. CASE TableStep(c) BY <1>0, <1>2, TableStepData
<1>3. CASE ChangeSteps(c) BY <1>0, <1>3, ChangeData
<1>4. CASE pc[c] = "apply"
  BY <1>0, <1>4, ClientApplies, CreateEndData, RemoveEndData, ResizeEndData, RenameEndData, MarkEndData, ClearEndData,
     UnmapFailsData DEF EndSteps
<1>5. CASE pc[c] # "apply" /\ ~TableFails(c) /\ ~TableStep(c) /\ ~ChangeSteps(c)
  <2>1. TableQuiet(c) BY <1>5, ClientTable
  <2>2. Elsewhere(c) BY <1>5, <2>1, ClientElsewhere
  <2>3. KeepRam BY <1>5, ClientRam
        DEF Changes, CreateEnd, RemoveEnd, ResizeEnd, RenameEnd, MarkEnd, ClearEnd
  <2>4. CASE UpdateSteps(c)
    BY <2>4, UpdateStartData, UpdateWriteData, UpdateWipeData, UpdateFlushData DEF UpdateSteps
  <2>5. CASE \E v \in Vols, l \in Lebs : Write(c, v, l) \/ Unmap(c, v, l) BY <2>5, WriteData
  <2>6. CASE ~UpdateSteps(c) /\ UNCHANGED <<eba, pend>> BY <1>0, <2>2, <2>3, <2>6, CalmData
  <2> QED BY <2>2, <2>4, <2>5, <2>6 DEF Elsewhere
<1> QED BY <1>1, <1>2, <1>3, <1>4, <1>5

\* Every step preserves the data invariant.
LEMMA DataStep == ASSUME HolderInv, FlashTypes, LayInv, TableInv, DataInv, PlainInv, [Next]_vars PROVE DataInv'
<1>1. CASE \E c \in Clients : Client(c) BY <1>1, ClientData
<1>2. CASE PebGoesBad \/ GoesReadOnly \/ UNCHANGED vars
  <2>1. UNCHANGED <<dev, vols, eba, pend, done, stage, pc, job>> /\ (~ro' => ~ro)
    BY <1>2 DEF PebGoesBad, GoesReadOnly, vars, flash, hist
  <2>2. \A c \in Clients : Leaves(c)' BY <2>1 DEF DataInv, Leaves, Clearing, Writing
  <2> QED BY <2>1, <2>2 DEF DataInv, InBounds, Clean, Ram
<1>3. CASE PowerCut BY <1>3, CutData
<1> QED BY <1>1, <1>2, <1>3 DEF Next

\* The data invariant holds at first.
LEMMA DataInit == Init => DataInv /\ PlainInv
<1> SUFFICES ASSUME Init PROVE DataInv /\ PlainInv OBVIOUS
<1>1. \A v \in Vols, l \in Lebs : eba[v][l] = None /\ pend[v][l] = None BY DEF Init, Nothing
<1>2. \A c \in Clients : pc[c] = "idle" /\ job[c] = NoJob BY DEF Init
<1>3. DataInv BY <1>1, <1>2 DEF DataInv, InBounds, Clean, Leaves, Clearing, Writing
<1> QED BY <1>2, <1>3, NoJobPlain DEF PlainInv

\* A volume without an update marker on flash never shows, now or after a power
\* cut, a LEB of a removed volume, of before its last update, or of an update
\* that is not finished (upd.c, vmt.c, vtbl.c).
THEOREM NoStaleDataShown == Spec => []NoStaleData
<1>1. Init => LayInv BY DEF Init, LayInv
<1>2. Init => TableInv BY TableInvInit
<1>3. Init => DataInv /\ PlainInv BY DataInit
<1>4. HolderInv /\ FlashTypes /\ LayInv /\ [Next]_vars => LayInv' BY LayStep
<1>5. HolderInv /\ FlashTypes /\ TableInv /\ [Next]_vars => TableInv' BY TableInvStep
<1>6. HolderInv /\ PlainInv /\ [Next]_vars => PlainInv' BY PlainStep
<1>7. HolderInv /\ FlashTypes /\ LayInv /\ TableInv /\ DataInv /\ PlainInv /\ [Next]_vars => DataInv' BY DataStep
<1>8. DataInv => NoStaleData BY DEF DataInv, Clean, NoStaleData
<1>9. Spec => [](HolderInv /\ FlashTypes) BY Holders
<1> QED BY <1>1, <1>2, <1>3, <1>4, <1>5, <1>6, <1>7, <1>8, <1>9, PTL DEF Spec
=============================================================================
