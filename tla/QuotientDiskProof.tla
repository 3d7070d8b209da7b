-------------------------- MODULE QuotientDiskProof ---------------------------
(***************************************************************************)
(* Proofs about QuotientDisk, for any number of provers, of columns and of *)
(* rows, any tile, any number of restarts and anything left in the         *)
(* directories.  Three layers, each resting on the one before it:          *)
(*                                                                         *)
(*   - every variable has its type, wherever the provers work;             *)
(*   - if every prover has a directory of its own, its cosets are intact   *)
(*     and a run that succeeds leaves its directory empty;                 *)
(*   - if moreover one instance is proved at a time, the rows streamed to  *)
(*     the values file are those of the in-core quotient, and the run      *)
(*     returns it: QuotientDisk implements Quotient.                       *)
(*                                                                         *)
(* The two hypotheses are those the code needs: without the first the      *)
(* provers empty and remove one another's files, without the second the    *)
(* tile of an instance overwrites the values of the instance before it;    *)
(* the runs QuotientDiskSameDir and QuotientDiskInstances show both.       *)
(***************************************************************************)
EXTENDS QuotientDisk, CommonLemmas

-----------------------------------------------------------------------------
(* The names of coset files, and of a term group. *)
Names == {"adv", "ins", "shp", "lkp", "lki", "lkt", "ppc"} \X Int \X Int

PCs == {"spill", "write", "set_len", "instance", "tile", "group",
        "remove", "list", "sweep", "done", "stopped"}

(* The runs whose files may be in a directory, and the inodes a name may
   have there. *)
OwnersIn(d) == {<<d, 0>>}
                 \cup {<<p, r>> : p \in {q \in Provers : DirOf[q] = d}, r \in 1 .. MaxRuns}
InodesOf(d, f) == OwnersIn(d) \X {f}

Existing(f) == IF f = Values THEN DOMAIN rows ELSE DOMAIN coset

(* Every variable is a function of the provers, or of the directories. *)
Shape ==
  /\ DOMAIN dir = Dirs
  /\ run \in [Provers -> 1 .. MaxRuns]
  /\ pc \in [Provers -> PCs]
  /\ todo \in [Provers -> Seq(Names)]
  /\ inst \in [Provers -> 0 .. Instances]
  /\ s \in [Provers -> 0 .. Size]
  /\ group \in [Provers -> 0 .. Len(Groups)]
  /\ DOMAIN handle = Provers /\ DOMAIN tv = Provers /\ DOMAIN window = Provers
  /\ DOMAIN values = Provers /\ DOMAIN sweep = Provers /\ DOMAIN outcome = Provers
  /\ \A p \in Provers : tv[p] = [k \in 1 .. group[p] |-> tv[p][k]]

(* A coset file is empty or holds the coset of a run. *)
Contents == \A x \in DOMAIN coset : coset[x] \in Runs \cup {Empty}

(* A name leads to an inode of that name that exists and that a run of a
   prover of this directory made, or that was there. *)
Inodes ==
  /\ \A d \in Dirs : \A f \in DOMAIN dir[d] :
       dir[d][f] \in InodesOf(d, f) /\ dir[d][f] \in Existing(f)
  /\ \A p \in Provers : \A f \in DOMAIN handle[p] :
       handle[p][f] \in InodesOf(Home(p), f) /\ handle[p][f] \in Existing(f)

(* The file that is being written is open. *)
Writing ==
  \A p \in Provers : pc[p] = "write" =>
    todo[p] # << >> /\ Head(todo[p]) \in DOMAIN handle[p]

TInv == Shape /\ Contents /\ Inodes /\ Writing

-----------------------------------------------------------------------------
(* Own directories. *)
OwnDirectories == \A p, q \in Provers : DirOf[p] = DirOf[q] => p = q

(* What the sweep has not removed yet is what the directory still holds. *)
Sweeping ==
  \A p \in Provers :
    /\ pc[p] = "sweep" => DOMAIN Here(p) \subseteq sweep[p]
    /\ pc[p] = "done"  => DOMAIN Here(p) = {}

DInv == TInv /\ CosetsIntact /\ Sweeping

-----------------------------------------------------------------------------
(* One instance at a time. *)
OneInstance == Instances = 1

ElemsOf(q) == {q[i] : i \in 1 .. Len(q)}
AllGroupFiles == UNION {GroupFiles(0, Groups[k]) : k \in 1 .. Len(Groups)}

(* A coset the tile loop will read has been opened or is still to be. *)
Needed(p) == IF inst[p] = 0 THEN TileFiles(0) ELSE TileFiles(0) \cup AllGroupFiles
Spilling(p) ==
  ~Ended(p) =>
    /\ Needed(p) \subseteq DOMAIN handle[p] \cup ElemsOf(todo[p])
    /\ pc[p] \notin {"spill", "write"} => todo[p] = << >>

(* The first n terms of a row, and the values file when its first n rows are
   written. *)
Terms(r, n)    == [k \in 1 .. n |-> Ref!InCoreTerm(r, k)]
Streamed(r, n) == [i \in 1 .. Size |-> IF i <= n THEN Terms(r, Len(Groups)) ELSE Zero]

(* The values file stays open from OpenValues on; it has its full length once
   SetLen is done; the rows below the tile are the in-core ones. *)
ValuesOpen(p) == pc[p] \in {"set_len", "instance", "tile", "group"} \/ inst[p] > 0
FullLength(p) == \/ pc[p] \in {"instance", "tile", "group"}
                 \/ pc[p] \in {"spill", "write"} /\ inst[p] = 1
Streaming(p) ==
  ~Ended(p) =>
    /\ ValuesOpen(p) => Values \in DOMAIN handle[p]
    /\ pc[p] = "set_len" => inst[p] = 0 /\ rows[handle[p][Values]] = << >>
    /\ pc[p] \in {"tile", "group"} => inst[p] # 0
    /\ inst[p] = 0 => s[p] = 0
    /\ pc[p] = "instance" /\ inst[p] = 1 => s[p] = Size
    /\ FullLength(p) => rows[handle[p][Values]] = Streamed(RunOf(p), s[p])

(* Inside a tile the accumulator holds the first terms. *)
Accumulating(p) ==
  pc[p] = "group" =>
    /\ window[p] = {<<f, RunOf(p)>> : f \in TileFiles(0)}
    /\ tv[p] = Terms(RunOf(p), group[p])

Answered(p) ==
  /\ pc[p] \in {"remove", "list", "sweep", "done"} => values[p] = Ref!InCore(RunOf(p))
  /\ outcome[p] = IF pc[p] = "stopped" THEN Ref!Error
                  ELSE IF pc[p] = "done" THEN Ref!Ok(values[p]) ELSE Ref!Pending

Computing(p) == Spilling(p) /\ Streaming(p) /\ Accumulating(p) /\ Answered(p)

QInv == DInv /\ \A p \in Provers : Computing(p)

-----------------------------------------------------------------------------
(***************************************************************************)
(* The names a run spills, and the term groups.                            *)
(***************************************************************************)
LEMMA ValuesIsNoCoset == Values \notin Names
BY DEF Values, Names

LEMMA UpFrontNames == UpFront \in Seq(Names)
<1> DEFINE adv == [k \in 1 .. Instances * NAdv |-> <<"adv", (k - 1) \div NAdv, (k - 1) % NAdv>>]
           ins == [k \in 1 .. Instances * NIns |-> <<"ins", (k - 1) \div NIns, (k - 1) % NIns>>]
<1>1. Instances * NAdv \in Nat /\ Instances * NIns \in Nat
  BY QuotientAssumption
<1>2. adv \in [1 .. Instances * NAdv -> Names]
  <2>1. ASSUME NEW k \in 1 .. Instances * NAdv
        PROVE  (k - 1) \div NAdv \in Int /\ (k - 1) % NAdv \in Int
    <3>1. NAdv \in Nat \ {0}
      BY QuotientAssumption
    <3> QED BY <3>1
  <2> QED BY <2>1 DEF Names
<1>3. ins \in [1 .. Instances * NIns -> Names]
  <2>1. ASSUME NEW k \in 1 .. Instances * NIns
        PROVE  (k - 1) \div NIns \in Int /\ (k - 1) % NIns \in Int
    <3>1. NIns \in Nat \ {0}
      BY QuotientAssumption
    <3> QED BY <3>1
  <2> QED BY <2>1 DEF Names
<1> HIDE DEF adv, ins
<1>4. adv \in Seq(Names) /\ ins \in Seq(Names)
  BY <1>1, <1>2, <1>3, FunctionIsSeq
<1>5. UpFront = adv \o ins
  BY DEF UpFront, adv, ins
<1> QED BY <1>4, <1>5

LEMMA PerInstanceNames ==
  ASSUME NEW i \in Int PROVE PerInstance(i) \in Seq(Names)
<1> DEFINE shp == [k \in 1 .. NShp |-> <<"shp", i, k - 1>>]
           lk  == [k \in 1 .. 3 * NLk |-> <<LookupKinds[((k - 1) % 3) + 1], i, (k - 1) \div 3>>]
           ppc == [k \in 1 .. NPpc |-> <<"ppc", i, k - 1>>]
<1>1. NShp \in Nat /\ 3 * NLk \in Nat /\ NPpc \in Nat
  BY QuotientAssumption
<1>2. shp \in [1 .. NShp -> Names] /\ ppc \in [1 .. NPpc -> Names]
  BY <1>1 DEF Names
<1>3. lk \in [1 .. 3 * NLk -> Names]
  <2>1. ASSUME NEW k \in 1 .. 3 * NLk
        PROVE  /\ ((k - 1) % 3) + 1 \in {1, 2, 3} /\ (k - 1) \div 3 \in Int
    BY <1>1
  <2>2. \A c \in {1, 2, 3} : LookupKinds[c] \in {"lkp", "lki", "lkt"}
    BY DEF LookupKinds
  <2> QED BY <2>1, <2>2 DEF Names
<1> HIDE DEF shp, lk, ppc
<1>4. shp \in Seq(Names) /\ lk \in Seq(Names) /\ ppc \in Seq(Names)
  BY <1>1, <1>2, <1>3, FunctionIsSeq
<1>5. PerInstance(i) = (shp \o lk) \o ppc
  BY DEF PerInstance, shp, lk, ppc
<1> QED BY <1>4, <1>5

GroupKinds == {<<"gates", 0>>, <<"perm", 0>>}
                \cup {<<"lookup", n>> : n \in 0 .. NLk - 1}
                \cup {<<"shuffle", n>> : n \in 0 .. NShp - 1}

LEMMA GroupsSeq == Groups \in Seq(GroupKinds) /\ Len(Groups) \in Nat \ {0}
<1> DEFINE perm == IF NPpc > 0 THEN << <<"perm", 0>> >> ELSE << >>
           lk  == [n \in 1 .. NLk  |-> <<"lookup", n - 1>>]
           shf == [n \in 1 .. NShp |-> <<"shuffle", n - 1>>]
           gates == << <<"gates", 0>> >>
<1>1. lk \in [1 .. NLk -> GroupKinds] /\ shf \in [1 .. NShp -> GroupKinds]
  BY QuotientAssumption DEF GroupKinds
<1>2. perm \in Seq(GroupKinds) /\ gates \in Seq(GroupKinds) /\ Len(gates) = 1
  BY DEF GroupKinds
<1> HIDE DEF lk, shf, perm, gates
<1>3. lk \in Seq(GroupKinds) /\ shf \in Seq(GroupKinds)
  BY <1>1, FunctionIsSeq, QuotientAssumption
<1>4. PICK gp : gp = gates \o perm
  OBVIOUS
<1>5. gp \in Seq(GroupKinds) /\ Len(gp) = 1 + Len(perm)
  BY ZenonT(60), <1>2, <1>4, ConcatProperties
<1>6. PICK gl : gl = gp \o lk
  OBVIOUS
<1>7. gl \in Seq(GroupKinds) /\ Len(gl) = 1 + Len(perm) + Len(lk)
  BY <1>3, <1>5, <1>6, ConcatProperties
<1>8. Groups = gl \o shf
  BY <1>4, <1>6 DEF Groups, gates, perm, lk, shf
<1>9. Groups \in Seq(GroupKinds) /\ Len(Groups) = 1 + Len(perm) + Len(lk) + Len(shf)
  BY <1>3, <1>7, <1>8, ConcatProperties
<1> QED BY <1>2, <1>3, <1>9, LenProperties

-----------------------------------------------------------------------------
(***************************************************************************)
(* Types.                                                                  *)
(***************************************************************************)
LEMMA TypesAtFirst == Init => TInv
<1> SUFFICES ASSUME Init PROVE TInv
  OBVIOUS
<1>1. MaxRuns \in Nat \ {0} /\ Instances \in Nat \ {0} /\ Size \in Nat \ {0}
  BY QuotientAssumption, DiskAssumption
<1>2. PICK names \in [Dirs -> SUBSET Leftovers] :
        dir = [d \in Dirs |-> [f \in names[d] |-> <<<<d, 0>>, f>>]]
  BY DEF Init
<1>3. Shape
  <2>1. todo \in [Provers -> Seq(Names)]
    BY UpFrontNames DEF Init
  <2>2. group \in [Provers -> 0 .. Len(Groups)]
    BY GroupsSeq DEF Init
  <2>3. \A p \in Provers : tv[p] = [k \in 1 .. group[p] |-> tv[p][k]]
    BY DEF Init, Zero
  <2> QED BY <1>1, <1>2, <2>1, <2>2, <2>3 DEF Init, Shape, PCs
<1>4. Contents
  BY <1>1 DEF Init, Contents, Runs
<1>5. Inodes
  <2>1. ASSUME NEW d \in Dirs, NEW f \in DOMAIN dir[d]
        PROVE  dir[d][f] \in InodesOf(d, f) /\ dir[d][f] \in Existing(f)
    <3>1. f \in Leftovers /\ dir[d][f] = <<<<d, 0>>, f>>
      BY <1>2
    <3> QED BY <3>1 DEF Init, Existing, InodesOf, OwnersIn
  <2>2. \A p \in Provers : DOMAIN handle[p] = {}
    BY DEF Init
  <2> QED BY <2>1, <2>2 DEF Inodes
<1>6. Writing
  BY DEF Init, Writing
<1> QED BY <1>3, <1>4, <1>5, <1>6 DEF TInv

(* The inode an open leads to is one of the name, in the prover's directory. *)
LEMMA OpenedInode ==
  ASSUME TInv, NEW p \in Provers, NEW f
  PROVE  Opened(p, f) \in InodesOf(Home(p), f)
<1>1. Home(p) \in Dirs /\ run[p] \in 1 .. MaxRuns
  BY DiskAssumption DEF TInv, Shape, Home
<1>2. RunOf(p) = <<p, run[p]>>
  BY DEF RunOf, Ref!RunOf
<1>3. RunOf(p) \in OwnersIn(Home(p))
  BY <1>1, <1>2 DEF OwnersIn, Home
<1>4. CASE f \in DOMAIN Here(p)
  BY <1>1, <1>4 DEF Opened, Here, TInv, Inodes
<1>5. CASE f \notin DOMAIN Here(p)
  BY <1>3, <1>5 DEF Opened, InodesOf
<1> QED BY <1>4, <1>5

(* An open, with the inode created if there was none. *)
LEMMA OpenKeepsInodes ==
  ASSUME TInv, NEW p \in Provers, NEW f, Open(p, f),
         DOMAIN coset' = IF f = Values THEN DOMAIN coset ELSE DOMAIN coset \cup {Opened(p, f)},
         DOMAIN rows' = IF f = Values THEN DOMAIN rows \cup {Opened(p, f)} ELSE DOMAIN rows
  PROVE  /\ Inodes' /\ DOMAIN dir' = Dirs /\ DOMAIN handle' = Provers
         /\ f \in DOMAIN handle'[p]
         /\ \A q \in Provers : DOMAIN handle[q] \subseteq DOMAIN handle'[q]
<1> DEFINE o == Opened(p, f)
<1>1. Home(p) \in Dirs /\ DOMAIN dir = Dirs /\ DOMAIN handle = Provers
  BY DiskAssumption DEF TInv, Shape, Home
<1>2. o \in InodesOf(Home(p), f)
  BY OpenedInode
<1>3. o \in Existing(f)'
  BY DEF Existing
<1>4. \A g : Existing(g) \subseteq Existing(g)'
  BY DEF Existing
<1>5. /\ dir' = [dir EXCEPT ![Home(p)] = Put(@, f, o)]
      /\ handle' = [handle EXCEPT ![p] = Put(@, f, o)]
  BY DEF Open
<1> HIDE DEF o
<1>6. ASSUME NEW d \in Dirs, NEW g \in DOMAIN dir'[d]
      PROVE  dir'[d][g] \in InodesOf(d, g) /\ dir'[d][g] \in Existing(g)'
  <2>1. CASE d = Home(p) /\ g = f
    <3>1. dir'[d][g] = o
      BY <1>1, <1>5, <2>1 DEF Put
    <3> QED BY <1>2, <1>3, <2>1, <3>1
  <2>2. CASE ~(d = Home(p) /\ g = f)
    <3>1. g \in DOMAIN dir[d] /\ dir'[d][g] = dir[d][g]
      BY <1>1, <1>5, <2>2 DEF Put
    <3>2. dir[d][g] \in InodesOf(d, g) /\ dir[d][g] \in Existing(g)
      BY <3>1 DEF TInv, Inodes
    <3> QED BY <1>4, <3>1, <3>2
  <2> QED BY <2>1, <2>2
<1>7. ASSUME NEW q \in Provers, NEW g \in DOMAIN handle'[q]
      PROVE  handle'[q][g] \in InodesOf(Home(q), g) /\ handle'[q][g] \in Existing(g)'
  <2>1. CASE q = p /\ g = f
    <3>1. handle'[q][g] = o
      BY <1>1, <1>5, <2>1 DEF Put
    <3> QED BY <1>2, <1>3, <2>1, <3>1
  <2>2. CASE ~(q = p /\ g = f)
    <3>1. g \in DOMAIN handle[q] /\ handle'[q][g] = handle[q][g]
      BY <1>1, <1>5, <2>2 DEF Put
    <3>2. handle[q][g] \in InodesOf(Home(q), g) /\ handle[q][g] \in Existing(g)
      BY <3>1 DEF TInv, Inodes
    <3> QED BY <1>4, <3>1, <3>2
  <2> QED BY <2>1, <2>2
<1>8. Inodes'
  BY <1>6, <1>7 DEF Inodes, InodesOf, OwnersIn, Home
<1>9. DOMAIN dir' = Dirs /\ DOMAIN handle' = Provers
  BY <1>1, <1>5
<1>10. \A q \in Provers : DOMAIN handle[q] \subseteq DOMAIN handle'[q]
  BY <1>1, <1>5 DEF Put
<1>11. f \in DOMAIN handle'[p]
  BY <1>1, <1>5 DEF Put
<1> QED BY <1>8, <1>9, <1>10, <1>11

(* A step that creates no file and opens none: names may go, and the handles
   of a run that starts again. *)
LEMMA InodesKept ==
  ASSUME TInv, DOMAIN coset' = DOMAIN coset, DOMAIN rows' = DOMAIN rows,
         \A d \in Dirs : \A f \in DOMAIN dir'[d] :
           f \in DOMAIN dir[d] /\ dir'[d][f] = dir[d][f],
         \A q \in Provers : \A f \in DOMAIN handle'[q] :
           f \in DOMAIN handle[q] /\ handle'[q][f] = handle[q][f]
  PROVE  Inodes'
<1>1. \A f : Existing(f)' = Existing(f)
  BY DEF Existing
<1>2. \A d \in Dirs : \A f \in DOMAIN dir'[d] :
        dir'[d][f] \in InodesOf(d, f) /\ dir'[d][f] \in Existing(f)'
  BY <1>1 DEF TInv, Inodes
<1>3. \A q \in Provers : \A f \in DOMAIN handle'[q] :
        handle'[q][f] \in InodesOf(Home(q), f) /\ handle'[q][f] \in Existing(f)'
  BY <1>1 DEF TInv, Inodes
<1> QED BY <1>2, <1>3 DEF Inodes, InodesOf, OwnersIn, Home

(* Every step keeps the types; the actions in the order of the module. *)
LEMMA TypesKept ==
  ASSUME TInv, [Next]_vars PROVE TInv'
<1> USE DEF fileVars, runVars, tileVars, endVars
<1>1. /\ MaxRuns \in Nat \ {0} /\ Instances \in Nat \ {0} /\ Size \in Nat \ {0} /\ Tile \in Nat
      /\ DirOf \in [Provers -> Dirs] /\ Len(Groups) \in Nat \ {0}
      /\ UpFront \in Seq(Names) /\ Values \notin Names /\ Zero = << >>
      /\ \A p \in Provers : Home(p) \in Dirs
  BY QuotientAssumption, DiskAssumption, GroupsSeq, UpFrontNames, ValuesIsNoCoset DEF Home, Zero
<1>2. Shape /\ Contents /\ Inodes /\ Writing
  BY DEF TInv
<1>3. \A p \in Provers : RunOf(p) \in Runs /\ RunOf(p) # Empty
  <2>1. \A p \in Provers : RunOf(p) = <<p, run[p]>> /\ run[p] \in 1 .. MaxRuns
    BY <1>2 DEF Shape, RunOf, Ref!RunOf
  <2> QED BY <2>1 DEF Runs, Empty
<1>4. ASSUME NEW p \in Provers, CreateCoset(p) PROVE TInv'
  <2> DEFINE f == Head(todo[p])
             o == Opened(p, f)
  <2>1. f \in Names /\ f # Values
    BY <1>1, <1>2, <1>4 DEF Shape, CreateCoset
  <2>2. /\ Open(p, f) /\ coset' = Put(coset, o, Empty) /\ rows' = rows
        /\ pc' = [pc EXCEPT ![p] = "write"]
        /\ UNCHANGED <<runVars, todo, inst, tileVars, endVars>>
        /\ todo[p] # << >>
    BY <1>4 DEF CreateCoset
  <2> HIDE DEF f, o
  <2>3. DOMAIN coset' = DOMAIN coset \cup {o}
    BY <2>2 DEF Put
  <2>4. /\ Inodes' /\ DOMAIN dir' = Dirs /\ DOMAIN handle' = Provers
        /\ f \in DOMAIN handle'[p]
        /\ \A q \in Provers : DOMAIN handle[q] \subseteq DOMAIN handle'[q]
    BY <2>1, <2>2, <2>3, OpenKeepsInodes DEF o
  <2>5. Shape'
    BY <1>1, <1>2, <2>2, <2>4 DEF Shape, PCs
  <2>6. Contents'
    BY <1>2, <2>2, <2>3 DEF Contents, Put
  <2>7. Inodes'
    BY <2>4
  <2>8. Writing'
    BY <1>2, <2>2, <2>4 DEF Shape, Writing, f
  <2> QED BY <2>5, <2>6, <2>7, <2>8 DEF TInv
<1>5. ASSUME NEW p \in Provers, WriteCoset(p) PROVE TInv'
  <2>1. Tail(todo[p]) \in Seq(Names)
    <3>1. todo[p] \in Seq(Names) /\ todo[p] # << >>
      BY <1>2, <1>5 DEF Shape, Writing, WriteCoset
    <3> QED BY <3>1
  <2>2. Shape'
    BY <1>1, <1>2, <1>5, <2>1 DEF WriteCoset, Shape, PCs
  <2>3. Contents'
    BY <1>2, <1>3, <1>5 DEF WriteCoset, Contents
  <2>4. Inodes'
    BY <1>1, <1>2, <1>5, InodesKept DEF WriteCoset, Shape
  <2>5. Writing'
    BY <1>1, <1>2, <1>5 DEF WriteCoset, Shape, Writing
  <2> QED BY <2>2, <2>3, <2>4, <2>5 DEF TInv
<1>6. ASSUME NEW p \in Provers, OpenValues(p) PROVE TInv'
  <2> DEFINE o == Opened(p, Values)
  <2>1. /\ Open(p, Values) /\ rows' = Put(rows, o, << >>) /\ coset' = coset
        /\ pc' = [pc EXCEPT ![p] = "set_len"]
        /\ UNCHANGED <<runVars, todo, inst, tileVars, endVars>>
    BY <1>6 DEF OpenValues
  <2> HIDE DEF o
  <2>2. DOMAIN rows' = DOMAIN rows \cup {o}
    BY <2>1 DEF Put
  <2>3. /\ Inodes' /\ DOMAIN dir' = Dirs /\ DOMAIN handle' = Provers
        /\ \A q \in Provers : DOMAIN handle[q] \subseteq DOMAIN handle'[q]
    BY <2>1, <2>2, OpenKeepsInodes DEF o
  <2>4. Shape'
    BY <1>1, <1>2, <2>1, <2>3 DEF Shape, PCs
  <2>5. Contents'
    BY <1>2, <2>1 DEF Contents
  <2>6. Inodes'
    BY <2>3
  <2>7. Writing'
    BY <1>2, <2>1, <2>3 DEF Shape, Writing
  <2> QED BY <2>4, <2>5, <2>6, <2>7 DEF TInv
<1>7. ASSUME NEW p \in Provers, SetLen(p) PROVE TInv'
  <2>1. Shape'
    BY <1>1, <1>2, <1>7 DEF SetLen, Shape, PCs
  <2>2. Contents'
    BY <1>2, <1>7 DEF SetLen, Contents
  <2>3. Inodes'
    BY <1>1, <1>2, <1>7, InodesKept DEF SetLen, Shape
  <2>4. Writing'
    BY <1>1, <1>2, <1>7 DEF SetLen, Shape, Writing
  <2> QED BY <2>1, <2>2, <2>3, <2>4 DEF TInv
<1>8. ASSUME NEW p \in Provers, StartInstance(p) PROVE TInv'
  <2>1. inst[p] \in Int /\ inst[p] + 1 \in 0 .. Instances /\ PerInstance(inst[p]) \in Seq(Names)
    <3>1. inst[p] \in Int /\ inst[p] + 1 \in 0 .. Instances
      BY <1>1, <1>2, <1>8 DEF Shape, StartInstance
    <3> QED BY <3>1, PerInstanceNames
  <2>2. Shape'
    BY SMTT(40), <1>1, <1>2, <1>8, <2>1 DEF StartInstance, Shape, PCs
  <2>3. Contents'
    BY <1>2, <1>8 DEF StartInstance, Contents
  <2>4. Inodes'
    BY <1>1, <1>2, <1>8, InodesKept DEF StartInstance, Shape
  <2>5. Writing'
    BY <1>1, <1>2, <1>8 DEF StartInstance, Shape, Writing
  <2> QED BY <2>2, <2>3, <2>4, <2>5 DEF TInv
<1>9. ASSUME NEW p \in Provers, OpenTile(p) PROVE TInv'
  <2>1. Shape'
    BY SMTT(40), <1>1, <1>2, <1>9 DEF OpenTile, Shape, PCs
  <2>2. Contents'
    BY <1>2, <1>9 DEF OpenTile, Contents
  <2>3. Inodes'
    BY <1>1, <1>2, <1>9, InodesKept DEF OpenTile, Shape
  <2>4. Writing'
    BY <1>1, <1>2, <1>9 DEF OpenTile, Shape, Writing
  <2> QED BY <2>1, <2>2, <2>3, <2>4 DEF TInv
<1>10. ASSUME NEW p \in Provers, EvaluateGroup(p) PROVE TInv'
  <2> DEFINE x == Ref!Term(Current(p), NextGroup(p),
                         window[p] \cup Read(p, GroupFiles(Current(p), NextGroup(p))))
  <2>1. /\ group' = [group EXCEPT ![p] = @ + 1] /\ tv' = [tv EXCEPT ![p] = Append(@, x)]
        /\ group[p] < Len(Groups) /\ pc[p] = "group"
        /\ UNCHANGED <<fileVars, runVars, pc, todo, handle, inst, s, window, endVars>>
    BY <1>10 DEF EvaluateGroup, AtGroup
  <2> HIDE DEF x
  <2>2. group[p] \in Nat /\ tv[p] = [k \in 1 .. group[p] |-> tv[p][k]] /\ group[p] + 1 \in 0 .. Len(Groups)
    BY <1>1, <1>2, <2>1 DEF Shape
  <2>3. Append(tv[p], x) = [k \in 1 .. group[p] + 1 |-> IF k = group[p] + 1 THEN x ELSE tv[p][k]]
    BY <2>2, AppendOf
  <2>4. tv'[p] = [k \in 1 .. group'[p] |-> tv'[p][k]]
    BY <1>2, <2>1, <2>2, <2>3 DEF Shape
  <2>5. Shape'
    <3>1. \A q \in Provers : tv'[q] = [k \in 1 .. group'[q] |-> tv'[q][k]]
      BY <1>2, <2>1, <2>4 DEF Shape
    <3> QED BY <1>1, <1>2, <2>1, <2>2, <3>1 DEF Shape, PCs
  <2>6. Contents'
    BY <1>2, <2>1 DEF Contents
  <2>7. Inodes'
    BY <1>2, <2>1, InodesKept DEF Shape
  <2>8. Writing'
    BY <1>2, <2>1 DEF Writing
  <2> QED BY <2>5, <2>6, <2>7, <2>8 DEF TInv
<1>11. ASSUME NEW p \in Provers, WriteTile(p) PROVE TInv'
  <2>1. s[p] + TileLen(p) \in 0 .. Size
    BY <1>1, <1>2 DEF Shape, TileLen
  <2>2. Shape'
    BY <1>1, <1>2, <1>11, <2>1 DEF WriteTile, Shape, PCs
  <2>3. Contents'
    BY <1>2, <1>11 DEF WriteTile, Contents
  <2>4. Inodes'
    BY <1>1, <1>2, <1>11, InodesKept DEF WriteTile, Shape
  <2>5. Writing'
    BY <1>1, <1>2, <1>11 DEF WriteTile, Shape, Writing
  <2> QED BY <2>2, <2>3, <2>4, <2>5 DEF TInv
<1>12. ASSUME NEW p \in Provers, EndInstance(p) PROVE TInv'
  <2>1. Shape'
    BY <1>1, <1>2, <1>12 DEF EndInstance, Shape, PCs
  <2>2. Contents'
    BY <1>2, <1>12 DEF EndInstance, Contents
  <2>3. Inodes'
    BY <1>1, <1>2, <1>12, InodesKept DEF EndInstance, Shape
  <2>4. Writing'
    BY <1>1, <1>2, <1>12 DEF EndInstance, Shape, Writing
  <2> QED BY <2>1, <2>2, <2>3, <2>4 DEF TInv
<1>13. ASSUME NEW p \in Provers, ReadBack(p) PROVE TInv'
  <2>1. Shape'
    BY <1>1, <1>2, <1>13 DEF ReadBack, Shape, PCs
  <2>2. Contents'
    BY <1>2, <1>13 DEF ReadBack, Contents
  <2>3. Inodes'
    BY <1>1, <1>2, <1>13, InodesKept DEF ReadBack, Shape
  <2>4. Writing'
    BY <1>1, <1>2, <1>13 DEF ReadBack, Shape, Writing
  <2> QED BY <2>1, <2>2, <2>3, <2>4 DEF TInv
<1>14. ASSUME NEW p \in Provers, RemoveValues(p) PROVE TInv'
  <2>1. Shape'
    BY <1>1, <1>2, <1>14 DEF RemoveValues, Drop, Shape, PCs
  <2>2. Contents'
    BY <1>2, <1>14 DEF RemoveValues, Drop, Contents
  <2>3. Inodes'
    BY <1>1, <1>2, <1>14, InodesKept DEF RemoveValues, Drop, Shape
  <2>4. Writing'
    BY <1>1, <1>2, <1>14 DEF RemoveValues, Drop, Shape, Writing
  <2> QED BY <2>1, <2>2, <2>3, <2>4 DEF TInv
<1>15. ASSUME NEW p \in Provers, ListDir(p) PROVE TInv'
  <2>1. Shape'
    BY <1>1, <1>2, <1>15 DEF ListDir, Shape, PCs
  <2>2. Contents'
    BY <1>2, <1>15 DEF ListDir, Contents
  <2>3. Inodes'
    BY <1>1, <1>2, <1>15, InodesKept DEF ListDir, Shape
  <2>4. Writing'
    BY <1>1, <1>2, <1>15 DEF ListDir, Shape, Writing
  <2> QED BY <2>1, <2>2, <2>3, <2>4 DEF TInv
<1>16. ASSUME NEW p \in Provers, RemoveEntry(p) PROVE TInv'
  <2>1. Shape'
    BY <1>1, <1>2, <1>16 DEF RemoveEntry, Drop, Shape, PCs
  <2>2. Contents'
    BY <1>2, <1>16 DEF RemoveEntry, Drop, Contents
  <2>3. Inodes'
    BY <1>1, <1>2, <1>16, InodesKept DEF RemoveEntry, Drop, Shape
  <2>4. Writing'
    BY <1>1, <1>2, <1>16 DEF RemoveEntry, Drop, Shape, Writing
  <2> QED BY <2>1, <2>2, <2>3, <2>4 DEF TInv
<1>17. ASSUME NEW p \in Provers, Return(p) PROVE TInv'
  <2>1. Shape'
    BY <1>1, <1>2, <1>17 DEF Return, Shape, PCs
  <2>2. Contents'
    BY <1>2, <1>17 DEF Return, Contents
  <2>3. Inodes'
    BY <1>1, <1>2, <1>17, InodesKept DEF Return, Shape
  <2>4. Writing'
    BY <1>1, <1>2, <1>17 DEF Return, Shape, Writing
  <2> QED BY <2>1, <2>2, <2>3, <2>4 DEF TInv
<1>18. ASSUME NEW p \in Provers, Stop(p) PROVE TInv'
  <2>1. Shape'
    BY <1>1, <1>2, <1>18 DEF Stop, Shape, PCs
  <2>2. Contents'
    BY <1>2, <1>18 DEF Stop, Contents
  <2>3. Inodes'
    BY <1>1, <1>2, <1>18, InodesKept DEF Stop, Shape
  <2>4. Writing'
    BY <1>1, <1>2, <1>18 DEF Stop, Shape, Writing
  <2> QED BY <2>1, <2>2, <2>3, <2>4 DEF TInv
<1>19. ASSUME NEW p \in Provers, Restart(p) PROVE TInv'
  <2>1. Shape'
    <3>1. run' \in [Provers -> 1 .. MaxRuns]
      BY <1>1, <1>2, <1>19 DEF Restart, Shape
    <3>2. pc' \in [Provers -> PCs] /\ todo' \in [Provers -> Seq(Names)]
      BY <1>1, <1>2, <1>19 DEF Restart, Shape, PCs
    <3>3. /\ inst' \in [Provers -> 0 .. Instances] /\ s' \in [Provers -> 0 .. Size]
          /\ group' \in [Provers -> 0 .. Len(Groups)]
      BY <1>1, <1>2, <1>19 DEF Restart, Shape
    <3>4. ASSUME NEW q \in Provers PROVE tv'[q] = [k \in 1 .. group'[q] |-> tv'[q][k]]
      <4>1. CASE q = p
        <5>1. tv'[q] = << >> /\ group'[q] = 0
          BY <1>1, <1>2, <1>19, <4>1 DEF Restart, Shape
        <5> QED BY <5>1
      <4>2. CASE q # p
        BY <1>2, <1>19, <4>2 DEF Restart, Shape
      <4> QED BY <4>1, <4>2
    <3> QED BY <1>2, <1>19, <3>1, <3>2, <3>3, <3>4 DEF Restart, Shape
  <2>2. Contents'
    BY <1>2, <1>19 DEF Restart, Contents
  <2>3. Inodes'
    BY <1>1, <1>2, <1>19, InodesKept DEF Restart, Shape
  <2>4. Writing'
    BY <1>1, <1>2, <1>19 DEF Restart, Shape, Writing
  <2> QED BY <2>1, <2>2, <2>3, <2>4 DEF TInv
<1>20. CASE UNCHANGED vars
  BY <1>20, <1>2 DEF vars, TInv, Shape, Contents, Inodes, Existing, InodesOf, OwnersIn, Home, Writing
<1>21. ASSUME NEW p \in Provers, Work(p) \/ Interrupt(p) \/ Restart(p) PROVE TInv'
  BY <1>4, <1>5, <1>6, <1>7, <1>8, <1>9, <1>10, <1>11, <1>12, <1>13, <1>14, <1>15, <1>16, <1>17, <1>18, <1>19, <1>21
     DEF Work, Spill, Evaluate, Finish, ShortRead, Interrupt
<1> QED BY <1>20, <1>21 DEF Next, Rest

LEMMA TypesImplied == TInv => TypeOK
<1> SUFFICES ASSUME TInv PROVE TypeOK
  OBVIOUS
<1>1. ASSUME NEW p \in Provers PROVE Len(tv[p]) = group[p]
  <2>1. group[p] \in Nat /\ tv[p] = [k \in 1 .. group[p] |-> tv[p][k]]
    BY GroupsSeq DEF TInv, Shape
  <2>2. 1 \in 1 .. group[p] + 1 /\ 0 \in 1 - 1 .. group[p]
    BY <2>1
  <2> QED BY <2>1, <2>2, SliceOf
<1>2. \A d \in Dirs : \A f \in DOMAIN dir[d] :
        dir[d][f] \in IF f = Values THEN DOMAIN rows ELSE DOMAIN coset
  BY DEF TInv, Inodes, Existing
<1>3. ASSUME NEW p \in Provers
      PROVE  \A f \in DOMAIN handle[p] :
               handle[p][f] \in IF f = Values THEN DOMAIN rows ELSE DOMAIN coset
  BY DEF TInv, Inodes, Existing
<1> QED BY <1>1, <1>2, <1>3 DEF TypeOK, TInv, Shape, PCs, Contents

THEOREM TypesInvariant == Spec => []TInv
<1>1. Init => TInv
  BY TypesAtFirst
<1>2. TInv /\ [Next]_vars => TInv'
  BY TypesKept
<1> QED BY <1>1, <1>2, PTL DEF Spec

(* Whatever the provers share and whenever they are interrupted, every name
   and every open file leads to an inode that exists, a coset file is empty
   or holds the coset of some run, and the tile loop stays in the domain:
   evaluate_h_ooc_disk. *)
THEOREM TypeCorrect == Spec => []TypeOK
<1>1. Spec => []TInv
  BY TypesInvariant
<1> QED BY <1>1, TypesImplied, PTL

-----------------------------------------------------------------------------
(***************************************************************************)
(* Directories of their own.                                               *)
(***************************************************************************)
(* Two files of a directory, and any two of different directories, are two
   inodes. *)
LEMMA Apart ==
  ASSUME TInv, OwnDirectories, NEW p \in Provers, NEW q \in Provers,
         NEW f \in DOMAIN handle[p], NEW g, NEW o \in InodesOf(Home(q), g),
         p # q \/ f # g
  PROVE  handle[p][f] # o
<1>1. handle[p][f] \in InodesOf(Home(p), f)
  BY DEF TInv, Inodes
<1>2. CASE f # g
  BY <1>1, <1>2 DEF InodesOf
<1>3. CASE p # q
  <2>1. DirOf[p] # DirOf[q]
    BY <1>3 DEF OwnDirectories
  <2>2. OwnersIn(DirOf[p]) \cap OwnersIn(DirOf[q]) = {}
    BY <2>1, DiskAssumption DEF OwnersIn
  <2> QED BY <1>1, <2>2 DEF InodesOf, Home
<1> QED BY <1>2, <1>3

LEMMA OwnHome ==
  ASSUME OwnDirectories, NEW p \in Provers, NEW q \in Provers, p # q
  PROVE  Home(p) # Home(q)
BY DEF OwnDirectories, Home

(* A step that leaves the cosets, the open files and the run numbers alone. *)
LEMMA CosetsKept ==
  ASSUME CosetsIntact, UNCHANGED <<coset, handle, run>>,
         \A q \in Provers : ~Ended(q)' =>
           ~Ended(q) /\ (pc[q] = "write" => pc'[q] = "write" /\ todo'[q] = todo[q])
  PROVE  CosetsIntact'
<1> SUFFICES ASSUME NEW q \in Provers, ~Ended(q)', NEW f \in DOMAIN handle'[q] \ {Values}
             PROVE  \/ coset'[handle'[q][f]] = RunOf(q)'
                    \/ pc'[q] = "write" /\ f = Head(todo'[q]) /\ coset'[handle'[q][f]] = Empty
  BY DEF CosetsIntact
<1>1. RunOf(q)' = RunOf(q)
  BY DEF RunOf, Ref!RunOf
<1>2. \/ coset[handle[q][f]] = RunOf(q)
      \/ pc[q] = "write" /\ f = Head(todo[q]) /\ coset[handle[q][f]] = Empty
  BY DEF CosetsIntact
<1> QED BY <1>1, <1>2

(* A step of p that leaves the directories of the others alone. *)
LEMMA SweepingKept ==
  ASSUME TInv, OwnDirectories, Sweeping, NEW p \in Provers,
         \A d \in Dirs : d # Home(p) => dir'[d] = dir[d],
         \A q \in Provers : q # p => pc'[q] = pc[q] /\ sweep'[q] = sweep[q],
         pc'[p] = "sweep" => DOMAIN dir'[Home(p)] \subseteq sweep'[p],
         pc'[p] = "done" => DOMAIN dir'[Home(p)] = {}
  PROVE  Sweeping'
<1> SUFFICES ASSUME NEW q \in Provers
             PROVE  /\ pc'[q] = "sweep" => DOMAIN dir'[Home(q)] \subseteq sweep'[q]
                    /\ pc'[q] = "done"  => DOMAIN dir'[Home(q)] = {}
  BY DEF Sweeping, Here, Home
<1>1. CASE q = p
  BY <1>1
<1>2. CASE q # p
  <2>1. Home(q) # Home(p) /\ Home(q) \in Dirs
    BY <1>2, OwnHome, DiskAssumption DEF Home
  <2> QED BY <1>2, <2>1 DEF Sweeping, Here
<1> QED BY <1>1, <1>2

LEMMA CosetsAndSweepKept ==
  ASSUME DInv, OwnDirectories, [Next]_vars
  PROVE  CosetsIntact' /\ Sweeping'
<1> USE DEF fileVars, runVars, tileVars, endVars
<1>1. /\ TInv /\ CosetsIntact /\ Sweeping
      /\ Shape /\ Inodes /\ Writing
  BY DEF DInv, TInv
<1>2. \A p \in Provers : Home(p) \in Dirs
  BY DiskAssumption DEF Home
<1>3. ASSUME NEW p \in Provers, CreateCoset(p) PROVE CosetsIntact' /\ Sweeping'
  <2> DEFINE g == Head(todo[p])
             o == Opened(p, g)
  <2>1. g \in Names /\ g # Values /\ o \in InodesOf(Home(p), g)
    BY <1>1, <1>3, ValuesIsNoCoset, OpenedInode DEF Shape, CreateCoset
  <2>2. /\ dir' = [dir EXCEPT ![Home(p)] = Put(@, g, o)]
        /\ handle' = [handle EXCEPT ![p] = Put(@, g, o)]
        /\ coset' = Put(coset, o, Empty) /\ pc' = [pc EXCEPT ![p] = "write"]
        /\ pc[p] = "spill"
        /\ UNCHANGED <<rows, runVars, todo, inst, tileVars, endVars>>
    BY <1>3 DEF CreateCoset, Open
  <2>3. Head(todo[p]) = g
    OBVIOUS
  <2> HIDE DEF g, o
  <2>4. CosetsIntact'
    <3> SUFFICES ASSUME NEW q \in Provers, ~Ended(q)', NEW f \in DOMAIN handle'[q] \ {Values}
                 PROVE  \/ coset'[handle'[q][f]] = RunOf(q)'
                        \/ pc'[q] = "write" /\ f = Head(todo'[q])
                             /\ coset'[handle'[q][f]] = Empty
      BY DEF CosetsIntact
    <3>1. RunOf(q)' = RunOf(q)
      BY <2>2 DEF RunOf, Ref!RunOf
    <3>2. CASE q = p /\ f = g
      <4>1. handle'[q][f] = o
        BY <1>1, <2>2, <3>2 DEF Shape, Put
      <4>2. coset'[o] = Empty
        BY <2>2 DEF Put
      <4> QED BY <1>1, <2>2, <2>3, <3>2, <4>1, <4>2 DEF Shape
    <3>3. CASE ~(q = p /\ f = g)
      <4>1. f \in DOMAIN handle[q] /\ handle'[q][f] = handle[q][f]
        BY <1>1, <2>2, <3>3 DEF Shape, Put
      <4>2. handle[q][f] # o
        BY <1>1, <2>1, <3>3, <4>1, Apart
      <4>3. handle[q][f] \in DOMAIN coset
        BY <1>1, <4>1 DEF Inodes, Existing
      <4>4. coset'[handle'[q][f]] = coset[handle[q][f]]
        BY <2>2, <4>1, <4>2, <4>3 DEF Put
      <4>5. ~Ended(q)
        BY <1>1, <2>2 DEF Shape, Ended
      <4>6. \/ coset[handle[q][f]] = RunOf(q)
            \/ pc[q] = "write" /\ f = Head(todo[q]) /\ coset[handle[q][f]] = Empty
        BY <1>1, <4>1, <4>5 DEF CosetsIntact
      <4> QED BY <1>1, <2>2, <3>1, <4>4, <4>6 DEF Shape
    <3> QED BY <3>2, <3>3
  <2>5. Sweeping'
    BY <1>2, <1>1, <2>2, SweepingKept DEF Shape
  <2> QED BY <2>4, <2>5
<1>4. ASSUME NEW p \in Provers, WriteCoset(p) PROVE CosetsIntact' /\ Sweeping'
  <2> DEFINE g == Head(todo[p])
             x == handle[p][g]
  <2>1. /\ g \in Names /\ g # Values /\ g \in DOMAIN handle[p]
        /\ x \in InodesOf(Home(p), g) /\ x \in DOMAIN coset
    <3>1. g \in Names /\ g # Values /\ g \in DOMAIN handle[p]
      BY <1>1, <1>4, ValuesIsNoCoset DEF Shape, Writing, WriteCoset
    <3> QED BY <1>1, <3>1 DEF Inodes, Existing
  <2>2. /\ coset' = [coset EXCEPT ![x] = RunOf(p)] /\ pc' = [pc EXCEPT ![p] = "spill"]
        /\ todo' = [todo EXCEPT ![p] = Tail(@)] /\ pc[p] = "write"
        /\ UNCHANGED <<dir, rows, runVars, handle, inst, tileVars, endVars>>
    BY <1>4 DEF WriteCoset
  <2>3. Head(todo[p]) = g /\ handle[p][g] = x
    OBVIOUS
  <2> HIDE DEF g, x
  <2>4. CosetsIntact'
    <3> SUFFICES ASSUME NEW q \in Provers, ~Ended(q)', NEW f \in DOMAIN handle'[q] \ {Values}
                 PROVE  \/ coset'[handle'[q][f]] = RunOf(q)'
                        \/ pc'[q] = "write" /\ f = Head(todo'[q])
                             /\ coset'[handle'[q][f]] = Empty
      BY DEF CosetsIntact
    <3>1. RunOf(q)' = RunOf(q) /\ handle' = handle
      BY <2>2 DEF RunOf, Ref!RunOf
    <3>2. CASE q = p /\ f = g
      BY <2>1, <2>2, <2>3, <3>1, <3>2
    <3>3. CASE ~(q = p /\ f = g)
      <4>1. handle[q][f] # x
        BY <1>1, <2>1, <3>1, <3>3, Apart
      <4>2. handle[q][f] \in DOMAIN coset
        BY <1>1, <3>1 DEF Inodes, Existing
      <4>3. coset'[handle'[q][f]] = coset[handle[q][f]]
        BY <2>2, <3>1, <4>1, <4>2
      <4>4. ~Ended(q)
        BY <1>1, <2>2 DEF Shape, Ended
      <4>5. \/ coset[handle[q][f]] = RunOf(q)
            \/ pc[q] = "write" /\ f = Head(todo[q]) /\ coset[handle[q][f]] = Empty
        BY <1>1, <3>1, <4>4 DEF CosetsIntact
      <4>6. q # p => pc'[q] = pc[q] /\ todo'[q] = todo[q]
        BY <1>1, <2>2 DEF Shape
      <4> QED BY <2>3, <3>1, <3>3, <4>3, <4>5, <4>6
    <3> QED BY <3>2, <3>3
  <2>5. Sweeping'
    BY <1>2, <1>1, <2>2, SweepingKept DEF Shape
  <2> QED BY <2>4, <2>5
<1>5. ASSUME NEW p \in Provers, OpenValues(p) PROVE CosetsIntact' /\ Sweeping'
  <2> DEFINE o == Opened(p, Values)
  <2>1. /\ dir' = [dir EXCEPT ![Home(p)] = Put(@, Values, o)]
        /\ handle' = [handle EXCEPT ![p] = Put(@, Values, o)]
        /\ pc' = [pc EXCEPT ![p] = "set_len"] /\ pc[p] = "spill"
        /\ UNCHANGED <<coset, runVars, todo, inst, tileVars, endVars>>
    BY <1>5 DEF OpenValues, Open
  <2> HIDE DEF o
  <2>2. CosetsIntact'
    <3> SUFFICES ASSUME NEW q \in Provers, ~Ended(q)', NEW f \in DOMAIN handle'[q] \ {Values}
                 PROVE  \/ coset'[handle'[q][f]] = RunOf(q)'
                        \/ pc'[q] = "write" /\ f = Head(todo'[q])
                             /\ coset'[handle'[q][f]] = Empty
      BY DEF CosetsIntact
    <3>1. RunOf(q)' = RunOf(q)
      BY <2>1 DEF RunOf, Ref!RunOf
    <3>2. f \in DOMAIN handle[q] /\ handle'[q][f] = handle[q][f]
      BY <1>1, <2>1 DEF Shape, Put
    <3>3. ~Ended(q)
      BY <1>1, <2>1 DEF Shape, Ended
    <3>4. \/ coset[handle[q][f]] = RunOf(q)
          \/ pc[q] = "write" /\ f = Head(todo[q]) /\ coset[handle[q][f]] = Empty
      BY <1>1, <3>2, <3>3 DEF CosetsIntact
    <3> QED BY <1>1, <2>1, <3>1, <3>2, <3>4 DEF Shape
  <2>3. Sweeping'
    BY <1>2, <1>1, <2>1, SweepingKept DEF Shape
  <2> QED BY <2>2, <2>3
<1>6. ASSUME NEW p \in Provers, SetLen(p) PROVE CosetsIntact' /\ Sweeping'
  <2>1. CosetsIntact'
    BY <1>1, <1>6, CosetsKept DEF SetLen, Shape, Ended
  <2>2. Sweeping'
    BY <1>2, <1>1, <1>6, SweepingKept DEF SetLen, Shape
  <2> QED BY <2>1, <2>2
<1>7. ASSUME NEW p \in Provers, StartInstance(p) PROVE CosetsIntact' /\ Sweeping'
  <2>1. CosetsIntact'
    BY <1>1, <1>7, CosetsKept DEF StartInstance, Shape, Ended
  <2>2. Sweeping'
    BY <1>2, <1>1, <1>7, SweepingKept DEF StartInstance, Shape
  <2> QED BY <2>1, <2>2
<1>8. ASSUME NEW p \in Provers, OpenTile(p) PROVE CosetsIntact' /\ Sweeping'
  <2>1. CosetsIntact'
    BY <1>1, <1>8, CosetsKept DEF OpenTile, AtTile, Shape, Ended
  <2>2. Sweeping'
    BY <1>2, <1>1, <1>8, SweepingKept DEF OpenTile, AtTile, Shape
  <2> QED BY <2>1, <2>2
<1>9. ASSUME NEW p \in Provers, EvaluateGroup(p) PROVE CosetsIntact' /\ Sweeping'
  <2>1. CosetsIntact'
    BY <1>1, <1>9, CosetsKept DEF EvaluateGroup, AtGroup, Shape, Ended
  <2>2. Sweeping'
    BY <1>2, <1>1, <1>9, SweepingKept DEF EvaluateGroup, AtGroup, Shape
  <2> QED BY <2>1, <2>2
<1>10. ASSUME NEW p \in Provers, WriteTile(p) PROVE CosetsIntact' /\ Sweeping'
  <2>1. CosetsIntact'
    BY <1>1, <1>10, CosetsKept DEF WriteTile, Shape, Ended
  <2>2. Sweeping'
    BY <1>2, <1>1, <1>10, SweepingKept DEF WriteTile, Shape
  <2> QED BY <2>1, <2>2
<1>11. ASSUME NEW p \in Provers, EndInstance(p) PROVE CosetsIntact' /\ Sweeping'
  <2>1. CosetsIntact'
    BY <1>1, <1>11, CosetsKept DEF EndInstance, AtTile, Shape, Ended
  <2>2. Sweeping'
    BY <1>2, <1>1, <1>11, SweepingKept DEF EndInstance, AtTile, Shape
  <2> QED BY <2>1, <2>2
<1>12. ASSUME NEW p \in Provers, ReadBack(p) PROVE CosetsIntact' /\ Sweeping'
  <2>1. CosetsIntact'
    BY <1>1, <1>12, CosetsKept DEF ReadBack, AtReadBack, Shape, Ended
  <2>2. Sweeping'
    BY <1>2, <1>1, <1>12, SweepingKept DEF ReadBack, AtReadBack, Shape
  <2> QED BY <2>1, <2>2
<1>13. ASSUME NEW p \in Provers, RemoveValues(p) PROVE CosetsIntact' /\ Sweeping'
  <2>1. CosetsIntact'
    BY <1>1, <1>13, CosetsKept DEF RemoveValues, Shape, Ended
  <2>2. Sweeping'
    BY <1>2, <1>1, <1>13, SweepingKept DEF RemoveValues, Shape
  <2> QED BY <2>1, <2>2
<1>14. ASSUME NEW p \in Provers, ListDir(p) PROVE CosetsIntact' /\ Sweeping'
  <2>1. CosetsIntact'
    BY <1>1, <1>14, CosetsKept DEF ListDir, Shape, Ended
  <2>2. Sweeping'
    BY <1>2, <1>1, <1>14, SweepingKept DEF ListDir, Shape, Here
  <2> QED BY <2>1, <2>2
<1>15. ASSUME NEW p \in Provers, RemoveEntry(p) PROVE CosetsIntact' /\ Sweeping'
  <2>1. CosetsIntact'
    BY <1>1, <1>15, CosetsKept DEF RemoveEntry, Drop, Shape, Ended
  <2>2. Sweeping'
    <3>1. DOMAIN dir[Home(p)] \subseteq sweep[p]
      BY <1>1, <1>15 DEF RemoveEntry, Sweeping, Here
    <3>2. PICK f \in sweep[p] :
            /\ dir' = [dir EXCEPT ![Home(p)] = Drop(@, f)]
            /\ sweep' = [sweep EXCEPT ![p] = @ \ {f}]
      BY <1>15 DEF RemoveEntry
    <3>3. DOMAIN dir'[Home(p)] \subseteq sweep'[p]
      BY <1>2, <1>1, <3>1, <3>2 DEF Shape, Drop
    <3> QED BY <1>2, <1>1, <1>15, <3>2, <3>3, SweepingKept DEF RemoveEntry, Shape
  <2> QED BY <2>1, <2>2
<1>16. ASSUME NEW p \in Provers, Return(p) PROVE CosetsIntact' /\ Sweeping'
  <2>1. CosetsIntact'
    BY <1>1, <1>16, CosetsKept DEF Return, Shape, Ended
  <2>2. Sweeping'
    <3>1. DOMAIN dir[Home(p)] = {}
      BY <1>1, <1>16 DEF Return, Sweeping, Here
    <3> QED BY <1>2, <1>1, <1>16, <3>1, SweepingKept DEF Return, Shape
  <2> QED BY <2>1, <2>2
<1>17. ASSUME NEW p \in Provers, Stop(p) PROVE CosetsIntact' /\ Sweeping'
  <2>1. CosetsIntact'
    BY <1>1, <1>17, CosetsKept DEF Stop, Shape, Ended
  <2>2. Sweeping'
    BY <1>2, <1>1, <1>17, SweepingKept DEF Stop, Shape
  <2> QED BY <2>1, <2>2
<1>18. ASSUME NEW p \in Provers, Restart(p) PROVE CosetsIntact' /\ Sweeping'
  <2>1. CosetsIntact'
    <3> SUFFICES ASSUME NEW q \in Provers, ~Ended(q)', NEW f \in DOMAIN handle'[q] \ {Values}
                 PROVE  \/ coset'[handle'[q][f]] = RunOf(q)'
                        \/ pc'[q] = "write" /\ f = Head(todo'[q])
                             /\ coset'[handle'[q][f]] = Empty
      BY DEF CosetsIntact
    <3>1. q # p
      BY <1>1, <1>18 DEF Restart, Shape
    <3>2. /\ handle'[q] = handle[q] /\ pc'[q] = pc[q] /\ todo'[q] = todo[q] /\ coset' = coset
          /\ run'[q] = run[q]
      BY <1>1, <1>18, <3>1 DEF Restart, Shape
    <3>3. RunOf(q)' = RunOf(q)
      BY <3>2 DEF RunOf, Ref!RunOf
    <3> QED BY <1>1, <3>2, <3>3 DEF CosetsIntact, Ended
  <2>2. Sweeping'
    BY <1>2, <1>1, <1>18, SweepingKept DEF Restart, Shape
  <2> QED BY <2>1, <2>2
<1>19. CASE UNCHANGED vars
  <2>1. CosetsIntact'
    BY <1>1, <1>19, CosetsKept DEF vars, Ended
  <2> QED BY <1>1, <1>19, <2>1 DEF vars, Sweeping, Here, Home
<1>20. ASSUME NEW p \in Provers, Work(p) \/ Interrupt(p) \/ Restart(p)
      PROVE  CosetsIntact' /\ Sweeping'
  BY <1>3, <1>4, <1>5, <1>6, <1>7, <1>8, <1>9, <1>10, <1>11, <1>12, <1>13, <1>14, <1>15, <1>16, <1>17, <1>18, <1>20
     DEF Work, Spill, Evaluate, Finish, ShortRead, Interrupt
<1> QED BY <1>19, <1>20 DEF Next, Rest

THEOREM DirectoriesInvariant == OwnDirectories => (Spec => []DInv)
<1> SUFFICES ASSUME OwnDirectories PROVE Spec => []DInv
  OBVIOUS
<1>1. Init => DInv
  <2>1. Init => TInv
    BY TypesAtFirst
  <2>2. Init => CosetsIntact
    BY DEF Init, CosetsIntact
  <2>3. Init => Sweeping
    BY DEF Init, Sweeping
  <2> QED BY <2>1, <2>2, <2>3 DEF DInv
<1>2. DInv /\ [Next]_vars => DInv'
  <2>1. DInv /\ [Next]_vars => TInv'
    BY TypesKept DEF DInv
  <2> QED BY <2>1, CosetsAndSweepKept DEF DInv
<1> QED BY <1>1, <1>2, PTL DEF Spec

(* A prover that has a directory to itself finds in every coset file the
   coset this run wrote, whatever earlier runs left there and wherever they
   were interrupted. *)
THEOREM CosetsAlwaysIntact == OwnDirectories => (Spec => []CosetsIntact)
<1>1. DInv => CosetsIntact
  BY DEF DInv
<1> QED BY <1>1, DirectoriesInvariant, PTL

(* A run that succeeds leaves its directory empty, of its own files and of
   those of the runs that were interrupted before it: the sweep at the end
   of evaluate_h_ooc_disk. *)
THEOREM AlwaysSwept == OwnDirectories => (Spec => []SweptClean)
<1>1. DInv => SweptClean
  BY DEF DInv, Sweeping, SweptClean
<1> QED BY <1>1, DirectoriesInvariant, PTL

-----------------------------------------------------------------------------
(***************************************************************************)
(* One instance: what is spilled, and what is computed from it.            *)
(***************************************************************************)
LEMMA NamesRead ==
  /\ TileFiles(0) \subseteq Names
  /\ \A g \in GroupKinds : GroupFiles(0, g) \subseteq Names
<1>1. TileFiles(0) \subseteq Names
  BY QuotientAssumption DEF TileFiles, Names
<1>2. ASSUME NEW g \in GroupKinds PROVE GroupFiles(0, g) \subseteq Names
  <2>1. CASE g = <<"gates", 0>>
    BY <2>1 DEF GroupFiles
  <2>2. CASE g = <<"perm", 0>>
    BY <2>2, QuotientAssumption DEF GroupFiles, Names
  <2>3. ASSUME NEW n \in 0 .. NLk - 1, g = <<"lookup", n>>
        PROVE  GroupFiles(0, g) \subseteq Names
    BY <2>3, QuotientAssumption DEF GroupFiles, Names
  <2>4. ASSUME NEW n \in 0 .. NShp - 1, g = <<"shuffle", n>>
        PROVE  GroupFiles(0, g) \subseteq Names
    BY <2>4, QuotientAssumption DEF GroupFiles, Names
  <2> QED BY <2>1, <2>2, <2>3, <2>4 DEF GroupKinds
<1> QED BY <1>1, <1>2

LEMMA ElemsWithin ==
  ASSUME NEW h, NEW q, \A i \in 1 .. Len(h) : h[i] \in ElemsOf(q)
  PROVE  ElemsOf(h) \subseteq ElemsOf(q)
BY DEF ElemsOf

(* The elements of a concatenation. *)
LEMMA ElemsOfConcat ==
  ASSUME NEW m \in Nat, NEW f, f = [i \in 1 .. m |-> f[i]],
         NEW n \in Nat, NEW g, g = [i \in 1 .. n |-> g[i]],
         NEW h, h = f \o g
  PROVE  /\ h = [i \in 1 .. m + n |-> h[i]] /\ Len(h) = m + n
         /\ \A i \in 1 .. m : f[i] \in ElemsOf(h)
         /\ \A i \in 1 .. n : g[i] \in ElemsOf(h)
<1>1. h = [i \in 1 .. m + n |-> IF i <= m THEN f[i] ELSE g[i - m]]
  BY ConcatOf
<1>2. m + n \in Nat
  OBVIOUS
<1>3. h = [i \in 1 .. m + n |-> h[i]]
  BY <1>1
<1>4. 1 \in 1 .. (m + n) + 1 /\ 0 \in 1 - 1 .. m + n
  BY <1>2
<1>5. Len(h) = m + n
  BY <1>2, <1>3, <1>4, SliceOf
<1>6. ASSUME NEW i \in 1 .. m PROVE f[i] \in ElemsOf(h)
  <2>1. i \in 1 .. m + n /\ h[i] = f[i]
    BY <1>1
  <2> QED BY <1>5, <2>1 DEF ElemsOf
<1>7. ASSUME NEW i \in 1 .. n PROVE g[i] \in ElemsOf(h)
  <2>1. m + i \in 1 .. m + n /\ h[m + i] = g[i]
    BY <1>1
  <2> QED BY <1>5, <2>1 DEF ElemsOf
<1> QED BY <1>3, <1>5, <1>6, <1>7

LEMMA TileFilesSpilled ==
  ASSUME OneInstance PROVE TileFiles(0) \subseteq ElemsOf(UpFront)
<1> DEFINE adv == [k \in 1 .. NAdv |-> <<"adv", (k - 1) \div NAdv, (k - 1) % NAdv>>]
           ins == [k \in 1 .. NIns |-> <<"ins", (k - 1) \div NIns, (k - 1) % NIns>>]
<1>1. Instances * NAdv = NAdv /\ Instances * NIns = NIns /\ NAdv \in Nat /\ NIns \in Nat
  BY QuotientAssumption DEF OneInstance
<1>2. UpFront = adv \o ins
  BY <1>1 DEF UpFront
<1>3. \A n \in Nat : \A j \in 0 .. n - 1 :
        j + 1 \in 1 .. n /\ ((j + 1) - 1) \div n = 0 /\ ((j + 1) - 1) % n = j
  OBVIOUS
<1>4. \A j \in 0 .. NAdv - 1 : j + 1 \in 1 .. NAdv /\ adv[j + 1] = <<"adv", 0, j>>
  BY <1>1, <1>3
<1>5. \A j \in 0 .. NIns - 1 : j + 1 \in 1 .. NIns /\ ins[j + 1] = <<"ins", 0, j>>
  BY <1>1, <1>3
<1>6. adv = [i \in 1 .. NAdv |-> adv[i]] /\ ins = [i \in 1 .. NIns |-> ins[i]]
  OBVIOUS
<1> HIDE DEF adv, ins
<1>7. /\ \A i \in 1 .. NAdv : adv[i] \in ElemsOf(UpFront)
      /\ \A i \in 1 .. NIns : ins[i] \in ElemsOf(UpFront)
  BY <1>1, <1>2, <1>6, ElemsOfConcat
<1>8. \A j \in 0 .. NAdv - 1 : <<"adv", 0, j>> \in ElemsOf(UpFront)
  BY <1>4, <1>7
<1>9. \A j \in 0 .. NIns - 1 : <<"ins", 0, j>> \in ElemsOf(UpFront)
  BY <1>5, <1>7
<1> QED BY <1>8, <1>9 DEF TileFiles

LEMMA GroupFilesSpilled == AllGroupFiles \subseteq ElemsOf(PerInstance(0))
<1> DEFINE q == PerInstance(0)
           shp == [k \in 1 .. NShp |-> <<"shp", 0, k - 1>>]
           lk  == [k \in 1 .. 3 * NLk |-> <<LookupKinds[((k - 1) % 3) + 1], 0, (k - 1) \div 3>>]
           ppc == [k \in 1 .. NPpc |-> <<"ppc", 0, k - 1>>]
<1>1. NShp \in Nat /\ NLk \in Nat /\ 3 * NLk \in Nat /\ NPpc \in Nat
  BY QuotientAssumption
<1>2. PICK m \in Nat : m = 3 * NLk
  BY <1>1
<1>3. q = (shp \o lk) \o ppc
  BY DEF PerInstance
<1>4. \A j \in 0 .. NShp - 1 : j + 1 \in 1 .. NShp /\ shp[j + 1] = <<"shp", 0, j>>
  BY <1>1
<1>5. \A j \in 0 .. NPpc - 1 : j + 1 \in 1 .. NPpc /\ ppc[j + 1] = <<"ppc", 0, j>>
  BY <1>1
<1>6. ASSUME NEW n \in 0 .. NLk - 1, NEW c \in 1 .. 3
      PROVE  3 * n + c \in 1 .. 3 * NLk /\ lk[3 * n + c] = <<LookupKinds[c], 0, n>>
  <2>1. 3 * n + c \in 1 .. 3 * NLk
    BY <1>1
  <2>2. ((3 * n + c) - 1) % 3 = c - 1 /\ ((3 * n + c) - 1) \div 3 = n
    BY <1>1
  <2>3. (c - 1) + 1 = c
    OBVIOUS
  <2> QED BY <2>1, <2>2, <2>3
<1>7. NShp \in Nat /\ m \in Nat /\ NPpc \in Nat /\ NShp + m \in Nat
  BY <1>2, <1>1
<1>8. shp = [i \in 1 .. NShp |-> shp[i]]
  OBVIOUS
<1>9. lk = [i \in 1 .. m |-> lk[i]]
  BY <1>2
<1>10. ppc = [i \in 1 .. NPpc |-> ppc[i]]
  OBVIOUS
<1> HIDE DEF shp, lk, ppc, q
<1>11. PICK f, g : f = shp /\ g = lk
  OBVIOUS
<1>12. PICK h : h = f \o g
  OBVIOUS
<1>13. f = [i \in 1 .. NShp |-> f[i]]
  BY <1>8, <1>11
<1>14. g = [i \in 1 .. m |-> g[i]]
  BY <1>9, <1>11
<1>15. /\ h = [i \in 1 .. NShp + m |-> h[i]] /\ Len(h) = NShp + m
       /\ \A i \in 1 .. NShp : f[i] \in ElemsOf(h)
       /\ \A i \in 1 .. m : g[i] \in ElemsOf(h)
  <2>1. h = [i \in 1 .. NShp + m |-> h[i]]
    BY SMTT(40), <1>7, <1>12, <1>13, <1>14, ElemsOfConcat
  <2>2. Len(h) = NShp + m
    BY <1>7, <1>12, <1>13, <1>14, ElemsOfConcat
  <2>3. \A i \in 1 .. NShp : f[i] \in ElemsOf(h)
    BY <1>7, <1>12, <1>13, <1>14, ElemsOfConcat
  <2>4. \A i \in 1 .. m : g[i] \in ElemsOf(h)
    BY <1>7, <1>12, <1>13, <1>14, ElemsOfConcat
  <2> QED BY <2>1, <2>2, <2>3, <2>4
<1>16. q = h \o ppc
  BY <1>3, <1>11, <1>12
<1>17. /\ \A i \in 1 .. NShp + m : h[i] \in ElemsOf(q)
       /\ \A i \in 1 .. NPpc : ppc[i] \in ElemsOf(q)
  BY ZenonT(60), <1>7, <1>10, <1>15, <1>16, ElemsOfConcat
<1>18. ElemsOf(h) \subseteq ElemsOf(q)
  BY <1>15, <1>17, ElemsWithin
<1>19. /\ \A i \in 1 .. NShp : f[i] \in ElemsOf(q)
       /\ \A i \in 1 .. m : g[i] \in ElemsOf(q)
  BY <1>15, <1>18
<1>20. /\ \A i \in 1 .. NShp : shp[i] \in ElemsOf(q)
       /\ \A i \in 1 .. m : lk[i] \in ElemsOf(q)
  BY <1>11, <1>19
<1>21. \A n \in 0 .. NShp - 1 : <<"shp", 0, n>> \in ElemsOf(q)
  BY <1>4, <1>20
<1>22. \A n \in 0 .. NPpc - 1 : <<"ppc", 0, n>> \in ElemsOf(q)
  BY <1>5, <1>17
<1>23. \A n \in 0 .. NLk - 1 : \A c \in 1 .. 3 : <<LookupKinds[c], 0, n>> \in ElemsOf(q)
  BY <1>2, <1>6, <1>20
<1>24. ASSUME NEW n \in 0 .. NLk - 1
       PROVE  /\ <<"lkp", 0, n>> \in ElemsOf(q) /\ <<"lki", 0, n>> \in ElemsOf(q)
              /\ <<"lkt", 0, n>> \in ElemsOf(q)
  <2>1. LookupKinds[1] = "lkp" /\ LookupKinds[2] = "lki" /\ LookupKinds[3] = "lkt"
    BY DEF LookupKinds
  <2>2. 1 \in 1 .. 3 /\ 2 \in 1 .. 3 /\ 3 \in 1 .. 3
    OBVIOUS
  <2> QED BY <1>23, <2>1, <2>2
<1>25. ASSUME NEW kind \in GroupKinds PROVE GroupFiles(0, kind) \subseteq ElemsOf(q)
  <2>1. CASE kind = <<"gates", 0>>
    BY <2>1 DEF GroupFiles
  <2>2. CASE kind = <<"perm", 0>>
    BY <1>22, <2>2 DEF GroupFiles
  <2>3. ASSUME NEW n \in 0 .. NLk - 1, kind = <<"lookup", n>>
        PROVE  GroupFiles(0, kind) \subseteq ElemsOf(q)
    BY <1>24, <2>3 DEF GroupFiles
  <2>4. ASSUME NEW n \in 0 .. NShp - 1, kind = <<"shuffle", n>>
        PROVE  GroupFiles(0, kind) \subseteq ElemsOf(q)
    BY <1>21, <2>4 DEF GroupFiles
  <2> QED BY <2>1, <2>2, <2>3, <2>4 DEF GroupKinds
<1>26. \A k \in 1 .. Len(Groups) : Groups[k] \in GroupKinds
  BY GroupsSeq
<1> QED BY <1>25, <1>26 DEF AllGroupFiles, q

(* The tile loop reads the cosets the in-core evaluator reads, in its order. *)
LEMMA SameFiles ==
  /\ Ref!Groups = Groups
  /\ Ref!AdviceOf(0) = TileFiles(0)
  /\ \A g \in GroupKinds : Ref!OwnFiles(0, g) = GroupFiles(0, g)
<1>1. ASSUME NEW g \in GroupKinds PROVE Ref!OwnFiles(0, g) = GroupFiles(0, g)
  <2>1. CASE g = <<"gates", 0>>
    BY <2>1 DEF GroupFiles, Ref!OwnFiles
  <2>2. CASE g = <<"perm", 0>>
    BY <2>2 DEF GroupFiles, Ref!OwnFiles
  <2>3. ASSUME NEW n \in 0 .. NLk - 1, g = <<"lookup", n>>
        PROVE  Ref!OwnFiles(0, g) = GroupFiles(0, g)
    BY <2>3 DEF GroupFiles, Ref!OwnFiles
  <2>4. ASSUME NEW n \in 0 .. NShp - 1, g = <<"shuffle", n>>
        PROVE  Ref!OwnFiles(0, g) = GroupFiles(0, g)
    BY <2>4 DEF GroupFiles, Ref!OwnFiles
  <2> QED BY <2>1, <2>2, <2>3, <2>4 DEF GroupKinds
<1> QED BY <1>1 DEF Groups, Ref!Groups, TileFiles, Ref!AdviceOf

LEMMA TermOfGroup ==
  ASSUME NEW r, NEW k \in 1 .. Len(Groups)
  PROVE  Ref!InCoreTerm(r, k) =
           Ref!Term(0, Groups[k], {<<f, r>> : f \in TileFiles(0) \cup GroupFiles(0, Groups[k])})
<1>1. Len(Groups) \in Nat \ {0} /\ Groups[k] \in GroupKinds
  BY GroupsSeq
<1>2. (k - 1) \div Len(Groups) = 0 /\ (k - 1) % Len(Groups) = k - 1 /\ (k - 1) + 1 = k
  BY <1>1
<1> QED BY <1>1, <1>2, SameFiles DEF Ref!InCoreTerm

LEMMA RowIsTerms ==
  ASSUME OneInstance, NEW r PROVE Ref!InCoreRow(r) = Terms(r, Len(Groups))
<1>1. Instances * Len(Groups) = Len(Groups)
  BY GroupsSeq DEF OneInstance
<1> QED BY <1>1, SameFiles DEF Ref!InCoreRow, Terms

LEMMA OneMoreTerm ==
  ASSUME NEW r, NEW n \in Nat
  PROVE  Append(Terms(r, n), Ref!InCoreTerm(r, n + 1)) = Terms(r, n + 1)
<1> DEFINE f == Terms(r, n)
           x == Ref!InCoreTerm(r, n + 1)
<1>1. f = [k \in 1 .. n |-> f[k]] /\ \A k \in 1 .. n : f[k] = Ref!InCoreTerm(r, k)
  BY DEF Terms
<1> HIDE DEF f
<1>2. Append(f, x) = [k \in 1 .. n + 1 |-> IF k = n + 1 THEN x ELSE f[k]]
  BY <1>1, AppendOf
<1>3. \A k \in 1 .. n + 1 : (IF k = n + 1 THEN x ELSE f[k]) = Ref!InCoreTerm(r, k)
  BY <1>1
<1>4. Append(f, x) = [k \in 1 .. n + 1 |-> Ref!InCoreTerm(r, k)]
  BY <1>2, <1>3
<1> QED BY <1>4 DEF f, Terms

(* The values file: as SetLen makes it, with one more tile, and whole. *)
LEMMA StreamedFirst ==
  ASSUME NEW r
  PROVE  [i \in 1 .. Size |-> IF i <= Len(<< >>) THEN << >>[i] ELSE Zero] = Streamed(r, 0)
<1>1. \A i \in 1 .. Size : ~(i <= Len(<< >>)) /\ ~(i <= 0)
  BY QuotientAssumption
<1> QED BY <1>1 DEF Streamed

LEMMA StreamedLen ==
  ASSUME NEW r, NEW n \in 0 .. Size PROVE Len(Streamed(r, n)) = Size
<1> DEFINE f == Streamed(r, n)
<1>1. f = [i \in 1 .. Size |-> f[i]]
  BY DEF Streamed
<1>2. 1 \in 1 .. Size + 1 /\ 0 \in 1 - 1 .. Size /\ Size \in Nat
  BY QuotientAssumption
<1> HIDE DEF f
<1>3. Len(f) = Size
  BY <1>1, <1>2, SliceOf
<1> QED BY <1>3 DEF f

LEMMA StreamedMore ==
  ASSUME NEW r, NEW n \in 0 .. Size, NEW m \in Nat, n + m <= Size
  PROVE  Overwrite(Streamed(r, n), n, Terms(r, Len(Groups)), m) = Streamed(r, n + m)
<1> DEFINE f == Streamed(r, n)
           v == Terms(r, Len(Groups))
<1>1. Size \in Nat /\ Len(f) = Size
  BY QuotientAssumption, StreamedLen
<1>2. \A i \in 1 .. Size : f[i] = IF i <= n THEN v ELSE Zero
  BY DEF Streamed
<1>3. Streamed(r, n + m) = [i \in 1 .. Size |-> IF i <= n + m THEN v ELSE Zero]
  BY DEF Streamed
<1> HIDE DEF f, v
<1>4. (IF n + m > Len(f) THEN n + m ELSE Len(f)) = Size
  BY <1>1
<1>5. Overwrite(f, n, v, m) =
        [i \in 1 .. Size |-> IF i \in n + 1 .. n + m THEN v ELSE IF i <= Len(f) THEN f[i] ELSE Zero]
  BY <1>4 DEF Overwrite
<1>6. \A i \in 1 .. Size :
        (IF i \in n + 1 .. n + m THEN v ELSE IF i <= Len(f) THEN f[i] ELSE Zero)
          = IF i <= n + m THEN v ELSE Zero
  BY <1>1, <1>2
<1>7. Overwrite(f, n, v, m) = Streamed(r, n + m)
  BY <1>3, <1>5, <1>6
<1> QED BY <1>7 DEF f, v

LEMMA StreamedWhole ==
  ASSUME OneInstance, NEW r
  PROVE  SubSeq(Streamed(r, Size), 1, Size) = Ref!InCore(r)
<1> DEFINE f == Streamed(r, Size)
           v == Terms(r, Len(Groups))
<1>1. Size \in Nat /\ f = [i \in 1 .. Size |-> f[i]] /\ \A i \in 1 .. Size : f[i] = v
  BY QuotientAssumption DEF Streamed
<1>2. 1 \in 1 .. Size + 1 /\ Size \in 1 - 1 .. Size
  BY <1>1, QuotientAssumption
<1>3. Ref!InCore(r) = [i \in 1 .. Size |-> v]
  BY RowIsTerms DEF Ref!InCore
<1> HIDE DEF f, v
<1>4. SubSeq(f, 1, Size) = [i \in 1 .. Size - 1 + 1 |-> f[1 + i - 1]]
  BY <1>1, <1>2, SliceOf
<1>5. Size - 1 + 1 = Size /\ \A i \in 1 .. Size : f[1 + i - 1] = v
  BY <1>1
<1>6. SubSeq(f, 1, Size) = [i \in 1 .. Size |-> v]
  BY <1>4, <1>5
<1> QED BY <1>3, <1>6 DEF f

(* A window of cosets this run has written. *)
LEMMA ReadsOwn ==
  ASSUME CosetsIntact, NEW p \in Provers, ~Ended(p), pc[p] # "write",
         NEW files, files \subseteq Names, files \subseteq DOMAIN handle[p]
  PROVE  Read(p, files) = {<<f, RunOf(p)>> : f \in files}
<1>1. \A f \in files : coset[handle[p][f]] = RunOf(p)
  BY ValuesIsNoCoset DEF CosetsIntact
<1> QED BY <1>1 DEF Read

-----------------------------------------------------------------------------
(***************************************************************************)
(* One instance, directories of their own: the provers do not meet.        *)
(***************************************************************************)
(* What the invariant says of a prover, beside its values file. *)
StateOf(q) == <<run[q], outcome[q], pc[q], todo[q], handle[q], inst[q], s[q],
                group[q], window[q], tv[q], values[q]>>

(* A step of p: one of its actions, or an I/O error. *)
Step(p) ==
  \/ CreateCoset(p) \/ WriteCoset(p) \/ OpenValues(p) \/ SetLen(p) \/ StartInstance(p)
  \/ OpenTile(p) \/ EvaluateGroup(p) \/ WriteTile(p) \/ EndInstance(p)
  \/ ReadBack(p) \/ RemoveValues(p) \/ ListDir(p) \/ RemoveEntry(p) \/ Return(p)
  \/ (~Ended(p) /\ Stop(p)) \/ Restart(p)

LEMMA StepsOf ==
  ASSUME Shape, [Next]_vars
  PROVE  (\E p \in Provers : Step(p)) \/ UNCHANGED vars
<1>1. ASSUME NEW p \in Provers, ShortRead(p) PROVE ~Ended(p) /\ Stop(p)
  BY <1>1 DEF ShortRead, AtTile, AtGroup, AtReadBack, Ended
<1>2. ASSUME NEW p \in Provers, Work(p) \/ Interrupt(p) \/ Restart(p) PROVE Step(p)
  BY <1>1, <1>2 DEF Work, Spill, Evaluate, Finish, Interrupt, Step
<1> QED BY <1>2 DEF Next, Rest

LEMMA OthersKept ==
  ASSUME DInv, OwnDirectories, NEW p \in Provers, Computing(p), Step(p),
         NEW q \in Provers, q # p
  PROVE  /\ StateOf(q)' = StateOf(q)
         /\ Values \in DOMAIN handle[q] => rows'[handle[q][Values]] = rows[handle[q][Values]]
<1> USE DEF fileVars, runVars, tileVars, endVars
<1>1. TInv /\ Shape /\ Inodes
  BY DEF DInv, TInv
<1>2. ASSUME pc[p] \in {"set_len", "group"} PROVE Values \in DOMAIN handle[p]
  BY <1>2 DEF Computing, Streaming, Ended, ValuesOpen
<1>3. ASSUME NEW o \in InodesOf(Home(p), Values), Values \in DOMAIN handle[q]
      PROVE  handle[q][Values] # o /\ handle[q][Values] \in DOMAIN rows
  BY <1>1, <1>3, Apart DEF Inodes, Existing
<1>4. ASSUME CreateCoset(p)
     PROVE  /\ StateOf(q)' = StateOf(q)
            /\ Values \in DOMAIN handle[q] => rows'[handle[q][Values]] = rows[handle[q][Values]]
  BY <1>1, <1>4 DEF CreateCoset, Open, Shape, StateOf
<1>5. ASSUME WriteCoset(p)
     PROVE  /\ StateOf(q)' = StateOf(q)
            /\ Values \in DOMAIN handle[q] => rows'[handle[q][Values]] = rows[handle[q][Values]]
  BY <1>1, <1>5 DEF WriteCoset, Shape, StateOf
<1>6. ASSUME OpenValues(p)
     PROVE  /\ StateOf(q)' = StateOf(q)
            /\ Values \in DOMAIN handle[q] => rows'[handle[q][Values]] = rows[handle[q][Values]]
  <2>1. StateOf(q)' = StateOf(q)
    BY <1>1, <1>6 DEF OpenValues, Open, Shape, StateOf
  <2>2. rows' = Put(rows, Opened(p, Values), << >>)
    BY <1>6 DEF OpenValues
  <2>3. Opened(p, Values) \in InodesOf(Home(p), Values)
    BY <1>1, OpenedInode
  <2> QED BY <1>3, <2>1, <2>2, <2>3 DEF Put
<1>7. ASSUME SetLen(p)
     PROVE  /\ StateOf(q)' = StateOf(q)
            /\ Values \in DOMAIN handle[q] => rows'[handle[q][Values]] = rows[handle[q][Values]]
  <2>1. StateOf(q)' = StateOf(q)
    BY <1>1, <1>7 DEF SetLen, Shape, StateOf
  <2>2. handle[p][Values] \in InodesOf(Home(p), Values)
    BY <1>1, <1>2, <1>7 DEF SetLen, Inodes
  <2>3. \A x : x # handle[p][Values] /\ x \in DOMAIN rows => rows'[x] = rows[x]
    BY <1>7 DEF SetLen
  <2> QED BY <1>3, <2>1, <2>2, <2>3
<1>8. ASSUME StartInstance(p)
     PROVE  /\ StateOf(q)' = StateOf(q)
            /\ Values \in DOMAIN handle[q] => rows'[handle[q][Values]] = rows[handle[q][Values]]
  BY <1>1, <1>8 DEF StartInstance, Shape, StateOf
<1>9. ASSUME OpenTile(p)
     PROVE  /\ StateOf(q)' = StateOf(q)
            /\ Values \in DOMAIN handle[q] => rows'[handle[q][Values]] = rows[handle[q][Values]]
  BY <1>1, <1>9 DEF OpenTile, Shape, StateOf
<1>10. ASSUME EvaluateGroup(p)
     PROVE  /\ StateOf(q)' = StateOf(q)
            /\ Values \in DOMAIN handle[q] => rows'[handle[q][Values]] = rows[handle[q][Values]]
  BY <1>1, <1>10 DEF EvaluateGroup, Shape, StateOf
<1>11. ASSUME WriteTile(p)
     PROVE  /\ StateOf(q)' = StateOf(q)
            /\ Values \in DOMAIN handle[q] => rows'[handle[q][Values]] = rows[handle[q][Values]]
  <2>1. StateOf(q)' = StateOf(q)
    BY <1>1, <1>11 DEF WriteTile, Shape, StateOf
  <2>2. handle[p][Values] \in InodesOf(Home(p), Values)
    BY <1>1, <1>2, <1>11 DEF WriteTile, Inodes
  <2>3. \A x : x # handle[p][Values] /\ x \in DOMAIN rows => rows'[x] = rows[x]
    BY <1>11 DEF WriteTile
  <2> QED BY <1>3, <2>1, <2>2, <2>3
<1>12. ASSUME EndInstance(p)
     PROVE  /\ StateOf(q)' = StateOf(q)
            /\ Values \in DOMAIN handle[q] => rows'[handle[q][Values]] = rows[handle[q][Values]]
  BY <1>1, <1>12 DEF EndInstance, Shape, StateOf
<1>13. ASSUME ReadBack(p)
     PROVE  /\ StateOf(q)' = StateOf(q)
            /\ Values \in DOMAIN handle[q] => rows'[handle[q][Values]] = rows[handle[q][Values]]
  BY <1>1, <1>13 DEF ReadBack, Shape, StateOf
<1>14. ASSUME RemoveValues(p)
     PROVE  /\ StateOf(q)' = StateOf(q)
            /\ Values \in DOMAIN handle[q] => rows'[handle[q][Values]] = rows[handle[q][Values]]
  BY <1>1, <1>14 DEF RemoveValues, Shape, StateOf
<1>15. ASSUME ListDir(p)
     PROVE  /\ StateOf(q)' = StateOf(q)
            /\ Values \in DOMAIN handle[q] => rows'[handle[q][Values]] = rows[handle[q][Values]]
  BY <1>1, <1>15 DEF ListDir, Shape, StateOf
<1>16. ASSUME RemoveEntry(p)
     PROVE  /\ StateOf(q)' = StateOf(q)
            /\ Values \in DOMAIN handle[q] => rows'[handle[q][Values]] = rows[handle[q][Values]]
  BY <1>1, <1>16 DEF RemoveEntry, Shape, StateOf
<1>17. ASSUME Return(p)
     PROVE  /\ StateOf(q)' = StateOf(q)
            /\ Values \in DOMAIN handle[q] => rows'[handle[q][Values]] = rows[handle[q][Values]]
  BY <1>1, <1>17 DEF Return, Shape, StateOf
<1>18. ASSUME ~Ended(p), Stop(p)
     PROVE  /\ StateOf(q)' = StateOf(q)
            /\ Values \in DOMAIN handle[q] => rows'[handle[q][Values]] = rows[handle[q][Values]]
  BY <1>1, <1>18 DEF Stop, Shape, StateOf
<1>19. ASSUME Restart(p)
     PROVE  /\ StateOf(q)' = StateOf(q)
            /\ Values \in DOMAIN handle[q] => rows'[handle[q][Values]] = rows[handle[q][Values]]
  BY <1>1, <1>19 DEF Restart, Shape, StateOf
<1> QED BY <1>4, <1>5, <1>6, <1>7, <1>8, <1>9, <1>10, <1>11, <1>12, <1>13, <1>14, <1>15, <1>16, <1>17, <1>18, <1>19 DEF Step

(* so what the invariant says of a prover that does not move stays true. *)
LEMMA ComputingKept ==
  ASSUME DInv, NEW q \in Provers, Computing(q), StateOf(q)' = StateOf(q),
         Values \in DOMAIN handle[q] => rows'[handle[q][Values]] = rows[handle[q][Values]]
  PROVE  Computing(q)'
<1>1. /\ run'[q] = run[q] /\ outcome'[q] = outcome[q] /\ pc'[q] = pc[q] /\ todo'[q] = todo[q]
      /\ handle'[q] = handle[q] /\ inst'[q] = inst[q] /\ s'[q] = s[q] /\ group'[q] = group[q]
      /\ window'[q] = window[q] /\ tv'[q] = tv[q] /\ values'[q] = values[q]
  BY DEF StateOf
<1>2. RunOf(q)' = RunOf(q)
  BY <1>1 DEF RunOf, Ref!RunOf
<1>3. Spilling(q)'
  BY <1>1 DEF Computing, Spilling, Ended, Needed
<1>4. Streaming(q)'
  <2>1. FullLength(q)' = FullLength(q) /\ ValuesOpen(q)' = ValuesOpen(q) /\ Ended(q)' = Ended(q)
    BY <1>1 DEF FullLength, ValuesOpen, Ended
  <2>2. FullLength(q) \/ pc[q] = "set_len" => ValuesOpen(q)
    BY DEF FullLength, ValuesOpen
  <2> QED BY <1>1, <1>2, <2>1, <2>2 DEF Computing, Streaming
<1>5. Accumulating(q)'
  BY <1>1, <1>2 DEF Computing, Accumulating
<1>6. Answered(q)'
  BY <1>1, <1>2 DEF Computing, Answered
<1> QED BY <1>3, <1>4, <1>5, <1>6 DEF Computing


-----------------------------------------------------------------------------
(***************************************************************************)
(* One instance: every step of a prover, action by action.                 *)
(***************************************************************************)
LEMMA ComputingStep ==
  ASSUME DInv, OneInstance, NEW p \in Provers, Computing(p), Step(p)
  PROVE  Computing(p)'
<1> USE DEF fileVars, runVars, tileVars, endVars
<1>1. TInv /\ Shape /\ Inodes /\ Writing /\ CosetsIntact
  BY DEF DInv, TInv
<1>2. /\ Spilling(p) /\ Streaming(p) /\ Accumulating(p) /\ Answered(p)
      /\ Instances = 1 /\ Size \in Nat \ {0} /\ Zero = << >> /\ Len(Groups) \in Nat \ {0}
      /\ inst[p] \in {0, 1} /\ s[p] \in 0 .. Size /\ Tile \in Nat
      /\ group[p] \in 0 .. Len(Groups)
  BY <1>1, QuotientAssumption, DiskAssumption, GroupsSeq
     DEF Computing, OneInstance, Shape, Zero
<1>3. ElemsOf(<< >>) = {}
  BY DEF ElemsOf
<1>4. ASSUME run'[p] = run[p] PROVE RunOf(p)' = RunOf(p)
  BY <1>4 DEF RunOf, Ref!RunOf
<1>5. ASSUME CreateCoset(p) PROVE Computing(p)'
  <2>1. /\ handle' = [handle EXCEPT ![p] = Put(@, Head(todo[p]), Opened(p, Head(todo[p])))]
        /\ pc[p] = "spill" /\ pc' = [pc EXCEPT ![p] = "write"]
        /\ UNCHANGED <<rows, runVars, todo, inst, tileVars, endVars>>
    BY <1>5 DEF CreateCoset, Open
  <2>2. Head(todo[p]) # Values
    BY <1>1, <1>5, ValuesIsNoCoset DEF Shape, CreateCoset
  <2>3. /\ DOMAIN handle[p] \subseteq DOMAIN handle'[p]
        /\ handle'[p][Values] = handle[p][Values] \/ Values \notin DOMAIN handle[p]
    BY <1>1, <2>1, <2>2 DEF Shape, Put
  <2>4. Spilling(p)'
    BY <1>1, <1>2, <2>1, <2>3 DEF Shape, Spilling, Ended, Needed
  <2>5. Streaming(p)'
    BY <1>1, <1>2, <1>4, <2>1, <2>3 DEF Shape, Streaming, Ended, ValuesOpen, FullLength
  <2>6. Accumulating(p)'
    BY <1>1, <2>1 DEF Shape, Accumulating
  <2>7. Answered(p)'
    BY <1>1, <1>2, <1>4, <2>1 DEF Shape, Answered
  <2> QED BY <2>4, <2>5, <2>6, <2>7 DEF Computing
<1>6. ASSUME WriteCoset(p) PROVE Computing(p)'
  <2>1. todo[p] # << >> /\ Head(todo[p]) \in DOMAIN handle[p] /\ todo[p] \in Seq(Names)
    BY <1>1, <1>6 DEF Writing, WriteCoset, Shape
  <2>2. ElemsOf(todo[p]) \subseteq {Head(todo[p])} \cup ElemsOf(Tail(todo[p]))
    <3> SUFFICES ASSUME NEW i \in 1 .. Len(todo[p])
                 PROVE  todo[p][i] \in {Head(todo[p])} \cup ElemsOf(Tail(todo[p]))
      BY DEF ElemsOf
    <3>1. CASE i = 1
      BY <2>1, <3>1
    <3>2. CASE i # 1
      <4>1. i - 1 \in 1 .. Len(Tail(todo[p])) /\ Tail(todo[p])[i - 1] = todo[p][i]
        BY <2>1, <3>2
      <4> QED BY <4>1 DEF ElemsOf
    <3> QED BY <3>1, <3>2
  <2>3. /\ todo'[p] = Tail(todo[p]) /\ handle' = handle /\ inst' = inst
        /\ pc[p] = "write" /\ pc'[p] = "spill"
    BY <1>1, <1>6 DEF WriteCoset, Shape
  <2>4. Spilling(p)'
    BY <1>2, <2>1, <2>2, <2>3 DEF Spilling, Ended, Needed
  <2>5. Streaming(p)'
    BY <1>1, <1>2, <1>4, <1>6 DEF WriteCoset, Shape, Streaming, Ended, ValuesOpen, FullLength
  <2>6. Accumulating(p)'
    BY <1>1, <1>2, <1>4, <1>6 DEF WriteCoset, Shape, Accumulating
  <2>7. Answered(p)'
    BY <1>1, <1>2, <1>4, <1>6 DEF WriteCoset, Shape, Answered
  <2> QED BY <2>4, <2>5, <2>6, <2>7 DEF Computing
<1>7. ASSUME OpenValues(p) PROVE Computing(p)'
  <2>1. /\ handle' = [handle EXCEPT ![p] = Put(@, Values, Opened(p, Values))]
        /\ rows' = Put(rows, Opened(p, Values), << >>)
        /\ pc[p] = "spill" /\ pc' = [pc EXCEPT ![p] = "set_len"]
        /\ todo[p] = << >> /\ inst[p] = 0
        /\ UNCHANGED <<coset, runVars, todo, inst, tileVars, endVars>>
    BY <1>7 DEF OpenValues, Open
  <2>2. /\ DOMAIN handle[p] \subseteq DOMAIN handle'[p] /\ Values \in DOMAIN handle'[p]
        /\ rows'[handle'[p][Values]] = << >>
    BY <1>1, <2>1 DEF Shape, Put
  <2>3. Spilling(p)'
    BY <1>1, <1>2, <2>1, <2>2 DEF Shape, Spilling, Ended, Needed
  <2>4. Streaming(p)'
    BY <1>1, <1>2, <1>4, <2>1, <2>2 DEF Shape, Streaming, Ended, ValuesOpen, FullLength
  <2>5. Accumulating(p)'
    BY <1>1, <2>1 DEF Shape, Accumulating
  <2>6. Answered(p)'
    BY <1>1, <1>2, <1>4, <2>1 DEF Shape, Answered
  <2> QED BY <2>3, <2>4, <2>5, <2>6 DEF Computing
<1>8. ASSUME SetLen(p) PROVE Computing(p)'
  <2>1. /\ Values \in DOMAIN handle[p] /\ handle[p][Values] \in DOMAIN rows
        /\ rows[handle[p][Values]] = << >> /\ inst[p] = 0 /\ s[p] = 0
    <3>1. Values \in DOMAIN handle[p] /\ rows[handle[p][Values]] = << >> /\ inst[p] = 0 /\ s[p] = 0
      BY <1>2, <1>8 DEF SetLen, Streaming, Ended, ValuesOpen
    <3> QED BY <1>1, <3>1 DEF Inodes, Existing
  <2>2. rows'[handle[p][Values]] = Streamed(RunOf(p), 0)
    <3>1. rows'[handle[p][Values]] =
            [i \in 1 .. Size |-> IF i <= Len(<< >>) THEN << >>[i] ELSE Zero]
      BY <1>8, <2>1 DEF SetLen
    <3> QED BY <3>1, StreamedFirst
  <2>3. Spilling(p)'
    BY <1>1, <1>2, <1>3, <1>8 DEF SetLen, Shape, Spilling, Ended, Needed
  <2>4. Streaming(p)'
    <3>1. RunOf(p)' = RunOf(p) /\ handle' = handle /\ inst'[p] = 0 /\ s'[p] = 0 /\ pc'[p] = "instance"
      BY <1>1, <1>4, <1>8, <2>1 DEF SetLen, Shape
    <3> QED BY <2>1, <2>2, <3>1 DEF Streaming, FullLength, ValuesOpen
  <2>5. Accumulating(p)'
    BY <1>1, <1>2, <1>4, <1>8 DEF SetLen, Shape, Accumulating
  <2>6. Answered(p)'
    BY <1>1, <1>2, <1>4, <1>8 DEF SetLen, Shape, Answered
  <2> QED BY <2>3, <2>4, <2>5, <2>6 DEF Computing
<1>9. ASSUME StartInstance(p) PROVE Computing(p)'
  <2>1. /\ inst[p] = 0 /\ inst'[p] = 1 /\ todo'[p] = PerInstance(0) /\ s'[p] = 0
        /\ pc[p] = "instance" /\ pc'[p] = "spill" /\ run' = run
        /\ handle' = handle /\ rows' = rows
    BY <1>1, <1>2, <1>9 DEF StartInstance, Shape
  <2>2. TileFiles(0) \subseteq DOMAIN handle[p]
    BY <1>2, <1>3, <2>1 DEF Spilling, Ended, Needed
  <2>3. Spilling(p)'
    BY <2>1, <2>2, GroupFilesSpilled DEF Spilling, Needed
  <2>4. Streaming(p)'
    BY <1>2, <1>4, <2>1 DEF Streaming, Ended, ValuesOpen, FullLength
  <2>5. Accumulating(p)'
    BY <1>1, <1>2, <1>4, <1>9 DEF StartInstance, Shape, Accumulating
  <2>6. Answered(p)'
    BY <1>1, <1>2, <1>4, <1>9 DEF StartInstance, Shape, Answered
  <2> QED BY <2>3, <2>4, <2>5, <2>6 DEF Computing
<1>10. ASSUME OpenTile(p) PROVE Computing(p)'
  <2>1. /\ inst[p] = 1 /\ pc[p] \in {"spill", "tile"} /\ todo[p] = << >>
        /\ pc[p] = "spill" => FullLength(p)
    BY <1>2, <1>10 DEF OpenTile, AtTile, Spilling, Streaming, Ended, FullLength
  <2>2. Current(p) = 0
    BY <2>1 DEF Current
  <2>3. TileFiles(0) \subseteq DOMAIN handle[p]
    BY <1>2, <1>3, <2>1 DEF Spilling, Ended, Needed
  <2>4. Read(p, TileFiles(0)) = {<<f, RunOf(p)>> : f \in TileFiles(0)}
    BY <1>1, <2>1, <2>3, NamesRead, ReadsOwn DEF Ended
  <2>5. /\ window'[p] = {<<f, RunOf(p)>> : f \in TileFiles(0)} /\ RunOf(p)' = RunOf(p)
        /\ tv'[p] = << >> /\ group'[p] = 0
    BY <1>1, <1>2, <1>4, <1>10, <2>2, <2>4 DEF OpenTile, Shape
  <2>6. << >> = Terms(RunOf(p), 0)
    BY DEF Terms
  <2>7. Spilling(p)'
    BY <1>1, <1>2, <1>10, <2>1 DEF OpenTile, Shape, Spilling, Ended, Needed
  <2>8. Streaming(p)'
    BY <1>1, <1>2, <1>4, <1>10, <2>1 DEF OpenTile, Shape, Streaming, Ended, ValuesOpen, FullLength
  <2>9. Accumulating(p)'
    BY <2>5, <2>6 DEF Accumulating
  <2>10. Answered(p)'
    BY <1>1, <1>2, <1>4, <1>10, <2>1 DEF OpenTile, Shape, Answered
  <2> QED BY <2>7, <2>8, <2>9, <2>10 DEF Computing
<1>11. ASSUME EvaluateGroup(p) PROVE Computing(p)'
  <2> DEFINE g == Groups[group[p] + 1]
             x == Ref!Term(0, g, window[p] \cup Read(p, GroupFiles(0, g)))
  <2>1. /\ inst[p] = 1 /\ pc[p] = "group" /\ todo[p] = << >>
        /\ group[p] + 1 \in 1 .. Len(Groups)
    BY <1>2, <1>11 DEF EvaluateGroup, AtGroup, Spilling, Streaming, Ended
  <2>2. Current(p) = 0 /\ NextGroup(p) = g
    BY <2>1 DEF Current, NextGroup
  <2>3. /\ group' = [group EXCEPT ![p] = @ + 1] /\ tv' = [tv EXCEPT ![p] = Append(@, x)]
        /\ UNCHANGED <<fileVars, runVars, pc, todo, handle, inst, s, window, endVars>>
    BY <1>11, <2>2 DEF EvaluateGroup
  <2>4. g \in GroupKinds /\ GroupFiles(0, g) \subseteq AllGroupFiles
    BY <2>1, GroupsSeq DEF AllGroupFiles
  <2>5. GroupFiles(0, g) \subseteq DOMAIN handle[p]
    BY <1>2, <1>3, <2>1, <2>4 DEF Spilling, Ended, Needed
  <2>6. Read(p, GroupFiles(0, g)) = {<<f, RunOf(p)>> : f \in GroupFiles(0, g)}
    BY <1>1, <2>1, <2>4, <2>5, NamesRead, ReadsOwn DEF Ended
  <2>7. window[p] = {<<f, RunOf(p)>> : f \in TileFiles(0)} /\ tv[p] = Terms(RunOf(p), group[p])
    BY <1>2, <2>1 DEF Accumulating
  <2>8. window[p] \cup Read(p, GroupFiles(0, g)) =
           {<<f, RunOf(p)>> : f \in TileFiles(0) \cup GroupFiles(0, g)}
    BY <2>6, <2>7
  <2>9. x = Ref!InCoreTerm(RunOf(p), group[p] + 1)
    BY <2>1, <2>8, TermOfGroup
  <2> HIDE DEF x
  <2>10. Append(tv[p], x) = Terms(RunOf(p), group[p] + 1)
    <3>1. PICK n \in Nat : n = group[p]
      BY <1>2
    <3>2. x = Ref!InCoreTerm(RunOf(p), n + 1) /\ tv[p] = Terms(RunOf(p), n)
      BY <2>7, <2>9, <3>1
    <3>3. Append(Terms(RunOf(p), n), Ref!InCoreTerm(RunOf(p), n + 1)) = Terms(RunOf(p), n + 1)
      BY <3>1, OneMoreTerm
    <3> QED BY <3>1, <3>2, <3>3
  <2>11. /\ tv'[p] = Terms(RunOf(p), group'[p]) /\ window' = window /\ pc'[p] = "group"
         /\ RunOf(p)' = RunOf(p)
    BY <1>1, <1>4, <2>1, <2>3, <2>10 DEF Shape
  <2>12. Spilling(p)'
    BY <1>2, <2>1, <2>3 DEF Spilling, Ended, Needed
  <2>13. Streaming(p)'
    BY <1>2, <1>4, <2>1, <2>3 DEF Streaming, Ended, ValuesOpen, FullLength
  <2>14. Accumulating(p)'
    BY <2>7, <2>11 DEF Accumulating
  <2>15. Answered(p)'
    BY <1>2, <2>1, <2>3 DEF Answered
  <2> QED BY <2>12, <2>13, <2>14, <2>15 DEF Computing
<1>12. ASSUME WriteTile(p) PROVE Computing(p)'
  <2>1. /\ inst[p] = 1 /\ pc[p] = "group" /\ todo[p] = << >>
        /\ Values \in DOMAIN handle[p] /\ rows[handle[p][Values]] = Streamed(RunOf(p), s[p])
        /\ tv[p] = Terms(RunOf(p), Len(Groups))
    BY <1>2, <1>12 DEF WriteTile, Spilling, Streaming, Accumulating, Ended, ValuesOpen, FullLength
  <2>2. handle[p][Values] \in DOMAIN rows
    BY <1>1, <2>1 DEF Inodes, Existing
  <2>3. TileLen(p) \in Nat /\ s[p] + TileLen(p) <= Size
    BY <1>2 DEF TileLen
  <2>4. rows'[handle[p][Values]] = Streamed(RunOf(p), s[p] + TileLen(p))
    <3>1. rows'[handle[p][Values]] =
            Overwrite(Streamed(RunOf(p), s[p]), s[p], Terms(RunOf(p), Len(Groups)), TileLen(p))
      BY <1>12, <2>1, <2>2 DEF WriteTile
    <3> QED BY <1>2, <2>3, <3>1, StreamedMore
  <2>5. /\ s'[p] = s[p] + TileLen(p) /\ pc'[p] = "tile" /\ RunOf(p)' = RunOf(p)
        /\ UNCHANGED <<dir, coset, runVars, todo, handle, inst, group, window, tv, endVars>>
    BY <1>1, <1>4, <1>12 DEF WriteTile, Shape
  <2>6. Spilling(p)'
    BY <1>2, <2>1, <2>5 DEF Spilling, Ended, Needed
  <2>7. Streaming(p)'
    BY <2>1, <2>4, <2>5 DEF Streaming
  <2>8. Accumulating(p)'
    BY <1>1, <1>2, <1>4, <1>12 DEF WriteTile, Shape, Accumulating
  <2>9. Answered(p)'
    BY <1>1, <1>2, <1>4, <1>12 DEF WriteTile, Shape, Answered
  <2> QED BY <2>6, <2>7, <2>8, <2>9 DEF Computing
<1>13. ASSUME EndInstance(p) PROVE Computing(p)'
  <2>1. Spilling(p)'
    BY <1>1, <1>2, <1>3, <1>13 DEF EndInstance, AtTile, Shape, Spilling, Ended, Needed
  <2>2. Streaming(p)'
    BY <1>1, <1>2, <1>4, <1>13
       DEF EndInstance, AtTile, Shape, Streaming, Spilling, Ended, ValuesOpen, FullLength
  <2>3. Accumulating(p)'
    BY <1>1, <1>2, <1>4, <1>13 DEF EndInstance, AtTile, Shape, Accumulating
  <2>4. Answered(p)'
    BY <1>1, <1>2, <1>4, <1>13 DEF EndInstance, AtTile, Shape, Answered
  <2> QED BY <2>1, <2>2, <2>3, <2>4 DEF Computing
<1>14. ASSUME ReadBack(p) PROVE Computing(p)'
  <2>1. Spilling(p)'
    BY <1>1, <1>2, <1>3, <1>14 DEF ReadBack, AtReadBack, Shape, Spilling, Ended, Needed
  <2>2. Streaming(p)'
    BY <1>1, <1>2, <1>4, <1>14 DEF ReadBack, AtReadBack, Shape, Streaming, Ended, ValuesOpen, FullLength
  <2>3. Accumulating(p)'
    BY <1>1, <1>2, <1>4, <1>14 DEF ReadBack, AtReadBack, Shape, Accumulating
  <2>4. Answered(p)'
    <3>1. s[p] = Size /\ rows[handle[p][Values]] = Streamed(RunOf(p), Size)
      BY <1>2, <1>14 DEF ReadBack, AtReadBack, Streaming, Ended, FullLength
    <3>2. values'[p] = SubSeq(Streamed(RunOf(p), Size), 1, Size)
      BY <1>1, <1>14, <3>1 DEF ReadBack, Shape
    <3>3. values'[p] = Ref!InCore(RunOf(p))
      BY <3>2, StreamedWhole
    <3>4. RunOf(p)' = RunOf(p) /\ pc[p] = "instance" /\ pc'[p] = "remove" /\ outcome' = outcome
      BY <1>1, <1>4, <1>14 DEF ReadBack, AtReadBack, Shape
    <3> QED BY <1>2, <3>3, <3>4 DEF Answered
  <2> QED BY <2>1, <2>2, <2>3, <2>4 DEF Computing
<1>15. ASSUME RemoveValues(p) PROVE Computing(p)'
  <2>1. Spilling(p)'
    BY <1>1, <1>2, <1>3, <1>15 DEF RemoveValues, Shape, Spilling, Ended, Needed
  <2>2. Streaming(p)'
    BY <1>1, <1>2, <1>4, <1>15 DEF RemoveValues, Shape, Streaming, Ended, ValuesOpen, FullLength
  <2>3. Accumulating(p)'
    BY <1>1, <1>2, <1>4, <1>15 DEF RemoveValues, Shape, Accumulating
  <2>4. Answered(p)'
    BY <1>1, <1>2, <1>4, <1>15 DEF RemoveValues, Shape, Answered
  <2> QED BY <2>1, <2>2, <2>3, <2>4 DEF Computing
<1>16. ASSUME ListDir(p) PROVE Computing(p)'
  <2>1. Spilling(p)'
    BY <1>1, <1>2, <1>3, <1>16 DEF ListDir, Shape, Spilling, Ended, Needed
  <2>2. Streaming(p)'
    BY <1>1, <1>2, <1>4, <1>16 DEF ListDir, Shape, Streaming, Ended, ValuesOpen, FullLength
  <2>3. Accumulating(p)'
    BY <1>1, <1>2, <1>4, <1>16 DEF ListDir, Shape, Accumulating
  <2>4. Answered(p)'
    BY <1>1, <1>2, <1>4, <1>16 DEF ListDir, Shape, Answered
  <2> QED BY <2>1, <2>2, <2>3, <2>4 DEF Computing
<1>17. ASSUME RemoveEntry(p) PROVE Computing(p)'
  <2>1. Spilling(p)'
    BY <1>1, <1>2, <1>3, <1>17 DEF RemoveEntry, Shape, Spilling, Ended, Needed
  <2>2. Streaming(p)'
    BY <1>1, <1>2, <1>4, <1>17 DEF RemoveEntry, Shape, Streaming, Ended, ValuesOpen, FullLength
  <2>3. Accumulating(p)'
    BY <1>1, <1>2, <1>4, <1>17 DEF RemoveEntry, Shape, Accumulating
  <2>4. Answered(p)'
    BY <1>1, <1>2, <1>4, <1>17 DEF RemoveEntry, Shape, Answered
  <2> QED BY <2>1, <2>2, <2>3, <2>4 DEF Computing
<1>18. ASSUME Return(p) PROVE Computing(p)'
  <2>1. Spilling(p)'
    BY <1>1, <1>2, <1>3, <1>18 DEF Return, Shape, Spilling, Ended, Needed
  <2>2. Streaming(p)'
    BY <1>1, <1>2, <1>4, <1>18 DEF Return, Shape, Streaming, Ended, ValuesOpen, FullLength
  <2>3. Accumulating(p)'
    BY <1>1, <1>2, <1>4, <1>18 DEF Return, Shape, Accumulating
  <2>4. Answered(p)'
    BY <1>1, <1>2, <1>4, <1>18 DEF Return, Shape, Answered
  <2> QED BY <2>1, <2>2, <2>3, <2>4 DEF Computing
<1>19. ASSUME ~Ended(p), Stop(p) PROVE Computing(p)'
  <2>1. Spilling(p)'
    BY <1>1, <1>2, <1>3, <1>19 DEF Stop, Shape, Spilling, Ended, Needed
  <2>2. Streaming(p)'
    BY <1>1, <1>2, <1>4, <1>19 DEF Stop, Shape, Streaming, Ended, ValuesOpen, FullLength
  <2>3. Accumulating(p)'
    BY <1>1, <1>2, <1>4, <1>19 DEF Stop, Shape, Accumulating
  <2>4. Answered(p)'
    BY <1>1, <1>2, <1>4, <1>19 DEF Stop, Shape, Answered
  <2> QED BY <2>1, <2>2, <2>3, <2>4 DEF Computing
<1>20. ASSUME Restart(p) PROVE Computing(p)'
  <2>1. Spilling(p)'
    BY <1>1, <1>2, <1>3, <1>20, TileFilesSpilled DEF Restart, Shape, Spilling, Ended, Needed
  <2>2. Streaming(p)'
    BY <1>1, <1>2, <1>20, TileFilesSpilled DEF Restart, Shape, Streaming, Ended, ValuesOpen, FullLength
  <2>3. Accumulating(p)'
    BY <1>1, <1>2, <1>20, TileFilesSpilled DEF Restart, Shape, Accumulating
  <2>4. Answered(p)'
    BY <1>1, <1>2, <1>20, TileFilesSpilled DEF Restart, Shape, Answered
  <2> QED BY <2>1, <2>2, <2>3, <2>4 DEF Computing
<1> QED BY <1>5, <1>6, <1>7, <1>8, <1>9, <1>10, <1>11, <1>12, <1>13, <1>14, <1>15, <1>16, <1>17, <1>18, <1>19, <1>20 DEF Step


THEOREM ComputationInvariant == OwnDirectories /\ OneInstance => (Spec => []QInv)
<1> SUFFICES ASSUME OwnDirectories, OneInstance PROVE Spec => []QInv
  OBVIOUS
<1>1. Init => \A p \in Provers : Computing(p)
  <2> SUFFICES ASSUME Init, NEW p \in Provers PROVE Computing(p)
    OBVIOUS
  <2>1. Spilling(p)
    BY TileFilesSpilled DEF Init, Spilling, Needed
  <2>2. Streaming(p)
    BY DEF Init, Streaming, ValuesOpen, FullLength
  <2>3. Accumulating(p) /\ Answered(p)
    BY DEF Init, Accumulating, Answered
  <2> QED BY <2>1, <2>2, <2>3 DEF Computing
<1>2. ASSUME QInv, DInv', [Next]_vars PROVE QInv'
  <2>1. DInv /\ Shape /\ \A p \in Provers : Computing(p)
    BY <1>2 DEF QInv, DInv, TInv
  <2>2. ASSUME NEW p \in Provers, Step(p), NEW q \in Provers PROVE Computing(q)'
    <3>1. CASE q = p
      BY <2>1, <2>2, <3>1, ComputingStep
    <3>2. CASE q # p
      BY <2>1, <2>2, <3>2, OthersKept, ComputingKept
    <3> QED BY <3>1, <3>2
  <2>3. ASSUME UNCHANGED vars, NEW q \in Provers PROVE Computing(q)'
    BY <2>1, <2>3, ComputingKept DEF vars, StateOf
  <2> QED BY <1>2, <2>1, <2>2, <2>3, StepsOf DEF QInv
<1>3. Spec => []DInv
  BY DirectoriesInvariant
<1>4. Init /\ DInv => QInv
  BY <1>1 DEF QInv
<1>5. QInv /\ DInv' /\ [Next]_vars => QInv'
  BY <1>2
<1> QED BY <1>3, <1>4, <1>5, PTL DEF Spec

(* With one instance, the values file holds in the rows below the tile the
   in-core value and zero above, at every point of the tile loop, and every
   coset is the one this run wrote: whatever the tile, whichever row the
   domain ends in, and whatever was interrupted before. *)
THEOREM ScratchAlwaysIntact == OwnDirectories /\ OneInstance => (Spec => []ScratchIntact)
<1> SUFFICES ASSUME OwnDirectories, OneInstance PROVE Spec => []ScratchIntact
  OBVIOUS
<1>1. ASSUME QInv PROVE RowsStreamed
  <2> SUFFICES ASSUME NEW p \in Provers, pc[p] \in {"tile", "group"}
               PROVE  /\ Len(rows[handle[p][Values]]) = Size
                      /\ \A i \in 1 .. Size :
                           rows[handle[p][Values]][i] =
                             SubSeq(Ref!InCoreRow(RunOf(p)), 1,
                                    IF i <= s[p] THEN Len(Groups) * inst[p]
                                    ELSE Len(Groups) * inst[p] - Len(Groups))
    BY DEF RowsStreamed
  <2> DEFINE r == RunOf(p)
             L == Len(Groups)
  <2>1. inst[p] = 1 /\ s[p] \in 0 .. Size /\ L \in Nat \ {0}
    <3>1. Shape /\ Streaming(p)
      BY <1>1 DEF QInv, DInv, TInv, Computing
    <3>2. inst[p] \in 0 .. Instances /\ s[p] \in 0 .. Size
      BY <3>1 DEF Shape
    <3>3. inst[p] # 0
      BY <3>1 DEF Streaming, Ended
    <3> QED BY <3>2, <3>3, GroupsSeq DEF OneInstance
  <2>2. rows[handle[p][Values]] = Streamed(r, s[p])
    BY <1>1 DEF QInv, Computing, Streaming, Ended, FullLength
  <2>3. L * inst[p] = L /\ L * inst[p] - L = 0
    BY <2>1
  <2>4. Ref!InCoreRow(r) = Terms(r, L) /\ Terms(r, L) = [k \in 1 .. L |-> Terms(r, L)[k]]
    BY RowIsTerms DEF Terms
  <2>5. /\ 1 \in 1 .. L + 1 /\ L \in 1 - 1 .. L /\ 0 \in 1 - 1 .. L
    BY <2>1
  <2> HIDE DEF r, L
  <2>6. SubSeq(Terms(r, L), 1, L) = Terms(r, L)
    <3>1. PICK f : f = Terms(r, L)
      OBVIOUS
    <3>2. SubSeq(f, 1, L) = [k \in 1 .. L - 1 + 1 |-> f[1 + k - 1]]
      BY <2>1, <2>4, <2>5, <3>1, SliceOf
    <3>3. L - 1 + 1 = L /\ \A k \in 1 .. L : f[1 + k - 1] = f[k]
      BY <2>1
    <3>4. SubSeq(f, 1, L) = [k \in 1 .. L |-> f[k]]
      BY <3>2, <3>3
    <3> QED BY <2>4, <3>1, <3>4
  <2>7. SubSeq(Terms(r, L), 1, 0) = Zero
    <3>1. PICK f : f = Terms(r, L)
      OBVIOUS
    <3>2. SubSeq(f, 1, 0) = [k \in 1 .. 0 - 1 + 1 |-> f[1 + k - 1]]
      BY <2>1, <2>4, <2>5, <3>1, SliceOf
    <3>3. 1 .. 0 - 1 + 1 = {}
      OBVIOUS
    <3>4. SubSeq(f, 1, 0) = << >>
      BY <3>2, <3>3
    <3> QED BY <3>1, <3>4 DEF Zero
  <2>8. \A i \in 1 .. Size :
          Streamed(r, s[p])[i] = IF i <= s[p] THEN Terms(r, L) ELSE Zero
    BY DEF Streamed, L
  <2>9. Len(Streamed(r, s[p])) = Size
    BY <2>1, StreamedLen
  <2>10. \A i \in 1 .. Size :
           Streamed(r, s[p])[i] = SubSeq(Ref!InCoreRow(r), 1, IF i <= s[p] THEN L ELSE 0)
    BY <2>4, <2>6, <2>7, <2>8
  <2> QED BY <2>2, <2>3, <2>9, <2>10 DEF r, L
<1>2. QInv => ScratchIntact
  BY <1>1 DEF QInv, DInv, ScratchIntact
<1> QED BY <1>2, ComputationInvariant, PTL

(* A run that answers returns the in-core quotient of this very run. *)
THEOREM QuotientAlwaysExact == OwnDirectories /\ OneInstance => (Spec => []QuotientExact)
<1> SUFFICES ASSUME OwnDirectories, OneInstance PROVE Spec => []QuotientExact
  OBVIOUS
<1>1. ASSUME QInv, NEW p \in Provers, outcome[p].status = "ok"
      PROVE  outcome[p].h = Ref!InCore(RunOf(p))
  <2>1. Answered(p)
    BY <1>1 DEF QInv, Computing
  <2>2. Ref!Error.status # "ok" /\ Ref!Pending.status # "ok"
    BY DEF Ref!Error, Ref!Pending
  <2>3. pc[p] = "done" /\ outcome[p] = Ref!Ok(values[p])
    BY <1>1, <2>1, <2>2 DEF Answered
  <2> QED BY <2>1, <2>3 DEF Answered, Ref!Ok
<1>2. QInv => QuotientExact
  BY <1>1 DEF QuotientExact
<1> QED BY <1>2, ComputationInvariant, PTL

(* evaluate_h_ooc_disk keeps the promise of evaluate_h: each run answers at
   most once, with the in-core quotient or an error, and only a run that
   failed is started again. *)
THEOREM DiskImplementsQuotient == OwnDirectories /\ OneInstance => (Spec => ImplementsQuotient)
<1> SUFFICES ASSUME OwnDirectories, OneInstance PROVE Spec => ImplementsQuotient
  OBVIOUS
<1>1. Init => Ref!Init
  BY DEF Init, Ref!Init
<1>2. ASSUME QInv, [Next]_vars PROVE [Ref!Next]_(Ref!vars)
  <2> USE DEF fileVars, runVars, tileVars, endVars
  <2>1. Shape /\ \A p \in Provers : Computing(p)
    BY <1>2 DEF QInv, DInv, TInv
  <2>2. ASSUME NEW p \in Provers, Step(p) PROVE [Ref!Next]_(Ref!vars)
    <3>1. CASE Return(p)
      <4>1. /\ outcome[p] = Ref!Pending /\ values[p] = Ref!InCore(Ref!RunOf(p))
            /\ outcome' = [outcome EXCEPT ![p] = Ref!Ok(values[p])] /\ run' = run
        BY <2>1, <3>1 DEF Return, Computing, Answered, RunOf
      <4>2. Ref!Answer(p)
        BY <4>1 DEF Ref!Answer
      <4> QED BY <4>2 DEF Ref!Next
    <3>2. CASE ~Ended(p) /\ Stop(p)
      <4>1. /\ outcome[p] = Ref!Pending
            /\ outcome' = [outcome EXCEPT ![p] = Ref!Error] /\ run' = run
        BY <2>1, <3>2 DEF Stop, Ended, Computing, Answered
      <4>2. Ref!Fail(p)
        BY <4>1 DEF Ref!Fail
      <4> QED BY <4>2 DEF Ref!Next
    <3>3. CASE Restart(p)
      <4>1. /\ outcome[p] = Ref!Error
            /\ outcome' = [outcome EXCEPT ![p] = Ref!Pending]
            /\ run' = [run EXCEPT ![p] = @ + 1]
        BY <2>1, <3>3 DEF Restart, Computing, Answered
      <4>2. Ref!Again(p)
        BY <4>1 DEF Ref!Again
      <4> QED BY <4>2 DEF Ref!Next
    <3>4. CASE ~(Return(p) \/ (~Ended(p) /\ Stop(p)) \/ Restart(p))
      <4>1. UNCHANGED <<run, outcome>>
        BY <2>2, <3>4
           DEF Step, CreateCoset, WriteCoset, OpenValues, SetLen, StartInstance, OpenTile,
               EvaluateGroup, WriteTile, EndInstance, ReadBack, RemoveValues, ListDir, RemoveEntry
      <4> QED BY <4>1 DEF Ref!vars
    <3> QED BY <3>1, <3>2, <3>3, <3>4
  <2>3. CASE UNCHANGED vars
    BY <2>3 DEF vars, Ref!vars
  <2> QED BY <1>2, <2>1, <2>2, <2>3, StepsOf
<1>3. QInv /\ [Next]_vars => [Ref!Next]_(Ref!vars)
  BY <1>2
<1>4. Spec => []QInv
  BY ComputationInvariant
<1> QED BY <1>1, <1>3, <1>4, PTL DEF Spec, ImplementsQuotient
=============================================================================
