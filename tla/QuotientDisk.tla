----------------------------- MODULE QuotientDisk ----------------------------
(***************************************************************************)
(* evaluate_h_ooc_disk of halo2_backend/src/plonk/evaluation.rs: a prover  *)
(* spills every fresh coset to a scratch file of fixed name, evaluates the *)
(* quotient tile by tile from windows of those files, streams the rows to  *)
(* another scratch file, reads it back, and sweeps the directory.          *)
(*                                                                         *)
(* Several provers run concurrently, in directories of their own or in one *)
(* they share (SS_OOC_DIR, /var/tmp by default); each may fail or be       *)
(* killed at any step and be run again, over the files it left behind.     *)
(*                                                                         *)
(* The file system is modelled to the point where sharing shows: a         *)
(* directory maps names to inodes, open with truncate(true) empties the    *)
(* inode the name already has, an unlinked inode lives on in the handles.  *)
(* A coset file holds the run it was written by, or is Empty; the values   *)
(* file is a sequence of rows.  Which rows of a coset a window delivers is *)
(* the subject of TileWindow.                                              *)
(***************************************************************************)
EXTENDS Integers, Sequences

CONSTANTS
  Instances, NAdv, NIns, NShp, NLk, NPpc, Size, Provers,  \* see Quotient
  Tile,      \* rows per tile
  Dirs,      \* scratch directories
  DirOf,     \* the directory each prover was given
  MaxRuns,   \* bound: how often a prover is started
  Leftovers  \* names that may be found in a directory at the start

ASSUME QuotientAssumption ==
  /\ Instances \in Nat \ {0} /\ Size \in Nat \ {0}
  /\ NAdv \in Nat /\ NIns \in Nat
  /\ NShp \in Nat /\ NLk \in Nat /\ NPpc \in Nat

ASSUME DiskAssumption ==
  /\ Tile \in Nat /\ MaxRuns \in Nat \ {0}
  /\ DirOf \in [Provers -> Dirs]

VARIABLES
  dir,      \* directory -> name -> inode
  coset,    \* inode of a coset file -> the run that wrote it, or Empty
  rows,     \* inode of a values file -> its rows
  run, outcome,
  pc,
  todo,     \* names still to be spilled in this phase
  handle,   \* name -> inode, the open files of the run
  inst,     \* instances started
  s,        \* first row of the tile
  group,    \* term groups evaluated in the tile
  window,   \* the advice and instance windows of the tile
  tv,       \* the tile-local accumulator, the same for every row of a tile
  values,   \* the rows read back
  sweep     \* directory entries still to be removed

vars == <<dir, coset, rows, run, outcome, pc, todo, handle, inst, s, group,
          window, tv, values, sweep>>

fileVars == <<dir, coset, rows>>
runVars  == <<run, outcome>>
tileVars == <<s, group, window, tv>>
endVars  == <<values, sweep>>

Ref == INSTANCE Quotient WITH
  Instances <- Instances, NAdv <- NAdv, NIns <- NIns, NShp <- NShp, NLk <- NLk,
  NPpc <- NPpc, Size <- Size, Provers <- Provers, run <- run, outcome <- outcome
RunOf(p) == Ref!RunOf(p)

-----------------------------------------------------------------------------
(* Definitions marked "fault" are variants a mutation run puts in the place
   of the definition that follows them. *)
Values == <<"values", 0, 0>>
Empty  == << >>

(* fault: the shuffles are evaluated before the lookups *)
GroupsShuffleFirst ==
  << <<"gates", 0>> >>
  \o (IF NPpc > 0 THEN << <<"perm", 0>> >> ELSE << >>)
  \o [n \in 1 .. NShp |-> <<"shuffle", n - 1>>]
  \o [n \in 1 .. NLk  |-> <<"lookup", n - 1>>]

(* The order the tile loop evaluates the terms of an instance in. *)
Groups ==
  << <<"gates", 0>> >>
  \o (IF NPpc > 0 THEN << <<"perm", 0>> >> ELSE << >>)
  \o [n \in 1 .. NLk  |-> <<"lookup", n - 1>>]
  \o [n \in 1 .. NShp |-> <<"shuffle", n - 1>>]

(* The spilled cosets whose windows are read for a tile, and for a group. *)
TileFiles(i) == {<<"adv", i, j>> : j \in 0 .. NAdv - 1}
                  \cup {<<"ins", i, j>> : j \in 0 .. NIns - 1}
GroupFiles(i, g) ==
  CASE g[1] = "gates"   -> {}
    [] g[1] = "perm"    -> {<<"ppc", i, n>> : n \in 0 .. NPpc - 1}
    [] g[1] = "lookup"  -> {<<"lkp", i, g[2]>>, <<"lki", i, g[2]>>, <<"lkt", i, g[2]>>}
    [] g[1] = "shuffle" -> {<<"shp", i, g[2]>>}

(* Every advice coset, then every instance coset, of all instances; then,
   for each instance in turn, its shuffle products, the three cosets of each
   lookup and its permutation products. *)
UpFront ==
  [k \in 1 .. Instances * NAdv |-> <<"adv", (k - 1) \div NAdv, (k - 1) % NAdv>>]
  \o [k \in 1 .. Instances * NIns |-> <<"ins", (k - 1) \div NIns, (k - 1) % NIns>>]

LookupKinds == <<"lkp", "lki", "lkt">>
PerInstance(i) ==
  [k \in 1 .. NShp |-> <<"shp", i, k - 1>>]
  \o [k \in 1 .. 3 * NLk |-> <<LookupKinds[((k - 1) % 3) + 1], i, (k - 1) \div 3>>]
  \o [k \in 1 .. NPpc |-> <<"ppc", i, k - 1>>]

Put(g, x, v) == [y \in DOMAIN g \cup {x} |-> IF y = x THEN v ELSE g[y]]
Drop(g, x)   == [y \in DOMAIN g \ {x} |-> g[y]]

Home(p) == DirOf[p]
Here(p) == dir[Home(p)]

(* open(create, truncate): the inode the name has, or a new one. *)
Opened(p, f) == IF f \in DOMAIN Here(p) THEN Here(p)[f] ELSE <<RunOf(p), f>>

Open(p, f) == /\ dir' = [dir EXCEPT ![Home(p)] = Put(@, f, Opened(p, f))]
              /\ handle' = [handle EXCEPT ![p] = Put(@, f, Opened(p, f))]

(* write_all_at of n rows v at row a: the file grows if it has to, a gap
   reads as zero. *)
Zero == << >>
Overwrite(file, a, v, n) ==
  [i \in 1 .. (IF a + n > Len(file) THEN a + n ELSE Len(file)) |->
     IF i \in a + 1 .. a + n THEN v
     ELSE IF i <= Len(file) THEN file[i] ELSE Zero]

-----------------------------------------------------------------------------
(* A directory may hold files of runs that are over: run 0 stands for them. *)
Init ==
  /\ \E names \in [Dirs -> SUBSET Leftovers] :
       dir = [d \in Dirs |-> [f \in names[d] |-> <<<<d, 0>>, f>>]]
  /\ coset = [x \in (Dirs \X {0}) \X (Leftovers \ {Values}) |-> x[1]]
  /\ rows = [x \in (Dirs \X {0}) \X {Values} |-> << >>]
  /\ run = [p \in Provers |-> 1]
  /\ outcome = [p \in Provers |-> Ref!Pending]
  /\ pc = [p \in Provers |-> "spill"]
  /\ todo = [p \in Provers |-> UpFront]
  /\ handle = [p \in Provers |-> << >>]
  /\ inst = [p \in Provers |-> 0]
  /\ s = [p \in Provers |-> 0]
  /\ group = [p \in Provers |-> 0]
  /\ window = [p \in Provers |-> {}]
  /\ tv = [p \in Provers |-> Zero]
  /\ values = [p \in Provers |-> << >>]
  /\ sweep = [p \in Provers |-> {}]

(* fault: a file that was there before is taken as it is *)
CreateCosetOrReuse(p) ==
  /\ pc[p] = "spill" /\ todo[p] # << >>
  /\ Open(p, Head(todo[p]))
  /\ IF Head(todo[p]) \in DOMAIN Here(p)
       THEN /\ todo' = [todo EXCEPT ![p] = Tail(@)]
            /\ UNCHANGED <<coset, pc>>
       ELSE /\ coset' = Put(coset, Opened(p, Head(todo[p])), Empty)
            /\ pc' = [pc EXCEPT ![p] = "write"]
            /\ UNCHANGED todo
  /\ UNCHANGED <<rows, runVars, inst, tileVars, endVars>>

(* ReprCoset::create: open and truncate, *)
CreateCoset(p) ==
  /\ pc[p] = "spill" /\ todo[p] # << >>
  /\ Open(p, Head(todo[p]))
  /\ coset' = Put(coset, Opened(p, Head(todo[p])), Empty)
  /\ pc' = [pc EXCEPT ![p] = "write"]
  /\ UNCHANGED <<rows, runVars, todo, inst, tileVars, endVars>>

(* then write_all. *)
WriteCoset(p) ==
  /\ pc[p] = "write"
  /\ coset' = [coset EXCEPT ![handle[p][Head(todo[p])]] = RunOf(p)]
  /\ todo' = [todo EXCEPT ![p] = Tail(@)]
  /\ pc' = [pc EXCEPT ![p] = "spill"]
  /\ UNCHANGED <<dir, rows, runVars, handle, inst, tileVars, endVars>>

(* The advice and instance cosets are spilled: the values file is opened *)
OpenValues(p) ==
  /\ pc[p] = "spill" /\ todo[p] = << >> /\ inst[p] = 0
  /\ Open(p, Values)
  /\ rows' = Put(rows, Opened(p, Values), << >>)
  /\ pc' = [pc EXCEPT ![p] = "set_len"]
  /\ UNCHANGED <<coset, runVars, todo, inst, tileVars, endVars>>

(* and given its full length; rows it does not have yet are zero. *)
SetLen(p) ==
  /\ pc[p] = "set_len"
  /\ rows' = [rows EXCEPT ![handle[p][Values]] =
                [i \in 1 .. Size |-> IF i <= Len(@) THEN @[i] ELSE Zero]]
  /\ pc' = [pc EXCEPT ![p] = "instance"]
  /\ UNCHANGED <<dir, coset, runVars, todo, handle, inst, tileVars, endVars>>

(* The next instance: its own cosets are to be spilled. *)
StartInstance(p) ==
  /\ pc[p] = "instance" /\ inst[p] < Instances
  /\ todo' = [todo EXCEPT ![p] = PerInstance(inst[p])]
  /\ inst' = [inst EXCEPT ![p] = @ + 1]
  /\ s' = [s EXCEPT ![p] = 0]
  /\ pc' = [pc EXCEPT ![p] = "spill"]
  /\ UNCHANGED <<fileVars, runVars, handle, group, window, tv, endVars>>

-----------------------------------------------------------------------------
(* The tile loop.  A window of an emptied file is a short read.            *)
Readable(p, files) == \A f \in files : coset[handle[p][f]] # Empty
Read(p, files)     == {<<f, coset[handle[p][f]]>> : f \in files}
Current(p)         == inst[p] - 1
TileLen(p)         == IF Tile < Size - s[p] THEN Tile ELSE Size - s[p]

AtTile(p) == \/ pc[p] = "spill" /\ todo[p] = << >> /\ inst[p] > 0
             \/ pc[p] = "tile"

(* vec![ZERO; len], and the windows every evaluator uses. *)
OpenTile(p) ==
  /\ AtTile(p) /\ s[p] < Size
  /\ Readable(p, TileFiles(Current(p)))
  /\ window' = [window EXCEPT ![p] = Read(p, TileFiles(Current(p)))]
  /\ tv' = [tv EXCEPT ![p] = Zero]
  /\ group' = [group EXCEPT ![p] = 0]
  /\ pc' = [pc EXCEPT ![p] = "group"]
  /\ UNCHANGED <<fileVars, runVars, todo, handle, inst, s, endVars>>

AtGroup(p)   == pc[p] = "group" /\ group[p] < Len(Groups)
NextGroup(p) == Groups[group[p] + 1]

(* Gates, permutation, one lookup or one shuffle: its windows are read and
   its terms folded into the accumulator of the tile. *)
EvaluateGroup(p) ==
  /\ AtGroup(p)
  /\ LET files == GroupFiles(Current(p), NextGroup(p))
     IN  /\ Readable(p, files)
         /\ tv' = [tv EXCEPT ![p] =
                     Append(@, Ref!Term(Current(p), NextGroup(p),
                                        window[p] \cup Read(p, files)))]
  /\ group' = [group EXCEPT ![p] = @ + 1]
  /\ UNCHANGED <<fileVars, runVars, pc, todo, handle, inst, s, window, endVars>>

(* fault: a whole tile is counted even if the domain ends inside it *)
WriteTileWhole(p) ==
  /\ pc[p] = "group" /\ group[p] = Len(Groups)
  /\ rows' = [rows EXCEPT ![handle[p][Values]] =
                Overwrite(@, s[p], tv[p], TileLen(p))]
  /\ s' = [s EXCEPT ![p] = @ + Tile]
  /\ pc' = [pc EXCEPT ![p] = "tile"]
  /\ UNCHANGED <<dir, coset, runVars, todo, handle, inst, group, window, tv, endVars>>

(* fault: s does not move *)
WriteTileAgain(p) ==
  /\ pc[p] = "group" /\ group[p] = Len(Groups)
  /\ rows' = [rows EXCEPT ![handle[p][Values]] =
                Overwrite(@, s[p], tv[p], TileLen(p))]
  /\ pc' = [pc EXCEPT ![p] = "tile"]
  /\ UNCHANGED <<dir, coset, runVars, todo, handle, inst, tileVars, endVars>>

(* write_all_at of the rows of the tile; s += len. *)
WriteTile(p) ==
  /\ pc[p] = "group" /\ group[p] = Len(Groups)
  /\ rows' = [rows EXCEPT ![handle[p][Values]] =
                Overwrite(@, s[p], tv[p], TileLen(p))]
  /\ s' = [s EXCEPT ![p] = @ + TileLen(p)]
  /\ pc' = [pc EXCEPT ![p] = "tile"]
  /\ UNCHANGED <<dir, coset, runVars, todo, handle, inst, group, window, tv, endVars>>

EndInstance(p) ==
  /\ AtTile(p) /\ s[p] = Size
  /\ pc' = [pc EXCEPT ![p] = "instance"]
  /\ UNCHANGED <<fileVars, runVars, todo, handle, inst, tileVars, endVars>>

-----------------------------------------------------------------------------
(* All instances are done: the values file is read back whole, *)
AtReadBack(p) == pc[p] = "instance" /\ inst[p] = Instances

ReadBack(p) ==
  /\ AtReadBack(p) /\ Len(rows[handle[p][Values]]) >= Size
  /\ values' = [values EXCEPT ![p] = SubSeq(rows[handle[p][Values]], 1, Size)]
  /\ pc' = [pc EXCEPT ![p] = "remove"]
  /\ UNCHANGED <<fileVars, runVars, todo, handle, inst, tileVars, sweep>>

(* the name of the values file is removed, whoever has it now, *)
RemoveValues(p) ==
  /\ pc[p] = "remove"
  /\ dir' = [dir EXCEPT ![Home(p)] = Drop(@, Values)]
  /\ pc' = [pc EXCEPT ![p] = "list"]
  /\ UNCHANGED <<coset, rows, runVars, todo, handle, inst, tileVars, endVars>>

(* fault: only the files of this run are removed *)
ListDirOwn(p) ==
  /\ pc[p] = "list"
  /\ sweep' = [sweep EXCEPT ![p] = DOMAIN handle[p]]
  /\ pc' = [pc EXCEPT ![p] = "sweep"]
  /\ UNCHANGED <<fileVars, runVars, todo, handle, inst, tileVars, values>>

(* the directory is listed (every name modelled is an ss_h_*.bin), *)
ListDir(p) ==
  /\ pc[p] = "list"
  /\ sweep' = [sweep EXCEPT ![p] = DOMAIN Here(p)]
  /\ pc' = [pc EXCEPT ![p] = "sweep"]
  /\ UNCHANGED <<fileVars, runVars, todo, handle, inst, tileVars, values>>

(* and its entries are removed one by one. *)
RemoveEntry(p) ==
  /\ pc[p] = "sweep"
  /\ \E f \in sweep[p] :
       /\ dir' = [dir EXCEPT ![Home(p)] = Drop(@, f)]
       /\ sweep' = [sweep EXCEPT ![p] = @ \ {f}]
  /\ UNCHANGED <<coset, rows, runVars, pc, todo, handle, inst, tileVars, values>>

Return(p) ==
  /\ pc[p] = "sweep" /\ sweep[p] = {}
  /\ outcome' = [outcome EXCEPT ![p] = Ref!Ok(values[p])]
  /\ pc' = [pc EXCEPT ![p] = "done"]
  /\ UNCHANGED <<fileVars, run, todo, handle, inst, tileVars, endVars>>

-----------------------------------------------------------------------------
(* The "?" of an I/O call returns at once and its caller's expect ends the
   process; the scratch files stay. *)
Stop(p) ==
  /\ pc' = [pc EXCEPT ![p] = "stopped"]
  /\ outcome' = [outcome EXCEPT ![p] = Ref!Error]
  /\ UNCHANGED <<fileVars, run, todo, handle, inst, tileVars, endVars>>

ShortRead(p) ==
  /\ \/ AtTile(p) /\ s[p] < Size /\ ~Readable(p, TileFiles(Current(p)))
     \/ AtGroup(p) /\ ~Readable(p, GroupFiles(Current(p), NextGroup(p)))
     \/ AtReadBack(p) /\ Len(rows[handle[p][Values]]) < Size
  /\ Stop(p)

Ended(p) == pc[p] \in {"done", "stopped"}

(* The disk is full, an I/O call fails, the process is killed. *)
Interrupt(p) == ~Ended(p) /\ Stop(p)

(* The prover is started again: nothing of the last run is left but files. *)
Restart(p) ==
  /\ pc[p] = "stopped" /\ run[p] < MaxRuns
  /\ run' = [run EXCEPT ![p] = @ + 1]
  /\ outcome' = [outcome EXCEPT ![p] = Ref!Pending]
  /\ pc' = [pc EXCEPT ![p] = "spill"]
  /\ todo' = [todo EXCEPT ![p] = UpFront]
  /\ handle' = [handle EXCEPT ![p] = << >>]
  /\ inst' = [inst EXCEPT ![p] = 0]
  /\ s' = [s EXCEPT ![p] = 0]
  /\ group' = [group EXCEPT ![p] = 0]
  /\ window' = [window EXCEPT ![p] = {}]
  /\ tv' = [tv EXCEPT ![p] = Zero]
  /\ values' = [values EXCEPT ![p] = << >>]
  /\ sweep' = [sweep EXCEPT ![p] = {}]
  /\ UNCHANGED fileVars

Spill(p)    == CreateCoset(p) \/ WriteCoset(p) \/ OpenValues(p) \/ SetLen(p)
               \/ StartInstance(p)
Evaluate(p) == OpenTile(p) \/ EvaluateGroup(p) \/ WriteTile(p) \/ EndInstance(p)
Finish(p)   == ReadBack(p) \/ RemoveValues(p) \/ ListDir(p) \/ RemoveEntry(p)
               \/ Return(p)

Work(p) == Spill(p) \/ Evaluate(p) \/ Finish(p) \/ ShortRead(p)

(* All runs are over. *)
Rest == (\A p \in Provers : Ended(p)) /\ UNCHANGED vars

Next == (\E p \in Provers : Work(p) \/ Interrupt(p) \/ Restart(p)) \/ Rest

Spec == Init /\ [][Next]_vars

(* A running prover is scheduled; nobody has to fail or to be restarted. *)
FairSpec == Spec /\ \A p \in Provers : WF_vars(Work(p))

-----------------------------------------------------------------------------
(***************************************************************************)
(* Properties.                                                             *)
(***************************************************************************)
Runs == (Provers \cup Dirs) \X (0 .. MaxRuns)

(* Every variable has its type: a handle is to an inode that exists, the
   tile loop stays inside the domain. *)
TypeOK ==
  /\ \A d \in Dirs : \A f \in DOMAIN dir[d] :
       dir[d][f] \in IF f = Values THEN DOMAIN rows ELSE DOMAIN coset
  /\ \A x \in DOMAIN coset : coset[x] \in Runs \cup {Empty}
  /\ run \in [Provers -> 1 .. MaxRuns]
  /\ pc \in [Provers -> {"spill", "write", "set_len", "instance", "tile", "group",
                         "remove", "list", "sweep", "done", "stopped"}]
  /\ \A p \in Provers :
       /\ \A f \in DOMAIN handle[p] :
            handle[p][f] \in IF f = Values THEN DOMAIN rows ELSE DOMAIN coset
       /\ inst[p] \in 0 .. Instances /\ s[p] \in 0 .. Size
       /\ group[p] \in 0 .. Len(Groups) /\ Len(tv[p]) = group[p]

(* A coset that has been spilled is still, whenever it may be read, the coset
   this run wrote: neither the files of an earlier run nor another prover
   show through the name. *)
CosetsIntact ==
  \A p \in Provers : ~Ended(p) =>
    \A f \in DOMAIN handle[p] \ {Values} :
      \/ coset[handle[p][f]] = RunOf(p)
      \/ pc[p] = "write" /\ f = Head(todo[p]) /\ coset[handle[p][f]] = Empty

(* While an instance is evaluated the values file holds, in the rows of the
   tiles that are written, the in-core value up to this instance, and in the
   others the value up to the instance before. *)
RowsStreamed ==
  \A p \in Provers : pc[p] \in {"tile", "group"} =>
    LET file  == rows[handle[p][Values]]
        terms == Len(Groups) * inst[p]
    IN  /\ Len(file) = Size
        /\ \A i \in 1 .. Size :
             file[i] = SubSeq(Ref!InCoreRow(RunOf(p)), 1,
                              IF i <= s[p] THEN terms ELSE terms - Len(Groups))

(* Whatever an earlier run left behind, the files of a run hold what it wrote. *)
ScratchIntact == CosetsIntact /\ RowsStreamed

(* A run that succeeds leaves no scratch file in its directory, its own,
   those of the runs that were interrupted before it, or any found there. *)
SweptClean ==
  \A p \in Provers : pc[p] = "done" => DOMAIN Here(p) = {}

(* "Byte-for-byte identical to evaluate_h": the quotient returned is the
   in-core one of this run. *)
QuotientExact ==
  \A p \in Provers :
    outcome[p].status = "ok" => outcome[p].h = Ref!InCore(RunOf(p))

(* Every run returns at most once, the in-core quotient or an error. *)
ImplementsQuotient == Ref!Init /\ [][Ref!Next]_(Ref!vars)

(* Every prover comes to rest, if Tile is not 0. *)
Settles == \A p \in Provers : <>[]Ended(p)
=============================================================================
