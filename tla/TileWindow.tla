------------------------------ MODULE TileWindow -----------------------------
(***************************************************************************)
(* How a tiled evaluation reads a rotated coset: the halo the quotient     *)
(* evaluator computes from the circuit, the disk reader that assembles the *)
(* window of a tile in contiguous runs (ReprCoset::window of               *)
(* halo2_backend/src/plonk/evaluation.rs and DiskCoset::window of          *)
(* halo2-stream/src/disk.rs, the same loop), and the window-local index    *)
(* the terms are then evaluated at.                                        *)
(*                                                                         *)
(* The coset is abstracted to the identity: its value at row p is p, so    *)
(* what a term reads is the row it read.                                   *)
(***************************************************************************)
EXTENDS Integers, Sequences

CONSTANTS
  Size,       \* 2^extended_k, the rows of the extended domain
  RotScale,   \* 2^(extended_k - k), the rows of one rotation
  Tile,       \* rows per tile
  MaxRotation,\* no rotation of a circuit is larger, in absolute value
  Circuits,   \* what the halo is computed from: see Shape
  FileLens    \* the lengths, in records, the coset file may be found with

Rotations == -MaxRotation .. MaxRotation

(* The rotations the three expression evaluators query, whether any         *)
(* instance has a permutation, lookup or shuffle argument, and              *)
(* blinding_factors().                                                      *)
Shape == [gates : SUBSET Rotations, lookups : SUBSET Rotations,
          shuffles : SUBSET Rotations, blinding : 0 .. MaxRotation - 1,
          hasPerm : BOOLEAN, hasLookup : BOOLEAN, hasShuffle : BOOLEAN]

ASSUME TilingAssumption ==
  /\ Size \in Nat \ {0} /\ RotScale \in Nat \ {0} /\ Tile \in Nat
  /\ MaxRotation \in Nat \ {0}
  /\ Circuits \subseteq Shape /\ FileLens \subseteq Nat

VARIABLES
  circuit,   \* the circuit being proved
  fileLen,   \* records in the coset file
  pc,
  s,         \* first row of the tile
  cur,       \* next row of the file to read
  remaining, \* records the window still lacks
  out,       \* the window read so far
  reads,     \* positioned reads the window took so far
  seen       \* for each row evaluated, the row read under each rotation

vars == <<circuit, fileLen, pc, s, cur, remaining, out, reads, seen>>

-----------------------------------------------------------------------------
(* Definitions marked "fault" are variants a mutation run puts in the place
   of the definition that follows them. *)
Abs(r)     == IF r < 0 THEN -r ELSE r
Least(a, b) == IF a < b THEN a ELSE b

(* get_rotation_idx: the full coset's index, or the window's with isize = wl. *)
RotationIdx(idx, rot, isize) == (idx + rot * RotScale) % isize

(* What the terms of the circuit query: a gate its own rotations, the
   permutation z(X), z(wX) and z at the last row, a lookup and a shuffle
   their product at +1, the lookup's permuted input at -1 as well. *)
Queried ==
  {0} \cup circuit.gates
  \cup (IF circuit.hasPerm    THEN {1, -(circuit.blinding + 1)}  ELSE {})
  \cup (IF circuit.hasLookup  THEN {1, -1} \cup circuit.lookups  ELSE {})
  \cup (IF circuit.hasShuffle THEN {1} \cup circuit.shuffles     ELSE {})

(* fault: the permutation's last row is not counted *)
CandidatesNoLastRow ==
  {0} \cup {Abs(r) : r \in circuit.gates}
  \cup (IF circuit.hasPerm    THEN {1} ELSE {})
  \cup (IF circuit.hasLookup  THEN {1} \cup {Abs(r) : r \in circuit.lookups} ELSE {})
  \cup (IF circuit.hasShuffle THEN {1} \cup {Abs(r) : r \in circuit.shuffles} ELSE {})

(* The numbers max_rot is the maximum of. *)
Candidates ==
  {0} \cup {Abs(r) : r \in circuit.gates}
  \cup (IF circuit.hasPerm    THEN {1, circuit.blinding + 1} ELSE {})
  \cup (IF circuit.hasLookup  THEN {1} \cup {Abs(r) : r \in circuit.lookups} ELSE {})
  \cup (IF circuit.hasShuffle THEN {1} \cup {Abs(r) : r \in circuit.shuffles} ELSE {})

MaxRot == CHOOSE m \in Candidates : \A c \in Candidates : c <= m
Halo   == MaxRot * RotScale

(* tile.min(size - s), and window_len *)
TileLen   == Least(Tile, Size - s)
WindowLen == TileLen + 2 * Halo

(* The rows of the window at s, as TileSpec::window and evaluate_h_ooc's win
   build it from a resident coset. *)
WindowRow(j) == (s - Halo + j) % Size

-----------------------------------------------------------------------------
Init ==
  /\ circuit \in Circuits
  /\ fileLen \in FileLens
  /\ pc = "tile" /\ s = 0
  /\ cur = 0 /\ remaining = 0 /\ out = << >> /\ reads = 0
  /\ seen = << >>

OpenWindow ==
  /\ pc = "tile" /\ s < Size
  /\ cur' = (s - Halo) % Size
  /\ remaining' = WindowLen
  /\ out' = << >> /\ reads' = 0
  /\ pc' = "read"
  /\ UNCHANGED <<circuit, fileLen, s, seen>>

(* remaining.min(self.size - cur): up to the end of the file at most *)
Run == Least(remaining, Size - cur)

(* fault: cur is left at the end of the file *)
ReadRunNoWrap ==
  /\ pc = "read" /\ remaining > 0
  /\ cur + Run <= fileLen
  /\ out' = out \o [j \in 1 .. Run |-> cur + j - 1]
  /\ remaining' = remaining - Run
  /\ cur' = cur + Run
  /\ reads' = reads + 1
  /\ UNCHANGED <<circuit, fileLen, pc, s, seen>>

(* read_exact_at a contiguous run, and wrap at the domain boundary. *)
ReadRun ==
  /\ pc = "read" /\ remaining > 0
  /\ cur + Run <= fileLen
  /\ out' = out \o [j \in 1 .. Run |-> cur + j - 1]
  /\ remaining' = remaining - Run
  /\ cur' = IF cur + Run = Size THEN 0 ELSE cur + Run
  /\ reads' = reads + 1
  /\ UNCHANGED <<circuit, fileLen, pc, s, seen>>

(* read_exact_at past the end of the file: the call returns the error. *)
ShortRead ==
  /\ pc = "read" /\ remaining > 0
  /\ cur + Run > fileLen
  /\ pc' = "failed"
  /\ UNCHANGED <<circuit, fileLen, s, cur, remaining, out, reads, seen>>

(* The index, in the window, of row i of the tile under a rotation: the
   evaluator gets halo + i and wraps at the window's own length. *)
Local(i, rot) == RotationIdx(Halo + i, rot, WindowLen)

(* fault: the tile that was evaluated is evaluated again *)
EvaluateTileAgain ==
  /\ pc = "read" /\ remaining = 0
  /\ seen' = [i \in 0 .. s + TileLen - 1 |->
                IF i < s THEN seen[i]
                ELSE [rot \in Queried |-> out[Local(i - s, rot) + 1]]]
  /\ pc' = "tile"
  /\ UNCHANGED <<circuit, fileLen, s, cur, remaining, out, reads>>

(* Every term of every row of the tile is evaluated over the window. *)
EvaluateTile ==
  /\ pc = "read" /\ remaining = 0
  /\ seen' = [i \in 0 .. s + TileLen - 1 |->
                IF i < s THEN seen[i]
                ELSE [rot \in Queried |-> out[Local(i - s, rot) + 1]]]
  /\ s' = s + TileLen
  /\ pc' = "tile"
  /\ UNCHANGED <<circuit, fileLen, cur, remaining, out, reads>>

Finish ==
  /\ pc = "tile" /\ s = Size
  /\ pc' = "done"
  /\ UNCHANGED <<circuit, fileLen, s, cur, remaining, out, reads, seen>>

Returned == pc \in {"done", "failed"}
Stopped  == Returned /\ UNCHANGED vars

Work == OpenWindow \/ ReadRun \/ ShortRead \/ EvaluateTile \/ Finish
Next == Work \/ Stopped

Spec     == Init /\ [][Next]_vars
FairSpec == Spec /\ WF_vars(Work)

-----------------------------------------------------------------------------
(***************************************************************************)
(* Properties.                                                             *)
(***************************************************************************)

(* Every variable has its type; the reader's position stays inside the file
   it believes it has. *)
TypeOK ==
  /\ circuit \in Circuits /\ fileLen \in FileLens
  /\ pc \in {"tile", "read", "done", "failed"}
  /\ s \in 0 .. Size
  /\ cur \in 0 .. Size - 1 /\ remaining \in Nat /\ reads \in Nat
  /\ out \in Seq(0 .. Size - 1)
  /\ seen \in [0 .. s - 1 -> [Queried -> 0 .. Size - 1]]

(* What has been read is a prefix of the window TileSpec::window would build
   from the resident coset, the next row to read is the one that follows, and
   the two together are the whole window: disk.rs's "reads exactly the range
   TileSpec::window would build". *)
WindowPrefix ==
  pc = "read" =>
    /\ Len(out) + remaining = WindowLen
    /\ cur = WindowRow(Len(out))
    /\ \A j \in 1 .. Len(out) : out[j] = WindowRow(j - 1)

(* "At most two positioned reads to resolve the wrap", for every window that
   is not longer than the domain; one if it does not cross the boundary. *)
AtMostTwoReads ==
  pc = "read" /\ WindowLen <= Size =>
    /\ reads <= 2
    /\ 0 <= s - Halo /\ s + TileLen + Halo <= Size => reads <= 1

(* A term evaluated in a tile reads, under each rotation it queries, the row
   it would read in the full coset, wrap included: the halo covers every
   rotation of every argument, and rem_euclid(wl) changes nothing. *)
RotatedAccess ==
  \A i \in 0 .. s - 1 : \A rot \in Queried :
    seen[i][rot] = RotationIdx(i, rot, Size)

(* The loops end, if Tile is not 0. *)
Terminates == <>Returned
=============================================================================
