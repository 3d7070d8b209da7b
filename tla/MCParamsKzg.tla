----------------------------- MODULE MCParamsKzg -----------------------------
(***************************************************************************)
(* ParamsKzg and KeyFile for TLC: the parameters and the keys, which are   *)
(* written to files of their own, one at a time.  `which` is chosen at the *)
(* start and says which of them runs.                                      *)
(*                                                                         *)
(* ParamsKzg: domains of one and two points, and the secrets two runs of   *)
(* the setup may draw.                                                     *)
(***************************************************************************)
EXTENDS ParamsKzg, TLC

CONSTANTS
  s1, s2,
  Parts \* "params", "keys" or both

VARIABLES which, fileJob, file, section, position, got, repr, returned, fileStage

OneSecret  == {s1}
TwoSecrets == {s1, s2}
MoveAgain  == {"move_again"}

-----------------------------------------------------------------------------
(* KeyFile: a key of a circuit with two fixed columns and three with copies,
   two rows and a coset of four, and a key of one without columns. *)
Values(seed, n) == [i \in 1 .. n |-> seed * 10 + i]
Vector(seed, columns, n) == [c \in 1 .. columns |-> Values(10 * seed + c, n)]
KeyOf(fixed, copied) ==
  [k |-> 1, fixed |-> Values(1, fixed), permutation |-> Values(2, copied),
   l0 |-> Values(3, 4), l_last |-> Values(4, 4), l_active_row |-> Values(5, 4),
   fixed_values |-> Vector(6, fixed, 2), fixed_polys |-> Vector(7, fixed, 2), fixed_cosets |-> Vector(8, fixed, 4),
   permutations |-> Vector(9, copied, 2), polys |-> Vector(10, copied, 2), cosets |-> Vector(11, copied, 4)]

Formats == {<<"Processed", "Processed">>} \cup ({"RawBytes", "RawBytesUnchecked"} \X {"RawBytes", "RawBytesUnchecked"})
KeyJob(key, proving, formats, columns) ==
  [key |-> key, proving |-> proving, format |-> formats[1], reads |-> formats[2], columns |-> columns]
MCFileJobs ==
  {KeyJob(KeyOf(2, 3), FALSE, formats, columns) : formats \in Formats, columns \in 1 .. 4}
  \cup {KeyJob(KeyOf(size[1], size[2]), TRUE, formats, size[2]) : size \in {<<2, 3>>, <<0, 0>>}, formats \in Formats}

KF == INSTANCE KeyFile WITH
        MaxSize <- 28, FileJobs <- MCFileJobs, fileJob <- fileJob, file <- file, section <- section,
        position <- position, got <- got, repr <- repr, returned <- returned, fileStage <- fileStage
keyFile == <<fileJob, file, section, position, got, repr, returned, fileStage>>

-----------------------------------------------------------------------------
MCInit ==
  /\ Init /\ KF!FileInit /\ which \in Parts
  /\ which # "keys" => fileJob = KeyJob(KeyOf(0, 0), TRUE, <<"Processed", "Processed">>, 0)

ParamsStep == which = "params" /\ Next /\ UNCHANGED <<keyFile, which>>
KeyStep    == which = "keys" /\ KF!FileNext /\ UNCHANGED <<vars, which>>
(* A key that is read is the end. *)
KeyDone    == which = "keys" /\ returned # "" /\ UNCHANGED <<vars, keyFile, which>>

MCSpec == MCInit /\ [][ParamsStep \/ KeyStep \/ KeyDone]_<<vars, keyFile, which>>

(* What is written to a file to its end is read back as it was: parameters,
   and keys of either kind. *)
FilesReadBack == WrittenReadsBack /\ KF!KeysReadBack
=============================================================================
