---------------------------- MODULE MCQuotientDisk ---------------------------
(***************************************************************************)
(* QuotientDisk for TLC.                                                   *)
(***************************************************************************)
EXTENDS QuotientDisk

CONSTANTS p1, p2, d1, d2

(* Each prover has a directory of its own. *)
OwnDirs == [p \in Provers |-> IF p = p1 THEN d1 ELSE d2]

(* SS_OOC_DIR unset: every prover uses the default. *)
SameDir == [p \in Provers |-> d1]

(* What an interrupted run of a larger circuit may have left: a name a run
   uses, and one it does not. *)
MCLeftovers == {<<"adv", 0, 7>>, Values}
=============================================================================
