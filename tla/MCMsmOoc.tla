------------------------------ MODULE MCMsmOoc -------------------------------
(***************************************************************************)
(* MsmOoc for TLC: three records in blocks of two, so that the last block  *)
(* is shorter than the others; 2-bit windows over 3-bit scalars, so that   *)
(* the top window is partial; two threads.                                 *)
(***************************************************************************)
EXTENDS MsmOoc

(* Scalars with a zero digit, equal digits in both windows and every digit. *)
MCScalars == {0, 2, 3, 5, 7}
=============================================================================
