----------------------------- MODULE PowersOfTwo -----------------------------
(***************************************************************************)
(* The shifts of the code as arithmetic on naturals.  1 << k is Pow2[k],   *)
(* a scalar shifted right by k bits is Shr(s, k), and the w-th c-bit digit *)
(* of a scalar is Digit(s, w, c).  Pow2 is a recursive function, so that   *)
(* its properties can be proved (CommonLemmas).                            *)
(***************************************************************************)
EXTENDS Naturals

Pow2[k \in Nat] == IF k = 0 THEN 1 ELSE 2 * Pow2[k - 1]

(* The bits of s from position k upward. *)
Shr(s, k) == s \div Pow2[k]

(***************************************************************************)
(* digit(bits, w, c): the loop of the code ORs bit w*c+k of the scalar     *)
(* into position k of the digit, for k < c; bits past the end of the       *)
(* representation are zero, as they are here because s < 2^(number of      *)
(* bits).                                                                  *)
(***************************************************************************)
Digit(s, w, c) == Shr(s, w * c) % Pow2[c]
=============================================================================
