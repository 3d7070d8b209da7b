--------------------------------- MODULE Msm ---------------------------------
(***************************************************************************)
(* What a multi-scalar multiplication over records on disk promises: one   *)
(* answer, which is Sum_i scalar_i * P_i if the files hold the first N     *)
(* records intact, and an error otherwise.                                 *)
(*                                                                         *)
(* The curve group is abstracted to the free abelian group on the N bases: *)
(* a point is the function that gives each base its multiplicity.  An      *)
(* equality proved here holds in every group the bases are mapped to, and  *)
(* in this group Sum_i scalar_i * P_i is the scalar vector itself.         *)
(***************************************************************************)
EXTENDS Naturals

CONSTANT N                 \* number of bases asked for

VARIABLES input,           \* the files: see MsmOoc
          result           \* what the call returned

Items == 0 .. N - 1

Zero == [i \in Items |-> 0]
Value == [i \in Items |-> input.scalars[i]]

Pending  == [status |-> "pending", point |-> Zero]
Failure  == [status |-> "err", point |-> Zero]
Point(p) == [status |-> "ok", point |-> p]

(* The first N records of both files are there and decode. *)
Complete == /\ input.baseRecs >= N
            /\ input.scalarRecs >= N
            /\ input.bad \cap Items = {}

Init == result = Pending

Return == /\ result = Pending
          /\ Complete
          /\ result' = Point(Value)
          /\ UNCHANGED input

Fail == /\ result = Pending
        /\ ~Complete
        /\ result' = Failure
        /\ UNCHANGED input

Next == Return \/ Fail

vars == <<input, result>>

Spec == Init /\ [][Next]_vars /\ WF_vars(Next)
=============================================================================
