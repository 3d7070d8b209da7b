------------------------------ MODULE MCProving -------------------------------
(***************************************************************************)
(* Proving for TLC.                                                        *)
(***************************************************************************)
EXTENDS Proving

Q(type, col, rot) == <<type, col, rot>>
Gate(queries, degree) == [queries |-> queries, degree |-> degree]
Arg(queries, in, tab) == [queries |-> queries, input |-> in, table |-> tab]

(* Two phases, a challenge after the first only; an unblinded column; a lookup. *)
TwoPhases ==
  [adv |-> <<0, 1>>, chal |-> <<0>>, unblinded |-> {1}, ins |-> 1, minDegree |-> 1,
   gates |-> <<Gate(<<Q("advice", 1, 0), Q("advice", 2, 1), Q("instance", 1, 0)>>, 2)>>,
   lookups |-> <<Arg(<<Q("advice", 2, 0), Q("fixed", 1, 0)>>, 1, 1)>>, shuffles |-> << >>,
   perm |-> <<<<"advice", 1>>, <<"fixed", 1>>, <<"instance", 1>>>>]

(* One phase, three permutation sets, four queries of one column: seven    *)
(* blinding and control rows, so that eight rows are too few.              *)
ThreeSets ==
  [adv |-> <<0, 0>>, chal |-> << >>, unblinded |-> {2}, ins |-> 0, minDegree |-> 1,
   gates |-> <<Gate(<<Q("advice", 1, 0), Q("advice", 1, 1), Q("advice", 1, 2),
                      Q("advice", 1, 3)>>, 3)>>,
   lookups |-> << >>, shuffles |-> << >>,
   perm |-> <<<<"advice", 1>>, <<"advice", 2>>, <<"fixed", 1>>>>]

(* A shuffle, and a gate with rotations that meet when there are 8 rows.   *)
FarRotation ==
  [adv |-> <<0, 1>>, chal |-> <<1, 0>>, unblinded |-> {}, ins |-> 0, minDegree |-> 1,
   gates |-> <<Gate(<<Q("advice", 1, 0), Q("advice", 1, 8)>>, 2)>>,
   lookups |-> << >>, shuffles |-> <<Arg(<<Q("advice", 1, 0), Q("fixed", 1, -1)>>, 1, 1)>>,
   perm |-> << >>]

MCCircuits == {TwoPhases, ThreeSets, FarRotation}

(* One and two circuits; a wrong number of columns; a column too long.     *)
MCInstanceSets ==
  [circ \in MCCircuits |->
     IF circ.ins = 1 THEN {<<<<1>>>>, <<<<1>>, <<0>>>>, <<<<1, 1>>>>, <<<<9>>>>}
                     ELSE {<<<< >>>>, <<<< >>, << >>>>}]
=============================================================================
