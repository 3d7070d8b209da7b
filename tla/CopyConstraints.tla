--------------------------- MODULE CopyConstraints ---------------------------
(***************************************************************************)
(* permutation::keygen::Assembly: the copy constraints of a circuit become *)
(* a permutation of its cells whose cycles are the sets of cells that must *)
(* be equal.  Every cell has a distinguished element of its cycle in aux;  *)
(* a copy relabels the smaller cycle, cell by cell along the mapping, and  *)
(* then swaps two arrows.                                                  *)
(***************************************************************************)
EXTENDS Integers, Sequences, FiniteSets

CONSTANT
  Cells   \* the cells of the columns with equality enabled

ASSUME CellsAssumption == IsFiniteSet(Cells)

VARIABLES
  copies,  \* the copies of the circuit, pairs of cells, in order
  merged,  \* how many of them have been made
  mapping, \* the permutation
  aux,     \* the distinguished element of a cell's cycle
  sizes,   \* at a distinguished element, the length of its cycle
  walk     \* the relabelling under way: active, into, from, at

copyVars == <<merged, mapping, aux, sizes, walk>>

AtRest == [active |-> FALSE, into |-> << >>, from |-> << >>, at |-> << >>]

CopyInit ==
  /\ merged = 0
  /\ mapping = [x \in Cells |-> x]
  /\ aux = [x \in Cells |-> x]
  /\ sizes = [x \in Cells |-> 1]
  /\ walk = AtRest

Left  == copies[merged + 1][1]
Right == copies[merged + 1][2]

(* Both ends are in one cycle already. *)
Skip ==
  /\ ~walk.active /\ merged < Len(copies)
  /\ aux[Left] = aux[Right]
  /\ merged' = merged + 1
  /\ UNCHANGED <<mapping, aux, sizes, walk>>

(* The larger cycle takes the smaller one in. *)
Merge ==
  LET swap == sizes[aux[Left]] < sizes[aux[Right]]
      into == IF swap THEN aux[Right] ELSE aux[Left]
      from == IF swap THEN aux[Left] ELSE aux[Right]
  IN  /\ ~walk.active /\ merged < Len(copies)
      /\ aux[Left] # aux[Right]
      /\ sizes' = [sizes EXCEPT ![into] = @ + sizes[from]]
      /\ aux' = [aux EXCEPT ![from] = into]
      /\ walk' = [active |-> TRUE, into |-> into, from |-> from, at |-> mapping[from]]
      /\ UNCHANGED <<merged, mapping>>

Relabel ==
  /\ walk.active /\ walk.at # walk.from
  /\ aux' = [aux EXCEPT ![walk.at] = walk.into]
  /\ walk' = [walk EXCEPT !.at = mapping[@]]
  /\ UNCHANGED <<merged, mapping, sizes>>

(* fault: the right arrow is overwritten by itself *)
SwapHalf ==
  /\ walk.active /\ walk.at = walk.from
  /\ mapping' = [mapping EXCEPT ![Left] = mapping[Right]]
  /\ walk' = AtRest /\ merged' = merged + 1
  /\ UNCHANGED <<aux, sizes>>

Swap ==
  /\ walk.active /\ walk.at = walk.from
  /\ mapping' = [mapping EXCEPT ![Left] = mapping[Right], ![Right] = mapping[Left]]
  /\ walk' = AtRest /\ merged' = merged + 1
  /\ UNCHANGED <<aux, sizes>>

CopyNext == (Skip \/ Merge \/ Relabel \/ Swap) /\ UNCHANGED copies

CopySpec == copies \in Seq(Cells \X Cells) /\ CopyInit /\ [][CopyNext]_<<copies, copyVars>>

-----------------------------------------------------------------------------
(* The partition of the cells that a list of equalities generates.         *)
Joined(classes, p) ==
  LET both == {C \in classes : p[1] \in C \/ p[2] \in C}
  IN  (classes \ both) \cup {UNION both}

Classes(pairs) ==
  LET after[k \in 0 .. Len(pairs)] ==
        IF k = 0 THEN {{x} : x \in Cells} ELSE Joined(after[k - 1], pairs[k])
  IN  after[Len(pairs)]

Cycle(x) ==
  LET power[k \in 0 .. Cardinality(Cells)] == IF k = 0 THEN x ELSE mapping[power[k - 1]]
  IN  {power[k] : k \in 0 .. Cardinality(Cells)}

(* Between two copies, the cycles of the permutation are the classes of the
   copies made so far, aux tells them apart and sizes knows their lengths. *)
CyclesAreClasses ==
  ~walk.active =>
    \A C \in Classes(SubSeq(copies, 1, merged)) : \A x \in C :
      /\ Cycle(x) = C
      /\ {y \in Cells : aux[y] = aux[x]} = C
      /\ sizes[aux[x]] = Cardinality(C)
=============================================================================
