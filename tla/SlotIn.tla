-------------------------------- MODULE SlotIn -------------------------------
(***************************************************************************)
(* Where regions go: the shape of a region (circuit/layouter.rs) and the   *)
(* strategy of the V1 floor planner (floor_planner/v1/strategy.rs), which  *)
(* sorts regions by advice area and gives each the first gap that all of   *)
(* its columns have.                                                       *)
(*                                                                         *)
(* A column is its rank in the order of RegionColumn: the instance column  *)
(* is 0, advice columns follow, then fixed columns, then selectors.        *)
(***************************************************************************)
EXTENDS Integers, Sequences, SequencesExt, FiniteSetsExt

CONSTANTS
  NAdvice, NFixed, NSelectors

Instance  == 0
Advice    == 1 .. NAdvice
Fixed     == NAdvice + 1 .. NAdvice + NFixed
Selectors == NAdvice + NFixed + 1 .. NAdvice + NFixed + NSelectors
RegionColumns == Advice \cup Fixed \cup Selectors

-----------------------------------------------------------------------------
(* A region is the sequence of the calls its closure makes.  All but "equal" *)
(* have a column and an offset; RegionShape counts those.                  *)
Assigns(ops) == {ops[i] : i \in {j \in DOMAIN ops : ops[j].op # "equal"}}

Shape(ops) ==
  [cols |-> {o.col : o \in Assigns(ops)},
   rows |-> Max({0} \cup {o.at + 1 : o \in Assigns(ops)})]

AdviceArea(shape) == Cardinality(shape.cols \cap Advice) * shape.rows

(* sort_by_cached_key is stable, and the result is reversed.               *)
BiggestFirst(shapes) ==
  SetToSortSeq(DOMAIN shapes,
    LAMBDA i, j : \/ AdviceArea(shapes[i]) > AdviceArea(shapes[j])
                  \/ AdviceArea(shapes[i]) = AdviceArea(shapes[j]) /\ i > j)

-----------------------------------------------------------------------------
None == -1

(* Allocations: a set of [start, length] ordered by start alone, so that a *)
(* second interval with the same start is not inserted.                    *)
Insert(alloc, start, length) ==
  IF \E a \in alloc : a.start = start THEN alloc
  ELSE alloc \cup {[start |-> start, length |-> length]}

Ordered(alloc) == SetToSortSeq(alloc, LAMBDA a, b : a.start < b.start)

UnboundedStart(alloc) ==
  IF alloc = {} THEN 0 ELSE LET a == Last(Ordered(alloc)) IN a.start + a.length

(* The unallocated intervals that meet [start, end), as <<from, to>>.      *)
FreeIntervals(alloc, start, end) ==
  LET scan(acc, a) ==
        IF end # None /\ a.start >= end THEN acc
        ELSE [row  |-> Max({acc.row, a.start + a.length}),
              free |-> IF acc.row < a.start THEN Append(acc.free, <<acc.row, a.start>>)
                                            ELSE acc.free]
      acc == FoldLeft(scan, [row |-> start, free |-> << >>], Ordered(alloc))
  IN  IF end = None \/ acc.row < end THEN Append(acc.free, <<acc.row, end>>) ELSE acc.free

NoFit == -2

(* fault: the last gap that fits, not the first *)
FirstFitLast(allocs, cols, length) ==
  Max({0} \cup {UnboundedStart(allocs[cols[i]]) : i \in DOMAIN cols})

(* first_fit_region: a gap of the first column, in it a gap of the second, *)
(* and so on; a gap in which the others find no room is given up.  The     *)
(* slack the code passes down is the end of the gap.                       *)
FirstFit(allocs, cols, length) ==
  LET fit[i \in 1 .. Len(cols) + 1, start \in Nat, end \in Nat \cup {None}] ==
        IF i > Len(cols) THEN start
        ELSE LET spaces == FreeIntervals(allocs[cols[i]], start, end)
                 row(k) == IF spaces[k][2] # None /\ spaces[k][2] - spaces[k][1] < length
                             THEN NoFit
                             ELSE fit[i + 1, spaces[k][1], spaces[k][2]]
                 good   == {k \in DOMAIN spaces : row(k) # NoFit}
             IN  IF good = {} THEN NoFit ELSE row(Min(good))
  IN  fit[1, 0, None]

SortedColumns(shape) == SetToSortSeq(shape.cols, <)

(* The rows below the last allocated one that a constants column has free. *)
ConstantPositions(allocs, columns) ==
  LET bound == Max({0} \cup {UnboundedStart(allocs[c]) : c \in DOMAIN allocs})
      cells(c) == FlattenSeq([k \in DOMAIN FreeIntervals(allocs[c], 0, bound) |->
                    LET space == FreeIntervals(allocs[c], 0, bound)[k]
                    IN  [x \in 1 .. space[2] - space[1] |-> <<c, space[1] + x - 1>>]])
  IN  FlattenSeq([k \in DOMAIN columns |-> cells(columns[k])])
=============================================================================
