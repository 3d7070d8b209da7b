------------------------------ MODULE Synthesis ------------------------------
(***************************************************************************)
(* compile_circuit and the permutation part of keygen: a circuit's         *)
(* statements are run by a floor planner (SimpleFloorPlanner or V1) over   *)
(* the keygen Assembly, the selectors are compressed or converted, and the *)
(* copies become a permutation.                                            *)
(*                                                                         *)
(* A circuit is a sequence of statements, [region |-> calls] and           *)
(* [table |-> cells]; a cell a region refers to is <<back, column, offset>>, *)
(* back regions before the one that is running.  Only what keygen sees is  *)
(* modelled: advice cells have no value.                                   *)
(***************************************************************************)
EXTENDS SlotIn, CopyConstraints, SelectorCompression

CONSTANTS
  N,               \* rows
  UsableRows,      \* n - (blinding_factors + 1)
  Equality,        \* columns with equality enabled
  ConstantColumns, \* fixed columns constants may go to, in order
  MaxDegree,       \* the degree of the constraint system
  Circuits         \* what may be compiled: planner, compress, degrees, statements

ASSUME SynthesisAssumption ==
  /\ N \in Nat /\ UsableRows \in 0 .. N
  /\ Cells = Equality \X (0 .. N - 1)
  /\ Range(ConstantColumns) \subseteq Fixed

VARIABLES
  circuit,
  pc,
  at,      \* the statement that runs
  step,    \* the call of it that is next
  regions, \* the start of every region placed so far
  ends,    \* SingleChipLayouter::columns
  allocs,  \* V1: the allocations of a column
  pending, \* constants to assign, with the cells they are for
  table,   \* the table under way: column -> its default value and rows
  used,    \* table columns of earlier tables
  fixed,   \* Assembly::fixed
  enabled, \* Assembly::selectors
  columns  \* the selector columns: the combinations

layout == <<at, step, regions, ends, allocs, pending, table, used>>
assembly == <<fixed, enabled, copies>>
vars == <<circuit, pc, layout, assembly, columns, copyVars>>

V1 == circuit.planner = "v1"
Statements == circuit.statements
IsRegion(s) == "region" \in DOMAIN s
RegionStatements == SelectSeq(Statements, IsRegion)
Shapes == [r \in DOMAIN RegionStatements |-> Shape(RegionStatements[r].region)]
Order  == BiggestFirst(Shapes)

(* The number of the region that runs, and the row of a cell it names.     *)
Current == Cardinality({i \in 1 .. at : IsRegion(Statements[i])})
RowOf(cell) == regions[Current - cell[1]] + cell[3]

-----------------------------------------------------------------------------
Init ==
  /\ circuit \in Circuits
  /\ pc = IF circuit.planner = "v1" THEN "plan" ELSE "next"
  /\ at = 0 /\ step = 1
  /\ regions = << >>
  /\ ends = [c \in RegionColumns |-> 0]
  /\ allocs = [c \in RegionColumns |-> {}]
  /\ pending = << >> /\ table = << >> /\ used = {}
  /\ fixed = [c \in Fixed |-> [row \in 0 .. N - 1 |-> 0]]
  /\ enabled = [s \in Selectors |-> {}]
  /\ copies = << >> /\ columns = << >>
  /\ CopyInit

Error == pc' = "error" /\ UNCHANGED <<circuit, layout, assembly, columns, copyVars>>

(* fault: the first unusable row is taken for the last usable one *)
UsableInclusive(row) == row <= UsableRows

(* Assembly::assign_fixed, copy and enable_selector look at the row; copy  *)
(* also at the columns.                                                    *)
Usable(row) == row < UsableRows
MayCopy(c, row, d, row2) == Usable(row) /\ Usable(row2) /\ c \in Equality /\ d \in Equality

(* The copy is appended, or nothing is. *)
Copied(c, row, d, row2) == copies' = Append(copies, <<<<c, row>>, <<d, row2>>>>)

-----------------------------------------------------------------------------
(* V1: the measurement pass has seen the regions; slot_in gives the k-th   *)
(* of them, biggest advice area first, its place.  regions is filled in    *)
(* that order and put back in the order of the circuit at the end.         *)
PlanRegion ==
  LET k     == Len(regions) + 1
      shape == Shapes[Order[k]]
      start == FirstFit(allocs, SortedColumns(shape), shape.rows)
  IN  /\ pc = "plan" /\ k <= Len(Shapes)
      /\ regions' = Append(regions, start)
      /\ allocs' = [c \in RegionColumns |->
                      IF c \in shape.cols THEN Insert(allocs[c], start, shape.rows)
                                          ELSE allocs[c]]
      /\ UNCHANGED <<circuit, pc, at, step, ends, pending, table, used, assembly, columns, copyVars>>

EndPlan ==
  /\ pc = "plan" /\ Len(regions) = Len(Shapes)
  /\ regions' = [r \in DOMAIN Shapes |->
                   regions[CHOOSE k \in DOMAIN Order : Order[k] = r]]
  /\ pc' = "next"
  /\ UNCHANGED <<circuit, at, step, ends, allocs, pending, table, used, assembly, columns, copyVars>>

(* fault: only the first column of the shape is looked at *)
StartOfFirst(shape) == IF shape.cols = {} THEN 0 ELSE ends[Min(shape.cols)]

(* SingleChipLayouter: the first row after every use of the columns.       *)
StartOf(shape) == Max({0} \cup {ends[c] : c \in shape.cols})

NextStatement ==
  /\ pc = "next" /\ at < Len(Statements)
  /\ at' = at + 1 /\ step' = 1
  /\ LET s     == Statements[at + 1]
         shape == Shape(s.region)
         start == StartOf(shape)
     IN  IF ~IsRegion(s) THEN pc' = "table" /\ table' = << >> /\ UNCHANGED <<regions, ends, pending>>
         ELSE /\ pc' = "region" /\ UNCHANGED table
              /\ IF V1 THEN UNCHANGED <<regions, ends, pending>>
                 ELSE /\ regions' = Append(regions, start)
                      /\ ends' = [c \in RegionColumns |-> IF c \in shape.cols THEN start + shape.rows
                                                                            ELSE ends[c]]
                      /\ pending' = << >>
  /\ UNCHANGED <<circuit, allocs, used, assembly, columns, copyVars>>

(* The last statement is over; V1 assigns its constants now.               *)
EndStatements ==
  /\ pc = "next" /\ at = Len(Statements)
  /\ pc' = IF V1 THEN "constants" ELSE "compile"
  /\ step' = 1
  /\ UNCHANGED <<circuit, at, regions, ends, allocs, pending, table, used, assembly, columns, copyVars>>

-----------------------------------------------------------------------------
(* One call of a region's closure.                                         *)
Op == Statements[at].region[step]
Calling(name) == pc = "region" /\ step <= Len(Statements[at].region) /\ Op.op = name
Called == step' = step + 1 /\ UNCHANGED <<circuit, pc, at, regions, ends, allocs, table, used, columns, copyVars>>

Start == regions[Current]

EnableSelector ==
  /\ Calling("selector")
  /\ IF ~Usable(Start + Op.at) THEN Error
     ELSE /\ Called
          /\ enabled' = [enabled EXCEPT ![Op.col] = @ \cup {Start + Op.at}]
          /\ UNCHANGED <<fixed, copies, pending>>

AssignAdvice == Calling("advice") /\ Called /\ UNCHANGED <<assembly, pending>>

AssignFixed ==
  /\ Calling("fixed")
  /\ IF ~Usable(Start + Op.at) THEN Error
     ELSE /\ Called
          /\ fixed' = [fixed EXCEPT ![Op.col][Start + Op.at] = Op.value]
          /\ UNCHANGED <<enabled, copies, pending>>

AssignAdviceFromConstant ==
  /\ Calling("constant")
  /\ Called
  /\ pending' = Append(pending, [value |-> Op.value, cell |-> <<Op.col, Start + Op.at>>])
  /\ UNCHANGED assembly

AssignAdviceFromInstance ==
  /\ Calling("instance")
  /\ IF ~MayCopy(Op.col, Start + Op.at, Instance, Op.row) THEN Error
     ELSE /\ Called
          /\ Copied(Op.col, Start + Op.at, Instance, Op.row)
          /\ UNCHANGED <<fixed, enabled, pending>>

ConstrainEqual ==
  /\ Calling("equal")
  /\ IF ~MayCopy(Op.left[2], RowOf(Op.left), Op.right[2], RowOf(Op.right)) THEN Error
     ELSE /\ Called
          /\ Copied(Op.left[2], RowOf(Op.left), Op.right[2], RowOf(Op.right))
          /\ UNCHANGED <<fixed, enabled, pending>>

EndRegion ==
  /\ pc = "region" /\ step > Len(Statements[at].region)
  /\ pc' = IF V1 THEN "next" ELSE "constants"
  /\ step' = 1
  /\ UNCHANGED <<circuit, at, regions, ends, allocs, pending, table, used, assembly, columns, copyVars>>

-----------------------------------------------------------------------------
(* Constants: V1 has a list of free cells in the constants columns, the    *)
(* single-pass planner goes on below what the first of them holds.         *)
Positions == ConstantPositions(allocs, ConstantColumns)

EnoughConstants ==
  IF V1 THEN Len(Positions) >= Len(pending)
        ELSE ConstantColumns # << >> \/ pending = << >>

ConstantCell == IF V1 THEN Positions[step] ELSE <<ConstantColumns[1], ends[ConstantColumns[1]]>>

AssignConstant ==
  /\ pc = "constants" /\ step <= Len(pending)
  /\ IF ~EnoughConstants \/ ~Usable(ConstantCell[2]) THEN Error
     ELSE LET cell == ConstantCell
              for  == pending[step].cell
          IN  /\ fixed' = [fixed EXCEPT ![cell[1]][cell[2]] = pending[step].value]
              /\ ends' = IF V1 THEN ends ELSE [ends EXCEPT ![cell[1]] = @ + 1]
              /\ IF MayCopy(cell[1], cell[2], for[1], for[2])
                   THEN Copied(cell[1], cell[2], for[1], for[2]) /\ pc' = pc
                   ELSE pc' = "error" /\ copies' = copies
              /\ step' = step + 1
              /\ UNCHANGED <<circuit, at, regions, allocs, pending, table, used, enabled, columns, copyVars>>

EndConstants ==
  /\ pc = "constants" /\ step > Len(pending)
  /\ pc' = IF V1 THEN "compile" ELSE "next"
  /\ UNCHANGED <<circuit, layout, assembly, columns, copyVars>>

-----------------------------------------------------------------------------
(* SimpleTableLayouter::assign_cell: [col, at, value].                     *)
TableCell ==
  LET s == Statements[at].table[step]
      entry == IF s.col \in DOMAIN table THEN table[s.col] ELSE [default |-> None, rows |-> {}]
  IN  /\ pc = "table" /\ step <= Len(Statements[at].table)
      /\ IF s.col \in used \/ ~Usable(s.at) \/ (s.at = 0 /\ entry.default # None)
           THEN Error
           ELSE /\ fixed' = [fixed EXCEPT ![s.col][s.at] = s.value]
                /\ table' = [c \in DOMAIN table \cup {s.col} |->
                               IF c = s.col
                                 THEN [default |-> IF s.at = 0 THEN s.value ELSE entry.default,
                                       rows    |-> entry.rows \cup {s.at}]
                                 ELSE table[c]]
                /\ step' = step + 1
                /\ UNCHANGED <<circuit, pc, at, regions, ends, allocs, pending, used, enabled, copies,
                               columns, copyVars>>

Lengths == {Cardinality(table[c].rows) : c \in DOMAIN table}

(* compute_table_lengths: every column has its rows 0 .. len - 1 and all   *)
(* have the same length.                                                   *)
Even ==
  /\ \A c \in DOMAIN table : /\ table[c].default # None
                             /\ table[c].rows = 0 .. Cardinality(table[c].rows) - 1
  /\ Cardinality(Lengths) <= 1

EndTable ==
  /\ pc = "table" /\ step > Len(Statements[at].table)
  /\ IF ~Even THEN Error
     ELSE /\ used' = used \cup DOMAIN table
          /\ pc' = "fill"
          /\ UNCHANGED <<circuit, at, step, regions, ends, allocs, pending, table, assembly, columns, copyVars>>

(* fill_from_row: the default value in the usable rows from first_unused on. *)
FillFrom(c, len) == [row \in 0 .. N - 1 |->
                       IF row >= len /\ Usable(row) THEN table[c].default ELSE fixed[c][row]]

(* The columns come in the order of a hash map.  A table as long as the    *)
(* usable rows is an error, although there is nothing left to fill.        *)
FillColumn ==
  /\ pc = "fill"
  /\ \E c \in DOMAIN table :
       IF ~Usable(Max(Lengths)) THEN Error
       ELSE /\ fixed' = [fixed EXCEPT ![c] = FillFrom(c, Max(Lengths))]
            /\ table' = [d \in DOMAIN table \ {c} |-> table[d]]
            /\ UNCHANGED <<circuit, pc, at, step, regions, ends, allocs, pending, used, enabled, copies,
                           columns, copyVars>>

EndFill ==
  /\ pc = "fill" /\ DOMAIN table = {}
  /\ pc' = "next"
  /\ UNCHANGED <<circuit, layout, assembly, columns, copyVars>>

-----------------------------------------------------------------------------
(* compress_selectors, or one column for each.                             *)
Descriptions ==
  [i \in 1 .. NSelectors |-> LET s == NAdvice + NFixed + i
                             IN  [sel |-> s, rows |-> enabled[s], degree |-> circuit.degrees[i]]]

ConvertSelectors ==
  /\ pc = "compile"
  /\ columns' = IF circuit.compress THEN Combinations(Descriptions, MaxDegree)
                                    ELSE [i \in DOMAIN Descriptions |-> <<Descriptions[i]>>]
  /\ pc' = "permute"
  /\ UNCHANGED <<circuit, layout, assembly, copyVars>>

(* keygen: Assembly::new_from_assembly_mid. *)
Permute ==
  /\ pc = "permute" /\ CopyNext
  /\ UNCHANGED <<circuit, pc, layout, fixed, enabled, columns>>

Finish ==
  /\ pc = "permute" /\ ~walk.active /\ merged = Len(copies)
  /\ pc' = "done"
  /\ UNCHANGED <<circuit, layout, assembly, columns, copyVars>>

Region == \/ EnableSelector \/ AssignAdvice \/ AssignFixed \/ AssignAdviceFromConstant
          \/ AssignAdviceFromInstance \/ ConstrainEqual \/ EndRegion

Next ==
  \/ PlanRegion \/ EndPlan \/ NextStatement \/ EndStatements
  \/ Region \/ AssignConstant \/ EndConstants
  \/ TableCell \/ EndTable \/ FillColumn \/ EndFill
  \/ ConvertSelectors \/ Permute \/ Finish

Spec == Init /\ [][Next]_vars

-----------------------------------------------------------------------------
(* What the circuit asks for.                                              *)
Referred(r, cell) == <<cell[2], regions[r - cell[1]] + cell[3]>>

Calls(name) == UNION {{<<r, i>> : i \in {j \in DOMAIN RegionStatements[r].region :
                                            RegionStatements[r].region[j].op = name}} :
                      r \in DOMAIN RegionStatements}
CallAt(c)   == RegionStatements[c[1]].region[c[2]]
CellOf(c)   == <<CallAt(c).col, regions[c[1]] + CallAt(c).at>>

RequestedEqual ==
  {<<Referred(c[1], CallAt(c).left), Referred(c[1], CallAt(c).right)>> : c \in Calls("equal")}
    \cup {<<CellOf(c), <<Instance, CallAt(c).row>>>> : c \in Calls("instance")}

(* The cells of the k-th region placed.                                    *)
Rectangle(k) ==
  LET shape == Shapes[IF pc = "plan" THEN Order[k] ELSE k]
  IN  shape.cols \X (regions[k] .. regions[k] + shape.rows - 1)

ConstantCopies == {i \in DOMAIN copies : copies[i][1][1] \in Range(ConstantColumns)}

-----------------------------------------------------------------------------
TypeOK ==
  /\ pc \in {"plan", "next", "region", "constants", "table", "fill", "compile", "permute",
             "done", "error"}
  /\ at \in 0 .. Len(Statements) /\ step \in Nat \ {0}
  /\ regions \in Seq(Nat) /\ Len(regions) <= Len(Shapes)
  /\ ends \in [RegionColumns -> Nat]
  /\ fixed \in [Fixed -> [0 .. N - 1 -> Nat]]
  /\ enabled \in [Selectors -> SUBSET (0 .. UsableRows - 1)]
  /\ copies \in Seq(Cells \X Cells) /\ merged \in 0 .. Len(copies)
  /\ mapping \in [Cells -> Cells] /\ aux \in [Cells -> Cells]

(* No two regions share a cell, no constant is put into a region or over
   another constant: at every moment of either planner. *)
CellsApart ==
  /\ \A j, k \in DOMAIN regions : j # k => Rectangle(j) \cap Rectangle(k) = {}
  /\ \A i \in ConstantCopies :
       /\ \A k \in DOMAIN regions : copies[i][1] \notin Rectangle(k)
       /\ \A j \in ConstantCopies : copies[i][1] = copies[j][1] => i = j

(* "Positions the regions starting at the earliest row for which none of the
   columns are in use, taking into account gaps between earlier regions"
   (v1/strategy.rs): from every earlier row the region would meet one that
   was placed before it. *)
EarliestFit ==
  pc = "plan" =>
    \A k \in DOMAIN regions : \A row \in 0 .. regions[k] - 1 :
      LET shape == Shapes[Order[k]]
      IN  \E j \in 1 .. k - 1 :
            Rectangle(j) \cap (shape.cols \X (row .. row + shape.rows - 1)) # {}

(* What a planner promises about where it puts things. *)
WellPlaced == CellsApart /\ EarliestFit

(* A selector's expression in the compiled circuit is non-zero on the rows
   where a region enabled it and nowhere else, and no gate exceeds the degree
   of the constraint system. *)
SelectorsKept ==
  \A i \in 1 .. NSelectors :
    LET s == Descriptions[i].sel
        rows == {CellOf(c)[2] : c \in {d \in Calls("selector") : CallAt(d).col = s}}
    IN  \E q \in DOMAIN columns : \E root \in DOMAIN columns[q] :
          /\ columns[q][root].sel = s
          /\ \A row \in 0 .. N - 1 :
               Replacement(Len(columns[q]), root, Assignment(columns[q], row)) # 0 <=> row \in rows
          /\ circuit.degrees[i] > 0 => circuit.degrees[i] - 1 + Len(columns[q]) <= MaxDegree

(* Two cells other than the constants' own are in one cycle exactly if the
   circuit asks for it, and a cell constrained to a constant is in the cycle
   of a fixed cell with that value. *)
EqualitiesKept ==
  LET own == {copies[i][1] : i \in ConstantCopies}
  IN  /\ {Cycle(x) \ own : x \in Cells \ own} = {C \ own : C \in Classes(SetToSeq(RequestedEqual))} \ {{}}
      /\ \A c \in Calls("constant") :
           \E x \in own : x \in Cycle(CellOf(c)) /\ fixed[x[1]][x[2]] = CallAt(c).value

(* Fixed cells hold what was assigned, and a table column repeats its first
   value from the end of the table to the last usable row. *)
FixedKept ==
  /\ \A c \in Calls("fixed") : fixed[CallAt(c).col][CellOf(c)[2]] = CallAt(c).value
  /\ \A s \in Range(SelectSeq(Statements, LAMBDA x : ~IsRegion(x))) :
       \A row \in 0 .. UsableRows - 1 : \A i \in DOMAIN s.table :
         fixed[s.table[i].col][row] \in
           {s.table[j].value : j \in {k \in DOMAIN s.table : s.table[k].col = s.table[i].col
                                 /\ s.table[k].at = IF \E l \in DOMAIN s.table : s.table[l].col = s.table[i].col
                                                                              /\ s.table[l].at = row
                                                    THEN row ELSE 0}}

(* The compiled circuit says what the circuit said: selectors, equalities,
   constants and fixed values survive the planner, the compression and the
   permutation, whose cycles are the classes of the copies after each one. *)
CircuitKept ==
  /\ pc \in {"permute", "done"} => CyclesAreClasses
  /\ pc = "done" => SelectorsKept /\ EqualitiesKept /\ FixedKept
=============================================================================
