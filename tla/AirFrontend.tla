----------------------------- MODULE AirFrontend -----------------------------
(***************************************************************************)
(* The Plonky3 frontend (p3_frontend): the constraints an AIR asserts are  *)
(* recorded as expressions over two rows, compiled to gates and copies,    *)
(* with fixed columns that say where the first, the last and the other     *)
(* rows of the trace are; then the witness and the public inputs are made  *)
(* from a trace, and check_witness (halo2_debug) says whether they satisfy *)
(* the circuit.  An AIR has no lookups, shuffles or challenges.            *)
(*                                                                         *)
(* An expression is <<"cell", column, is_next>>, <<"public", index>>,      *)
(* <<"location", "first" | "last" | "transition">>, <<"constant", x>>,     *)
(* <<"add", a, b>>, <<"sub", a, b>>, <<"neg", a>> or <<"mul", a, b>>.       *)
(* Columns and publics count from 1, rows from 0.                          *)
(***************************************************************************)
EXTENDS Integers, Sequences, SequencesExt

CONSTANTS
  AirModulus, \* the field: integers modulo a prime
  AirJobs,    \* an AIR, parameters and a trace
  Blinder(_, _) \* what check_witness draws for a column and a blinding row

VARIABLES
  airJob,
  constraints, \* of the builder
  airCs,       \* gates, copies and the columns that take part in them
  compiledTo,  \* how many constraints are compiled
  airFixed, airCopies, \* the preprocessing
  airWitness, airPublic,
  airStage

airVars == <<airJob, constraints, airCs, compiledTo, airFixed, airCopies, airWitness, airPublic, airStage>>

Mod(x) == x % AirModulus
TraceSize   == airJob.size
CircuitRows == 0 .. airJob.n - 1

-----------------------------------------------------------------------------
(* symbolic_expression.rs: the operators leave out neutral operands.       *)
RECURSIVE Symbolic(_), HasPublic(_), AirValue(_, _)

IsNumber(e, x) == e[1] = "constant" /\ e[2] = x
ZeroConstant == <<"constant", 0>>

SymbolicAdd(a, b) == IF IsNumber(b, 0) THEN a ELSE IF IsNumber(a, 0) THEN b ELSE <<"add", a, b>>
SymbolicSub(a, b) == <<"sub", a, b>>
SymbolicNeg(a)    == <<"neg", a>>
SymbolicMul(a, b) ==
  IF IsNumber(a, 0) \/ IsNumber(b, 0) THEN ZeroConstant ELSE IF IsNumber(b, 1) THEN a ELSE <<"mul", a, b>>

(* What an AIR's arithmetic on variables records. *)
Symbolic(e) ==
  CASE e[1] = "add" -> SymbolicAdd(Symbolic(e[2]), Symbolic(e[3]))
    [] e[1] = "sub" -> SymbolicSub(Symbolic(e[2]), Symbolic(e[3]))
    [] e[1] = "mul" -> SymbolicMul(Symbolic(e[2]), Symbolic(e[3]))
    [] e[1] = "neg" -> SymbolicNeg(Symbolic(e[2]))
    [] OTHER        -> e

AssertZero ==
  /\ airStage = "eval" /\ Len(constraints) < Len(airJob.air)
  /\ constraints' = Append(constraints, Symbolic(airJob.air[Len(constraints) + 1]))
  /\ UNCHANGED <<airJob, airCs, compiledTo, airFixed, airCopies, airWitness, airPublic, airStage>>

-----------------------------------------------------------------------------
(* compile_circuit_cs *)
(* fault: every constraint is taken for one that its location switches off *)
DisabledBySome(e) == e

DisableInUnusableRows(e) ==
  IF e[1] = "mul" /\ e[2][1] = "location" THEN e
  ELSE SymbolicMul(SymbolicAdd(<<"location", "transition">>, <<"location", "last">>), e)

(* In the first or last row, a cell of this row less a public value. *)
IsCopyPublic(e) ==
  /\ e[1] = "mul" /\ e[2] \in {<<"location", "first">>, <<"location", "last">>}
  /\ e[3][1] = "sub" /\ e[3][2][1] = "cell" /\ ~e[3][2][3] /\ e[3][3][1] = "public"
CopyPublic(e) == [column |-> e[3][2][2], location |-> e[2][2], public |-> e[3][3][2]]

(* sym_to_expr panics at a public value that is left. *)
HasPublic(e) ==
  CASE e[1] = "public"               -> TRUE
    [] e[1] \in {"add", "sub", "mul"} -> HasPublic(e[2]) \/ HasPublic(e[3])
    [] e[1] = "neg"                  -> HasPublic(e[2])
    [] OTHER                         -> FALSE

Constraint == constraints[compiledTo + 1]
Compiles ==
  /\ airStage = "eval" /\ Len(constraints) = Len(airJob.air) /\ compiledTo < Len(constraints)
  /\ UNCHANGED <<airJob, constraints, airFixed, airCopies, airWitness, airPublic>>

CompileCopy ==
  /\ Compiles /\ IsCopyPublic(Constraint)
  /\ LET copy == CopyPublic(Constraint)
     IN  airCs' = [airCs EXCEPT !.copyPublic = Append(@, copy),
                                !.columns = IF Contains(@, <<"advice", copy.column>>) THEN @
                                            ELSE Append(@, <<"advice", copy.column>>)]
  /\ compiledTo' = compiledTo + 1 /\ UNCHANGED airStage

CompileGate ==
  /\ Compiles /\ ~IsCopyPublic(Constraint)
  /\ IF HasPublic(Constraint) THEN airStage' = "panic" /\ UNCHANGED <<airCs, compiledTo>>
     ELSE /\ airCs' = [airCs EXCEPT !.gates =
                         Append(@, IF airJob.disableZk THEN Constraint ELSE DisableInUnusableRows(Constraint))]
          /\ compiledTo' = compiledTo + 1 /\ UNCHANGED airStage

FinishCs ==
  /\ airStage = "eval" /\ Len(constraints) = Len(airJob.air) /\ compiledTo = Len(constraints)
  /\ airCs' = IF airCs.copyPublic = << >> THEN airCs
              ELSE [airCs EXCEPT !.columns = Append(@, <<"instance", 1>>), !.instanceColumns = 1]
  /\ airStage' = "preprocess"
  /\ UNCHANGED <<airJob, constraints, compiledTo, airFixed, airCopies, airWitness, airPublic>>

-----------------------------------------------------------------------------
(* compile_preprocessing, trace_to_wit, get_public_inputs *)
RowOfLocation(location) == IF location = "first" THEN 0 ELSE TraceSize - 1
AirRowsOf(location) ==
  CASE location = "first"      -> {0}
    [] location = "last"       -> {TraceSize - 1}
    [] location = "transition" -> 0 .. TraceSize - 2

CompilePreprocessing ==
  /\ airStage = "preprocess" /\ airStage' = "witness"
  /\ airFixed' = [location \in {"first", "last", "transition"} |->
                    [row \in CircuitRows |-> IF row \in AirRowsOf(location) THEN 1 ELSE 0]]
  /\ airCopies' = [k \in DOMAIN airCs.copyPublic |->
                     LET copy == airCs.copyPublic[k]
                     IN  <<copy.column, RowOfLocation(copy.location), copy.public - 1>>]
  /\ UNCHANGED <<airJob, constraints, airCs, compiledTo, airWitness, airPublic>>

TraceToWit(trace) ==
  [column \in 1 .. airJob.width |->
     [row \in CircuitRows |-> IF row < Len(trace) THEN trace[row + 1][column] ELSE 0]]

(* The cell copied last to a public value is its value; one that is copied to
   none is zero. *)
GetPublicInputs(witness) ==
  IF airJob.publics = 0 THEN << >>
  ELSE << FoldLeft(LAMBDA values, copy : [values EXCEPT ![copy.public] =
                                            witness[copy.column][RowOfLocation(copy.location)]],
                   [k \in 1 .. airJob.publics |-> 0], airCs.copyPublic) >>

MakeWitness ==
  /\ airStage = "witness" /\ airStage' = "check"
  /\ airWitness' = TraceToWit(airJob.trace)
  /\ airPublic' = IF airJob.claim = << >> THEN GetPublicInputs(TraceToWit(airJob.trace)) ELSE <<airJob.claim>>
  /\ UNCHANGED <<airJob, constraints, airCs, compiledTo, airFixed, airCopies>>

-----------------------------------------------------------------------------
(* check_witness: every gate on every row, blinding rows too. *)
AirUsable  == airJob.n - airJob.blinding
AirUnblinded == IF airJob.disableZk THEN 1 .. airJob.width ELSE {}
Rotated(row) == IF row + 1 >= airJob.n THEN row + 1 - airJob.n ELSE row + 1

AdviceAt(column, row) ==
  IF row >= AirUsable /\ column \notin AirUnblinded THEN Mod(Blinder(column, row - AirUsable))
  ELSE airWitness[column][row]

AirValue(e, row) ==
  CASE e[1] = "cell"     -> AdviceAt(e[2], IF e[3] THEN Rotated(row) ELSE row)
    [] e[1] = "location" -> airFixed[e[2]][row]
    [] e[1] = "constant" -> e[2]
    [] e[1] = "add"      -> Mod(AirValue(e[2], row) + AirValue(e[3], row))
    [] e[1] = "sub"      -> Mod(AirValue(e[2], row) - AirValue(e[3], row))
    [] e[1] = "neg"      -> Mod(0 - AirValue(e[2], row))
    [] e[1] = "mul"      -> Mod(AirValue(e[2], row) * AirValue(e[3], row))

GatesPass  == \A g \in DOMAIN airCs.gates, row \in CircuitRows : AirValue(airCs.gates[g], row) = 0
CopiesPass == \A k \in DOMAIN airCopies :
                AdviceAt(airCopies[k][1], airCopies[k][2]) = airPublic[1][airCopies[k][3] + 1]

CheckWitness ==
  /\ airStage = "check"
  /\ airStage' = IF GatesPass /\ CopiesPass THEN "satisfied" ELSE "unsatisfied"
  /\ UNCHANGED <<airJob, constraints, airCs, compiledTo, airFixed, airCopies, airWitness, airPublic>>

-----------------------------------------------------------------------------
AirInit ==
  /\ airJob \in AirJobs /\ airStage = "eval" /\ constraints = << >> /\ compiledTo = 0
  /\ airCs = [gates |-> << >>, copyPublic |-> << >>, columns |-> << >>, instanceColumns |-> 0]
  /\ airFixed = << >> /\ airCopies = << >> /\ airWitness = << >> /\ airPublic = << >>

AirNext ==
  \/ AssertZero \/ CompileCopy \/ CompileGate \/ FinishCs \/ CompilePreprocessing
  \/ MakeWitness \/ CheckWitness

AirSpec == AirInit /\ [][AirNext]_airVars

-----------------------------------------------------------------------------
(* What an AIR means: its constraints, as written, vanish on every row of the
   trace, where the next row of the last is the row after it in the columns. *)
RECURSIVE Meaning(_, _)
Meaning(e, row) ==
  CASE e[1] = "cell"     -> AdviceAt(e[2], IF e[3] THEN Rotated(row) ELSE row)
    [] e[1] = "public"   -> airPublic[1][e[2]]
    [] e[1] = "location" -> IF row \in CASE e[2] = "first" -> {0}
                                         [] e[2] = "last" -> {TraceSize - 1}
                                         [] OTHER -> 0 .. TraceSize - 2 THEN 1 ELSE 0
    [] e[1] = "constant" -> e[2]
    [] e[1] = "add"      -> Mod(Meaning(e[2], row) + Meaning(e[3], row))
    [] e[1] = "sub"      -> Mod(Meaning(e[2], row) - Meaning(e[3], row))
    [] e[1] = "neg"      -> Mod(0 - Meaning(e[2], row))
    [] e[1] = "mul"      -> Mod(Meaning(e[2], row) * Meaning(e[3], row))

AirHolds(rows) == \A k \in DOMAIN airJob.air, row \in rows : Meaning(airJob.air[k], row) = 0

(* p3_frontend/lib.rs: a witness satisfies the compiled circuit exactly if the
   trace satisfies the AIR with these public values, whatever the rows of
   blinding hold and whatever the trace has after its end.  Without
   zero-knowledge nothing switches a constraint off after the end of a trace
   that is shorter than the circuit. *)
AirKept ==
  airStage \in {"satisfied", "unsatisfied"} =>
    LET rows == IF airJob.disableZk THEN CircuitRows ELSE 0 .. TraceSize - 1
    IN  airStage = "satisfied" <=> AirHolds(rows)
=============================================================================
