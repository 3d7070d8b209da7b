-------------------------------- MODULE Graph --------------------------------
(***************************************************************************)
(* The expression compiler of plonk/evaluation.rs: GraphEvaluator turns the *)
(* expressions of a gate list, a lookup or a shuffle into a list of         *)
(* calculations without repetitions (Evaluator::new, add_expression,        *)
(* add_calculation) and evaluates the list row by row.                      *)
(*                                                                         *)
(* The recursion of add_expression over a tree is a stack machine that sees *)
(* the nodes operands first.  Every stack entry carries, next to the source *)
(* the code returns, what the expression is worth on every row: the meaning *)
(* the compiled list must keep.                                             *)
(***************************************************************************)
EXTENDS Integers, Sequences

CONSTANTS
  F, Zero, One, Two, Plus(_, _), Times(_, _), Neg(_),  \* the scalar field
  Size,       \* rows of the domain
  RotScale,   \* rows a rotation of 1 moves by
  Columns,    \* <<type, index>> of the columns an expression may query
  ColumnValues,      \* their values: column -> row -> F
  Rotations,  \* the rotations queried
  Scalars,    \* values of constants in expressions
  Challenges, \* values of the challenges
  Beta, Gamma, Theta, Y,
  Previous,   \* the quotient so far: row -> F
  Uses,       \* what is compiled: "gates", "lookup" or "shuffle"
  MaxLeaves, MaxNegations \* bounds, over all the expressions together

Lines == 0 .. Size - 1
ColumnTypes == {"fixed", "advice", "instance"}

ASSUME FieldAssumption ==
  /\ {Zero, One, Two} \subseteq F
  /\ \A a \in F : Neg(a) \in F /\ Plus(Zero, a) = a /\ Plus(a, a) = Times(Two, a)
                  /\ Times(Zero, a) = Zero /\ Times(One, a) = a
  /\ Neg(Zero) = Zero
  /\ \A a \in F : \A b \in F :
       /\ Plus(a, b) \in F /\ Times(a, b) \in F
       /\ Plus(a, b) = Plus(b, a) /\ Times(a, b) = Times(b, a)

ASSUME GraphAssumption ==
  /\ Size \in Nat \ {0} /\ RotScale \in Int /\ MaxLeaves \in Nat /\ MaxNegations \in Nat
  /\ Columns \subseteq ColumnTypes \X Nat
  /\ ColumnValues \in [Columns -> [Lines -> F]]
  /\ Rotations \subseteq Int /\ Scalars \subseteq F /\ Challenges \in Seq(F)
  /\ {Beta, Gamma, Theta, Y} \subseteq F /\ Previous \in [Lines -> F]
  /\ Uses \subseteq {"gates", "lookup", "shuffle"}

VARIABLES
  use,          \* what this graph is for
  stage,        \* "expressions", "gamma", "beta", "product", "rows"
  constants, rotations, calculations, \* the GraphEvaluator
  means,        \* history: per calculation its value on every row and, for a
                \* Horner sum, the partial sums
  stack,        \* the operands add_expression has returned
  leaves, negations, \* so far
  parts, chain, \* the list being compressed: sources, and the partial sums
  held,         \* compressed lists and what is made of them
  eval          \* the loop of evaluate

graph     == <<constants, rotations, calculations, means>>
bounds    == <<leaves, negations>>
graphVars == <<use, stage, graph, stack, bounds, parts, chain, held, eval>>

-----------------------------------------------------------------------------
(* ValueSource and Calculation.  Indices start at 1 where the code's start  *)
(* at 0; b is unused by unary calculations, and Horner(a, parts, b).        *)
Src(kind, index, rotation) == [kind |-> kind, index |-> index, rotation |-> rotation]
Const(i)        == Src("constant", i, 0)
Intermediate(i) == Src("intermediate", i, 0)
Scalar(kind)    == Src(kind, 0, 0)

Calc(op, a, b)            == [op |-> op, a |-> a, b |-> b, parts |-> << >>]
Horner(start, list, by)   == [op |-> "horner", a |-> start, b |-> by, parts |-> list]

(* The derived order between the two kinds of sources add_expression returns. *)
LessEq(a, b) == IF a.kind = b.kind THEN a.index <= b.index ELSE a.kind = "constant"

(* position, or push and the last index *)
Holds(list, x)    == \E i \in 1 .. Len(list) : list[i] = x
With(list, x)     == IF Holds(list, x) THEN list ELSE Append(list, x)
Position(list, x) == CHOOSE i \in 1 .. Len(list) : list[i] = x

RotatedLine(line, rotation) == (line + rotation * RotScale) % Size
Cell(type, column, line, rotation) == ColumnValues[<<type, column>>][RotatedLine(line, rotation)]

(* ValueSource::get on a line, over constants cs, rotations rs and          *)
(* intermediates. *)
Get(s, line, cs, rs, inter) ==
  CASE s.kind = "constant"     -> cs[s.index]
    [] s.kind = "intermediate" -> inter[s.index]
    [] s.kind \in ColumnTypes  -> Cell(s.kind, s.index, line, rs[s.rotation])
    [] s.kind = "challenge"    -> Challenges[s.index]
    [] s.kind = "beta"         -> Beta
    [] s.kind = "gamma"        -> Gamma
    [] s.kind = "theta"        -> Theta
    [] s.kind = "y"            -> Y
    [] s.kind = "previous"     -> Previous[line]

(* Calculation::evaluate, but for Horner, whose loop is below. *)
Apply2(op, a, b) ==
  CASE op = "add"    -> Plus(a, b)
    [] op = "sub"    -> Plus(a, Neg(b))
    [] op = "mul"    -> Times(a, b)
    [] op = "square" -> Times(a, a)
    [] op = "double" -> Plus(a, a)
    [] op = "negate" -> Neg(a)
    [] op = "store"  -> a

-----------------------------------------------------------------------------
(* GraphEvaluator::default, and the first list.                            *)
Factor == IF use = "gates" THEN Scalar("y") ELSE Scalar("theta")
FactorOf(u) == IF u = "gates" THEN Y ELSE Theta
FirstSource(u) == IF u = "gates" THEN Scalar("previous") ELSE Const(1)
FirstSum(u)  == IF u = "gates" THEN Previous ELSE [line \in Lines |-> Zero]

GraphInit ==
  /\ use \in Uses
  /\ stage = "expressions"
  /\ constants = <<Zero, One, Two>> /\ rotations = << >> /\ calculations = << >>
  /\ means = << >>
  /\ stack = << >> /\ leaves = 0 /\ negations = 0
  /\ parts = << >> /\ chain = <<FirstSum(use)>> /\ held = << >>
  /\ eval = [line |-> 0, at |-> 1, term |-> 0, acc |-> Zero, inter |-> << >>, results |-> << >>]

(* add_calculation: the source the calculation is found at, and the graph  *)
(* with it.  value is what it is worth on every row. *)
Found(calc) == Intermediate(Position(With(calculations, calc), calc))
AddCalculation(calc, value, sums) ==
  /\ calculations' = With(calculations, calc)
  /\ means' = IF Holds(calculations, calc) THEN means
              ELSE Append(means, [value |-> value, sums |-> sums])

(* What a node becomes: a source that exists already, or a calculation. *)
Is(s)     == [new |-> FALSE, src |-> s, calc |-> Calc("store", s, s)]
New(calc) == [new |-> TRUE, src |-> calc.a, calc |-> calc]

Entry(s, root, value) == [src |-> s, root |-> root, value |-> value]

(* The node replaces its operands on the stack. *)
Return(below, node, root, value) ==
  /\ IF node.new
       THEN /\ AddCalculation(node.calc, value, << >>)
            /\ stack' = Append(below, Entry(Found(node.calc), root, value))
       ELSE /\ stack' = Append(below, Entry(node.src, root, value))
            /\ UNCHANGED <<calculations, means>>
  /\ UNCHANGED <<use, stage, parts, chain, held, eval>>

-----------------------------------------------------------------------------
(* add_expression, leaves. *)
Leaf == stage = "expressions" /\ leaves < MaxLeaves /\ leaves' = leaves + 1 /\ UNCHANGED negations

LeafConstant ==
  /\ Leaf
  /\ \E c \in Scalars, negated \in BOOLEAN :
       LET k == IF negated THEN Neg(c) ELSE c IN
       /\ constants' = With(constants, k)
       /\ Return(stack, Is(Const(Position(With(constants, k), k))),
                 IF negated THEN "negated" ELSE "constant", [line \in Lines |-> k])
  /\ UNCHANGED rotations

LeafQuery ==
  /\ Leaf
  /\ \E col \in Columns, rot \in Rotations :
       /\ rotations' = With(rotations, rot)
       /\ LET s == Src(col[1], col[2], Position(With(rotations, rot), rot)) IN
          Return(stack, New(Calc("store", s, s)), "node",
                 [line \in Lines |-> Cell(col[1], col[2], line, rot)])
  /\ UNCHANGED constants

LeafChallenge ==
  /\ Leaf
  /\ \E i \in 1 .. Len(Challenges) :
       LET s == Src("challenge", i, 0) IN
       Return(stack, New(Calc("store", s, s)), "node", [line \in Lines |-> Challenges[i]])
  /\ UNCHANGED <<constants, rotations>>

(* add_expression, inner nodes: the cases in the order of the code. *)
NegationOf(a) == IF a = Const(1) THEN Is(a) ELSE New(Calc("negate", a, a))

SumOf(a, b) ==
  IF a = Const(1) THEN Is(b)
  ELSE IF b = Const(1) THEN Is(a)
  ELSE IF LessEq(a, b) THEN New(Calc("add", a, b)) ELSE New(Calc("add", b, a))

(* fault: a zero on the left is dropped as in a sum *)
DifferenceOfDropped(a, b) ==
  IF a = Const(1) THEN Is(b)
  ELSE IF b = Const(1) THEN Is(a)
  ELSE New(Calc("sub", a, b))

DifferenceOf(a, b) ==
  IF a = Const(1) THEN New(Calc("negate", b, b))
  ELSE IF b = Const(1) THEN Is(a)
  ELSE New(Calc("sub", a, b))

ProductOf(a, b) ==
  IF Const(1) \in {a, b} THEN Is(Const(1))
  ELSE IF a = Const(2) THEN Is(b)
  ELSE IF b = Const(2) THEN Is(a)
  ELSE IF a = Const(3) THEN New(Calc("double", b, b))
  ELSE IF b = Const(3) THEN New(Calc("double", a, a))
  ELSE IF a = b THEN New(Calc("square", a, a))
  ELSE IF LessEq(a, b) THEN New(Calc("mul", a, b)) ELSE New(Calc("mul", b, a))

Top   == stack[Len(stack)]
Under == stack[Len(stack) - 1]
Popped(n) == SubSeq(stack, 1, Len(stack) - n)
Node  == stage = "expressions" /\ UNCHANGED <<constants, rotations, leaves>>

Negated ==
  /\ Node /\ Len(stack) >= 1
  /\ Top.root # "constant"
  /\ negations < MaxNegations /\ negations' = negations + 1
  /\ Return(Popped(1), NegationOf(Top.src), "negated", [line \in Lines |-> Neg(Top.value[line])])

(* Sum(a, b) where b is no negation, and Sum(a, Negated(b)). *)
Sum2 ==
  /\ Node /\ Len(stack) >= 2 /\ UNCHANGED negations
  /\ Top.root # "negated"
  /\ Return(Popped(2), SumOf(Under.src, Top.src), "node",
            [line \in Lines |-> Plus(Under.value[line], Top.value[line])])

Difference ==
  /\ Node /\ Len(stack) >= 2 /\ UNCHANGED negations
  /\ Return(Popped(2), DifferenceOf(Under.src, Top.src), "node",
            [line \in Lines |-> Plus(Under.value[line], Neg(Top.value[line]))])

Product2 ==
  /\ Node /\ Len(stack) >= 2 /\ UNCHANGED negations
  /\ Return(Popped(2), ProductOf(Under.src, Top.src), "node",
            [line \in Lines |-> Times(Under.value[line], Top.value[line])])

-----------------------------------------------------------------------------
(* Evaluator::new: the expressions of a list are compressed by Horner's    *)
(* rule; a lookup and a shuffle add their challenges. *)
EndExpression ==
  /\ stage = "expressions" /\ Len(stack) = 1
  /\ parts' = Append(parts, Top.src)
  /\ chain' = Append(chain, [line \in Lines |->
                Plus(Times(chain[Len(chain)][line], FactorOf(use)), Top.value[line])])
  /\ stack' = << >>
  /\ UNCHANGED <<use, stage, graph, bounds, held, eval>>

HeldEntry(calc, value) == [src |-> Found(calc), value |-> value]
Blank2(n) == [k \in 1 .. n |-> Zero]

(* instance(): the intermediates of the thread that will evaluate the rows. *)
Compiled(list) == eval' = [eval EXCEPT !.inter = Blank2(Len(list))]

Compress ==
  /\ stage = "expressions" /\ stack = << >>
  /\ use = "gates" \/ parts # << >>
  /\ LET calc == Horner(FirstSource(use), parts, Factor)
     IN  /\ AddCalculation(calc, chain[Len(chain)], chain)
         /\ held' = Append(held, HeldEntry(calc, chain[Len(chain)]))
         /\ Compiled(calculations')
  /\ parts' = << >> /\ chain' = <<FirstSum(use)>>
  /\ stage' = CASE use = "gates" -> "rows"
                [] use = "shuffle" -> "gamma"
                [] use = "lookup" -> IF held = << >> THEN "expressions" ELSE "gamma"
  /\ UNCHANGED <<use, constants, rotations, stack, bounds>>

(* One add_calculation over the compressed lists. *)
Close(calc, value, next) ==
  /\ AddCalculation(calc, value, << >>)
  /\ held' = Append(held, HeldEntry(calc, value))
  /\ Compiled(calculations')
  /\ stage' = next
  /\ UNCHANGED <<use, constants, rotations, stack, bounds, parts, chain>>

(* The list compressed last: a lookup's table, the only list of a shuffle. *)
AddGamma ==
  /\ stage = "gamma"
  /\ LET last == held[Len(held)] IN
     Close(Calc("add", last.src, Scalar("gamma")),
           [line \in Lines |-> Plus(last.value[line], Gamma)],
           IF use = "lookup" THEN "beta" ELSE "rows")

AddBeta ==
  /\ stage = "beta"
  /\ Close(Calc("add", held[1].src, Scalar("beta")),
           [line \in Lines |-> Plus(held[1].value[line], Beta)], "product")

Multiply ==
  /\ stage = "product"
  /\ Close(Calc("mul", held[4].src, held[3].src),
           [line \in Lines |-> Times(held[4].value[line], held[3].value[line])], "rows")

-----------------------------------------------------------------------------
(* evaluate: the list, then its last entry, row after row with the         *)
(* intermediates of the row before still in place. *)
CurrentCalc == calculations[eval.at]
Evaluating == stage = "rows" /\ eval.line < Size /\ eval.at <= Len(calculations)
              /\ UNCHANGED <<use, stage, graph, stack, bounds, parts, chain, held>>
Value(s) == Get(s, eval.line, constants, rotations, eval.inter)
Store(value) == [eval EXCEPT !.inter[eval.at] = value, !.at = @ + 1, !.term = 0]

Calculate ==
  /\ Evaluating /\ CurrentCalc.op # "horner"
  /\ eval' = Store(Apply2(CurrentCalc.op, Value(CurrentCalc.a), Value(CurrentCalc.b)))

HornerStart ==
  /\ Evaluating /\ CurrentCalc.op = "horner" /\ eval.term = 0
  /\ eval' = [eval EXCEPT !.acc = Value(CurrentCalc.a), !.term = 1]

HornerTerm ==
  /\ Evaluating /\ CurrentCalc.op = "horner" /\ eval.term \in 1 .. Len(CurrentCalc.parts)
  /\ eval' = [eval EXCEPT !.acc = Plus(Times(@, Value(CurrentCalc.b)), Value(CurrentCalc.parts[eval.term])),
                          !.term = @ + 1]

HornerEnd ==
  /\ Evaluating /\ CurrentCalc.op = "horner" /\ eval.term = Len(CurrentCalc.parts) + 1
  /\ eval' = Store(eval.acc)

LastValue == IF calculations = << >> THEN Zero ELSE eval.inter[Len(calculations)]

RowDone ==
  /\ stage = "rows" /\ eval.line < Size /\ eval.at = Len(calculations) + 1
  /\ eval' = [eval EXCEPT !.results = Append(@, LastValue), !.line = @ + 1, !.at = 1]
  /\ UNCHANGED <<use, stage, graph, stack, bounds, parts, chain, held>>

GraphNext ==
  \/ LeafConstant \/ LeafQuery \/ LeafChallenge
  \/ Negated \/ Sum2 \/ Difference \/ Product2
  \/ EndExpression \/ Compress \/ AddGamma \/ AddBeta \/ Multiply
  \/ Calculate \/ HornerStart \/ HornerTerm \/ HornerEnd \/ RowDone

GraphSpec == GraphInit /\ [][GraphNext]_graphVars

-----------------------------------------------------------------------------
SourceSet == [kind : {"constant", "intermediate", "challenge", "beta", "gamma", "theta", "y",
                      "previous"} \cup ColumnTypes, index : Nat, rotation : Nat]
CalcSet == [op : {"add", "sub", "mul", "square", "double", "negate", "store", "horner"},
            a : SourceSet, b : SourceSet, parts : Seq(SourceSet)]
Values == [Lines -> F]

(* Types, and one meaning per calculation. *)
GraphTypeOK ==
  /\ use \in Uses /\ stage \in {"expressions", "gamma", "beta", "product", "rows"}
  /\ constants \in Seq(F) /\ rotations \in Seq(Int) /\ calculations \in Seq(CalcSet)
  /\ means \in Seq([value : Values, sums : Seq(Values)]) /\ Len(means) = Len(calculations)
  /\ stack \in Seq([src : SourceSet, root : {"constant", "negated", "node"}, value : Values])
  /\ leaves \in 0 .. MaxLeaves /\ negations \in 0 .. MaxNegations
  /\ parts \in Seq(SourceSet) /\ chain \in Seq(Values) /\ Len(chain) = Len(parts) + 1
  /\ held \in Seq([src : SourceSet, value : Values])
  /\ eval \in [line : 0 .. Size, at : Nat, term : Nat, acc : F, inter : Seq(F), results : Seq(F)]

(* evaluation.rs, GraphEvaluator: the value the list leaves for a row is    *)
(* the value of the expressions it was compiled from, whatever shortcuts    *)
(* and repetitions were found and whatever the row before left behind. *)
GraphExact ==
  \A k \in 1 .. Len(eval.results) : eval.results[k] = held[Len(held)].value[k - 1]
=============================================================================
