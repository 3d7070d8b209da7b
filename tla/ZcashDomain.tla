----------------------------- MODULE ZcashDomain -----------------------------
(***************************************************************************)
(* What a vector of halo2-zcash stands for (poly/domain.rs, poly.rs,       *)
(* poly/evaluator.rs): a polynomial by its coefficients, by its values on  *)
(* the rows, or by its values on a coset of the extended domain.  A job    *)
(* makes a domain, turns and transforms columns of values, evaluates an    *)
(* expression over them in one of the bases, in chunks, and, on the coset, *)
(* divides what comes out by X^n - 1.                                      *)
(*                                                                         *)
(* Fields are integers modulo a prime, vectors functions from 0.  The fast *)
(* Fourier transform is what it computes (module Arithmetic has how).  An  *)
(* expression is <<"poly", column, rotation>>, <<"add" | "sub" | "mul", a, *)
(* b>>, <<"neg", a>>, <<"scale", a, s>>, <<"powers", list, base>>,         *)
(* <<"linear", s>> or <<"constant", s>>.                                   *)
(***************************************************************************)
EXTENDS Integers, Sequences, SequencesExt

CONSTANT DomainJobs
  \* [p, S, root, zeta]: the field; j, k: the domain; columns: their values;
  \* turn: a rotation of all columns; basis, chunk and ast: the evaluation

VARIABLES
  domJob,
  domain,
  leaves,    \* the registered polynomials, in the job's basis
  computed,  \* chunks
  result,
  quotient,  \* its coefficients
  domStage

domVars == <<domJob, domain, leaves, computed, result, quotient, domStage>>

In(x)     == x % domJob.p
Field     == 0 .. domJob.p - 1
Size      == 2 ^ domJob.k
Exp(x, e) == FoldLeft(LAMBDA acc, i : In(acc * x), 1, [i \in 1 .. e |-> i])
Total(n, term(_)) == FoldLeft(LAMBDA acc, i : In(acc + term(i - 1)), 0, [i \in 1 .. n |-> i])
InverseOrZero(x) == IF In(x) = 0 THEN 0 ELSE CHOOSE y \in Field : In(x * y) = 1
Magnitude(r) == IF r < 0 THEN -r ELSE r

-----------------------------------------------------------------------------
(* EvaluationDomain::new: from j, the degree of the constraints, and k. *)
ExtendedLog ==
  CHOOSE e \in domJob.k .. 2 * domJob.k + domJob.j :
    /\ 2 ^ e >= Size * (domJob.j - 1)
    /\ \A less \in domJob.k .. e - 1 : 2 ^ less < Size * (domJob.j - 1)

(* The values of X^n on the coset, until they repeat. *)
Repeats(step) == CHOOSE len \in 1 .. domJob.p : Exp(step, len) = 1 /\ \A l \in 1 .. len - 1 : Exp(step, l) # 1

NewDomain ==
  /\ domStage = "start"
  /\ IF ExtendedLog > domJob.S THEN domStage' = "panic" /\ UNCHANGED domain
     ELSE LET extended == Exp(domJob.root, 2 ^ (domJob.S - ExtendedLog))
              omega    == Exp(extended, 2 ^ (ExtendedLog - domJob.k))
              step     == Exp(extended, Size)
          IN  /\ domStage' = "columns"
              /\ domain' =
                   [extendedLen |-> 2 ^ ExtendedLog, factor |-> 2 ^ (ExtendedLog - domJob.k),
                    omega |-> omega, omegaInv |-> InverseOrZero(omega),
                    extendedOmega |-> extended, extendedOmegaInv |-> InverseOrZero(extended),
                    gCoset |-> domJob.zeta, gCosetInv |-> In(domJob.zeta * domJob.zeta),
                    pieces |-> domJob.j - 1,
                    divisor |-> InverseOrZero(Size), extendedDivisor |-> InverseOrZero(2 ^ ExtendedLog),
                    t |-> [i \in 0 .. Repeats(step) - 1 |->
                             InverseOrZero(Exp(domJob.zeta, Size) * Exp(step, i) - 1)],
                    weight |-> InverseOrZero(Size)]
  /\ UNCHANGED <<domJob, leaves, computed, result, quotient>>

-----------------------------------------------------------------------------
Fft(a, w, len) ==
  LET power[i \in 0 .. len - 1] == IF i = 0 THEN 1 ELSE In(power[i - 1] * w)
  IN  [i \in 0 .. len - 1 |-> Total(len, LAMBDA c : a[c] * power[(i * c) % len])]

Ifft(a, wInv, len, divisor) ==
  LET values == Fft(a, wInv, len) IN [i \in 0 .. len - 1 |-> In(values[i] * divisor)]

(* fault: out of the coset by the powers that lead into it *)
DistributePowersOneWay(a, intoCoset) ==
  [i \in DOMAIN a |-> CASE i % 3 = 0 -> a[i] [] i % 3 = 1 -> In(a[i] * domain.gCoset)
                        [] i % 3 = 2 -> In(a[i] * domain.gCosetInv)]

DistributePowersZeta(a, intoCoset) ==
  LET first  == IF intoCoset THEN domain.gCoset ELSE domain.gCosetInv
      second == IF intoCoset THEN domain.gCosetInv ELSE domain.gCoset
  IN  [i \in DOMAIN a |-> CASE i % 3 = 0 -> a[i] [] i % 3 = 1 -> In(a[i] * first) [] i % 3 = 2 -> In(a[i] * second)]

LagrangeToCoeff(a) == Ifft(a, domain.omegaInv, Size, domain.divisor)

CoeffToExtended(a) ==
  LET moved == DistributePowersZeta(a, TRUE)
  IN  Fft([i \in 0 .. domain.extendedLen - 1 |-> IF i < Size THEN moved[i] ELSE 0],
          domain.extendedOmega, domain.extendedLen)

(* Moved out of the coset and truncated to the pieces of a quotient. *)
ExtendedToCoeff(a) ==
  LET moved == DistributePowersZeta(Ifft(a, domain.extendedOmegaInv, domain.extendedLen, domain.extendedDivisor), FALSE)
      kept  == Size * domain.pieces
  IN  [i \in 0 .. (IF kept < domain.extendedLen THEN kept ELSE domain.extendedLen) - 1 |-> moved[i]]

DivideByVanishingPoly(a) == [i \in DOMAIN a |-> In(a[i] * domain.t[i % domain.factor])]

(* rotate_left and rotate_right of a slice, which panic past its length. *)
Turned(a, len, r, turn) == [i \in 0 .. len - 1 |-> a[(IF r >= 0 THEN i + turn ELSE i + len - turn) % len]]

Rotate(a, rotation)         == Turned(a, Size, rotation, Magnitude(rotation))
RotateExtended(a, rotation) == Turned(a, domain.extendedLen, rotation, domain.factor * Magnitude(rotation))

(* The columns are turned in the basis they are in, and registered. *)
Registered(column) ==
  CASE domJob.basis = "lagrange" -> Rotate(column, domJob.turn)
    [] domJob.basis = "coeff"    -> LagrangeToCoeff(Rotate(column, domJob.turn))
    [] domJob.basis = "extended" -> RotateExtended(CoeffToExtended(LagrangeToCoeff(column)), domJob.turn)

RegisterPolys ==
  /\ domStage = "columns"
  /\ IF Magnitude(domJob.turn) > Size THEN domStage' = "panic" /\ UNCHANGED leaves
     ELSE /\ domStage' = "evaluate"
          /\ leaves' = [c \in DOMAIN domJob.columns |-> Registered([i \in 0 .. Size - 1 |-> domJob.columns[c][i + 1]])]
  /\ UNCHANGED <<domJob, domain, computed, result, quotient>>

-----------------------------------------------------------------------------
(* The operators on Ast: a difference is a sum with the negative, which is a
   scaled expression. *)
RECURSIVE Ast(_), Recurse(_, _, _), Panics(_, _), ValueAt(_, _)
Negative(a) == <<"scale", a, domJob.p - 1>>
Ast(e) ==
  CASE e[1] = "sub"    -> <<"add", Ast(e[2]), Negative(Ast(e[3]))>>
    [] e[1] = "neg"    -> Negative(Ast(e[2]))
    [] e[1] = "add"    -> <<"add", Ast(e[2]), Ast(e[3])>>
    [] e[1] = "mul"    -> <<"mul", Ast(e[2]), Ast(e[3])>>
    [] e[1] = "scale"  -> <<"scale", Ast(e[2]), e[3]>>
    [] e[1] = "powers" -> <<"powers", [m \in DOMAIN e[2] |-> Ast(e[2][m])], e[3]>>
    [] OTHER           -> e

(* empty_poly *)
PolyLen == IF domJob.basis = "extended" THEN domain.extendedLen ELSE Size
Chunks  == {c \in 0 .. PolyLen - 1 : c * domJob.chunk < PolyLen}
Start(c) == c * domJob.chunk
Length(c) == IF PolyLen - Start(c) < domJob.chunk THEN PolyLen - Start(c) ELSE domJob.chunk

(* constant_term and linear_term of BasisOps, by basis. *)
ConstantTerm(c, s) ==
  [i \in 0 .. Length(c) - 1 |-> IF domJob.basis = "coeff" /\ Start(c) + i > 0 THEN 0 ELSE s]

LinearTerm(c, s) ==
  [i \in 0 .. Length(c) - 1 |->
     CASE domJob.basis = "coeff" ->
            IF (domJob.chunk = 1 /\ c = 1 /\ i = 0) \/ (domJob.chunk > 1 /\ c = 0 /\ i = 1) THEN s ELSE 0
       [] domJob.basis = "lagrange" -> In(Exp(domain.omega, Start(c) + i) * s)
       [] domJob.basis = "extended" -> In(Exp(domain.extendedOmega, Start(c) + i) * domJob.zeta * s)]

(* get_chunk_of_rotated_helper: `mid` moves to the front. *)
ChunkOfRotated(a, rotation, c) ==
  LET turn == Magnitude(rotation) * (IF domJob.basis = "extended" THEN domain.factor ELSE 1)
      mid  == IF rotation < 0 THEN PolyLen - turn ELSE turn
      k    == PolyLen - mid
  IN  [i \in 0 .. Length(c) - 1 |->
         IF Start(c) + i < k THEN a[mid + Start(c) + i] ELSE a[Start(c) + i - k]]

Zipped(a, b, op(_, _)) == [i \in DOMAIN a |-> In(op(a[i], b[i]))]
Recurse(e, c, lvs) ==
  CASE e[1] = "poly"     -> IF domJob.basis = "coeff" THEN << >> ELSE ChunkOfRotated(lvs[e[2]], e[3], c)
    [] e[1] = "add"      -> Zipped(Recurse(e[2], c, lvs), Recurse(e[3], c, lvs), LAMBDA x, y : x + y)
    [] e[1] = "mul"      -> Zipped(Recurse(e[2], c, lvs), Recurse(e[3], c, lvs), LAMBDA x, y : x * y)
    [] e[1] = "scale"    -> LET a == Recurse(e[2], c, lvs) IN [i \in DOMAIN a |-> In(a[i] * e[3])]
    [] e[1] = "powers"   -> FoldLeft(LAMBDA acc, term : Zipped(acc, Recurse(term, c, lvs), LAMBDA x, y : x * e[3] + y),
                                     ConstantTerm(c, 0), e[2])
    [] e[1] = "linear"   -> LinearTerm(c, e[2])
    [] e[1] = "constant" -> ConstantTerm(c, e[2])

(* A rotation past the length; any polynomial by its coefficients; and X by
   its coefficients in chunks of one, whose first has no second element. *)
Panics(e, c) ==
  CASE e[1] = "poly" -> domJob.basis = "coeff" \/ Magnitude(e[3]) > Size
    [] e[1] = "linear" -> domJob.basis = "coeff" /\ domJob.chunk = 1 /\ c = 0
    [] e[1] \in {"add", "mul"} -> Panics(e[2], c) \/ Panics(e[3], c)
    [] e[1] = "scale"  -> Panics(e[2], c)
    [] e[1] = "powers" -> \E m \in DOMAIN e[2] : Panics(e[2][m], c)
    [] OTHER -> FALSE

EvaluateChunk ==
  /\ domStage = "evaluate"
  /\ \E c \in Chunks \ computed :
       IF Panics(Ast(domJob.ast), c) THEN domStage' = "panic" /\ UNCHANGED <<computed, result>>
       ELSE LET values == Recurse(Ast(domJob.ast), c, leaves)
            IN  /\ computed' = computed \cup {c} /\ UNCHANGED domStage
                /\ result' = [i \in DOMAIN result \cup (Start(c) .. Start(c) + Length(c) - 1) |->
                                IF i \in DOMAIN result THEN result[i] ELSE values[i - Start(c)]]
  /\ UNCHANGED <<domJob, domain, leaves, quotient>>

EvaluateReturn ==
  /\ domStage = "evaluate" /\ computed = Chunks /\ domStage' = "evaluated"
  /\ UNCHANGED <<domJob, domain, leaves, computed, result, quotient>>

Divide ==
  /\ domStage = "evaluated" /\ domJob.basis = "extended" /\ domStage' = "divided"
  /\ quotient' = ExtendedToCoeff(DivideByVanishingPoly(result))
  /\ UNCHANGED <<domJob, domain, leaves, computed, result>>

-----------------------------------------------------------------------------
RotateOmega(x, rotation) ==
  In(x * IF rotation >= 0 THEN Exp(domain.omega, rotation) ELSE Exp(domain.omegaInv, -rotation))

(* l_i_range, for one rotation. *)
LIRange(x, rotation) ==
  LET common == In((Exp(x, Size) - 1) * domain.weight)
  IN  RotateOmega(InverseOrZero(x - RotateOmega(1, rotation)) * common, rotation)

-----------------------------------------------------------------------------
DomainInit ==
  /\ domJob \in DomainJobs /\ domStage = "start" /\ domain = << >> /\ leaves = << >>
  /\ computed = {} /\ result = << >> /\ quotient = << >>

DomainNext == NewDomain \/ RegisterPolys \/ EvaluateChunk \/ EvaluateReturn \/ Divide

DomainSpec == DomainInit /\ [][DomainNext]_domVars

-----------------------------------------------------------------------------
(* What an expression says: the column of a leaf is the polynomial through
   its values on the rows, and a rotation multiplies X by a power of omega. *)
Row(i) == Exp(domain.omega, i)
Times(terms, x(_)) == FoldLeft(LAMBDA acc, i : In(acc * x(i)), 1, terms)
BasisAt(i, x) ==
  LET others == SelectSeq([r \in 1 .. Size |-> r - 1], LAMBDA r : r # i)
  IN  In(Times(others, LAMBDA r : x - Row(r)) * InverseOrZero(Times(others, LAMBDA r : Row(i) - Row(r))))
ColumnAt(column, x) == Total(Size, LAMBDA i : column[i + 1] * BasisAt(i, x))

ValueAt(e, x) ==
  CASE e[1] = "poly"     -> ColumnAt(domJob.columns[e[2]], In(x * Row((e[3] + domJob.turn) % Size)))
    [] e[1] = "add"      -> In(ValueAt(e[2], x) + ValueAt(e[3], x))
    [] e[1] = "sub"      -> In(ValueAt(e[2], x) - ValueAt(e[3], x))
    [] e[1] = "mul"      -> In(ValueAt(e[2], x) * ValueAt(e[3], x))
    [] e[1] = "neg"      -> In(0 - ValueAt(e[2], x))
    [] e[1] = "scale"    -> In(ValueAt(e[2], x) * e[3])
    [] e[1] = "powers"   -> FoldLeft(LAMBDA acc, term : In(acc * e[3] + ValueAt(term, x)), 0, e[2])
    [] e[1] = "linear"   -> In(e[2] * x)
    [] e[1] = "constant" -> e[2]

PolyValue(a, len, x) == Total(len, LAMBDA c : a[c] * Exp(x, c))

ResultExact ==
  CASE domJob.basis = "lagrange" -> \A i \in 0 .. Size - 1 : result[i] = ValueAt(domJob.ast, Row(i))
    [] domJob.basis = "coeff"    -> \A x \in Field : PolyValue(result, Size, x) = ValueAt(domJob.ast, x)
    [] domJob.basis = "extended" -> \A i \in 0 .. domain.extendedLen - 1 :
         result[i] = ValueAt(domJob.ast, In(domJob.zeta * Exp(domain.extendedOmega, i)))

(* The quotient times X^n - 1 is the expression, if it vanishes on the rows. *)
QuotientExact ==
  LET vanishes == \A i \in 0 .. Size - 1 : ValueAt(domJob.ast, Row(i)) = 0
      divides  == \A x \in Field : In(PolyValue(quotient, Size * domain.pieces, x) * (Exp(x, Size) - 1)) = ValueAt(domJob.ast, x)
  IN  vanishes <=> divides

BasisExact ==
  \A x \in Field \ {Row(i) : i \in 0 .. Size - 1} : \A r \in 1 - Size .. Size :
    LIRange(x, r) = BasisAt(r % Size, x)

(* poly/domain.rs, poly.rs, poly/evaluator.rs: whatever basis and chunks an
   expression is evaluated in, and however its columns are turned, the result
   stands for what the expression says; on the coset, dividing it by X^n - 1
   gives the quotient exactly if it vanishes on the rows; and what the
   verifier evaluates is the Lagrange basis, except on the rows themselves.
   The panics are those of a domain that is too large, a rotation past the
   rows, and, in the coefficients, a column, or X in chunks of one, for which
   the code takes the second chunk's element and yet asks for the first's. *)
VectorsExact ==
  /\ domStage = "columns" => BasisExact
  /\ domStage = "evaluated" => ResultExact
  /\ domStage = "divided" => QuotientExact
  /\ domStage = "panic" =>
       \/ ExtendedLog > domJob.S
       \/ Magnitude(domJob.turn) > Size
       \/ \E c \in Chunks : Panics(Ast(domJob.ast), c)
=============================================================================
