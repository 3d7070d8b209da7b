------------------------------- MODULE Assigned ------------------------------
(***************************************************************************)
(* Assigned (halo2_frontend, plonk/assigned.rs): a value for a cell, kept  *)
(* as a fraction so that the inversions of a column are made together.  A  *)
(* value is <<"zero">>, <<"trivial", x>> or <<"rational", n, d>>; a        *)
(* fraction whose denominator is zero is worth zero.                       *)
(*                                                                         *)
(* The state is a value that goes through the operations, << >> before it  *)
(* is made of one or two field elements, and what it is worth.             *)
(***************************************************************************)
EXTENDS Integers, Sequences, SequencesExt

CONSTANT Modulus

VARIABLES
  fraction,  \* what the code computes
  element    \* what it is worth

assignedVars == <<fraction, element>>

Elements == 0 .. Modulus - 1
Fractions == {<<"zero">>} \cup ({"trivial"} \X Elements) \cup ({"rational"} \X Elements \X Elements)

Reduced(x) == x % Modulus
Inverse0(x) == IF x = 0 THEN 0 ELSE CHOOSE y \in Elements : Reduced(x * y) = 1

-----------------------------------------------------------------------------
Numerator(a)   == IF a[1] = "zero" THEN 0 ELSE a[2]
Denominator(a) == IF a[1] = "rational" THEN <<a[3]>> ELSE << >>
Worthless(a)   == a[1] = "rational" /\ a[3] = 0

IsZero(a) == a[1] = "zero" \/ a[2] = 0 \/ Worthless(a)

Evaluated(a) ==
  CASE a[1] = "zero"    -> 0
    [] a[1] = "trivial" -> a[2]
    [] OTHER            -> IF a[3] = 1 THEN a[2] ELSE Reduced(a[2] * Inverse0(a[3]))

(* fault: a fraction without value adds its numerator *)
AdditionOfAll(a, b) ==
  IF "zero" \in {a[1], b[1]} THEN IF a[1] = "zero" THEN b ELSE a
  ELSE IF Denominator(a) = << >> /\ Denominator(b) = << >> THEN <<"trivial", Reduced(a[2] + b[2])>>
  ELSE LET d == IF Denominator(a) = << >> THEN 1 ELSE a[3]
           e == IF Denominator(b) = << >> THEN 1 ELSE b[3]
       IN  <<"rational", Reduced(a[2] * e + b[2] * d), Reduced(d * e)>>

Addition(a, b) ==
  IF a[1] = "zero" THEN b
  ELSE IF b[1] = "zero" THEN a
  ELSE IF Worthless(a) THEN b
  ELSE IF Worthless(b) THEN a
  ELSE IF {a[1], b[1]} = {"trivial"} THEN <<"trivial", Reduced(a[2] + b[2])>>
  ELSE IF b[1] = "trivial" THEN <<"rational", Reduced(a[2] + a[3] * b[2]), a[3]>>
  ELSE IF a[1] = "trivial" THEN <<"rational", Reduced(b[2] + b[3] * a[2]), b[3]>>
  ELSE <<"rational", Reduced(a[2] * b[3] + a[3] * b[2]), Reduced(a[3] * b[3])>>

Multiplication(a, b) ==
  IF "zero" \in {a[1], b[1]} THEN <<"zero">>
  ELSE IF {a[1], b[1]} = {"trivial"} THEN <<"trivial", Reduced(a[2] * b[2])>>
  ELSE IF b[1] = "trivial" THEN <<"rational", Reduced(a[2] * b[2]), a[3]>>
  ELSE IF a[1] = "trivial" THEN <<"rational", Reduced(b[2] * a[2]), b[3]>>
  ELSE <<"rational", Reduced(a[2] * b[2]), Reduced(a[3] * b[3])>>

WithNumerator(a, x) == IF a[1] = "zero" THEN a ELSE [a EXCEPT ![2] = Reduced(x)]
Negation(a) == WithNumerator(a, 0 - Numerator(a))
Doubling(a) == WithNumerator(a, 2 * Numerator(a))
Squaring(a) ==
  LET squared == WithNumerator(a, Numerator(a) * Numerator(a))
  IN  IF a[1] = "rational" THEN [squared EXCEPT ![3] = Reduced(@ * @)] ELSE squared
Cubing(a)   == Multiplication(Squaring(a), a)
Inversion(a) ==
  CASE a[1] = "zero"    -> a
    [] a[1] = "trivial" -> <<"rational", 1, a[2]>>
    [] OTHER            -> <<"rational", a[3], a[2]>>

SameAssigned(a, b) ==
  IF a[1] = "zero" \/ Worthless(a) THEN IsZero(b)
  ELSE IF b[1] = "zero" \/ Worthless(b) THEN IsZero(a)
  ELSE IF {a[1], b[1]} = {"trivial"} THEN a[2] = b[2]
  ELSE IF b[1] = "trivial" THEN Reduced(b[2] * a[3]) = a[2]
  ELSE IF a[1] = "trivial" THEN Reduced(a[2] * b[3]) = b[2]
  ELSE Reduced(a[2] * b[3]) = Reduced(a[3] * b[2])

(* The inversion of many, which is not this crate's, leaves zeros alone. *)
BatchInverted(column) ==
  [i \in DOMAIN column |->
     Reduced(Numerator(column[i])
             * (IF Denominator(column[i]) = << >> THEN 1 ELSE Inverse0(Denominator(column[i])[1])))]

-----------------------------------------------------------------------------
(* What a fraction is worth, said without the operations. *)
Worth(a) == IF a[1] = "zero" \/ Worthless(a) THEN 0
            ELSE CHOOSE x \in Elements : Reduced(x * (IF a[1] = "rational" THEN a[3] ELSE 1)) = a[2]

AssignedInit == fraction = << >> /\ element = 0

Becomes(a, x) == fraction' = a /\ element' = Reduced(x)
OfValue(a, x) == fraction # << >> /\ Becomes(a, x)

From   == fraction = << >> /\ \E a \in Fractions : Becomes(a, Worth(a))

Negate == OfValue(Negation(fraction), 0 - element)
Double == OfValue(Doubling(fraction), 2 * element)
Square == OfValue(Squaring(fraction), element * element)
Cube   == OfValue(Cubing(fraction), element * element * element)
Invert == OfValue(Inversion(fraction), Inverse0(element))
Add    == \E a \in Fractions : OfValue(Addition(fraction, a), element + Worth(a))
AddTo  == \E a \in Fractions : OfValue(Addition(a, fraction), element + Worth(a))
Subtract == \E a \in Fractions : OfValue(Addition(fraction, Negation(a)), element - Worth(a))
Scale  == \E a \in Fractions : OfValue(Multiplication(fraction, a), element * Worth(a))

AssignedNext == From \/ Negate \/ Double \/ Square \/ Cube \/ Invert \/ Add \/ AddTo \/ Subtract \/ Scale

(* Evaluated alone or with a column, compared or looked at for zero: a value
   is worth what the operations on field elements give, the inverse of zero
   being zero. *)
AssignedExact ==
  fraction # << >> =>
  /\ Evaluated(fraction) = element /\ BatchInverted(<<<<"trivial", 2>>, fraction>>)[2] = element
  /\ IsZero(fraction) <=> element = 0
  /\ \A a \in Fractions : SameAssigned(fraction, a) <=> element = Worth(a)
=============================================================================
