-------------------------- MODULE EvaluationDomain ---------------------------
(***************************************************************************)
(* poly/domain.rs over a small prime field: polynomials of 2^K             *)
(* coefficients, their values on the powers of omega, and their values on  *)
(* the coset zeta * <extended_omega> where the quotient is computed.       *)
(* Vectors are functions on 0 .. length - 1, as in the code.  The fast     *)
(* Fourier transform is what it computes: an evaluation at every power.    *)
(***************************************************************************)
LOCAL INSTANCE Integers
LOCAL INSTANCE Sequences

CONSTANTS
  P,           \* the scalar field: the integers modulo P
  S,           \* F::S, the largest s with 2^s dividing P - 1
  RootOfUnity, \* F::ROOT_OF_UNITY, of order 2^S
  Zeta,        \* F::ZETA, of order 3
  Delta,       \* F::DELTA: its powers are in different cosets of <RootOfUnity>
  K            \* params.k

ASSUME DomainAssumption ==
  /\ S \in Nat /\ K \in 1 .. S
  /\ 2 ^ S \in 1 .. P /\ (P - 1) % 2 ^ S = 0
  /\ (Zeta * Zeta + Zeta + 1) % P = 0

a ++ b == (a + b) % P
a -- b == (a - b) % P
a ** b == (a * b) % P

(* Square and multiply. *)
Pow(b, e) ==
  LET p[i \in 0 .. e] == IF i = 0 THEN 1
                         ELSE LET half == p[i \div 2]
                              IN  half ** half ** (IF i % 2 = 0 THEN 1 ELSE b)
  IN  p[e]

(* batch_invert leaves zero as it is. *)
Invert(a) == IF a % P = 0 THEN 0 ELSE Pow(a % P, P - 2)

N    == 2 ^ K
Rows == 0 .. N - 1

(* The sum over 1 .. n, the product, and Horner's rule from the first term. *)
Sum(n, term(_))       == LET f[m \in 0 .. n] == IF m = 0 THEN 0 ELSE f[m - 1] ++ term(m) IN f[n]
Product(n, factor(_)) == LET f[m \in 0 .. n] == IF m = 0 THEN 1 ELSE f[m - 1] ** factor(m) IN f[n]
Horner(start, terms, x) ==
  LET f[m \in 0 .. Len(terms)] == IF m = 0 THEN start ELSE (f[m - 1] ** x) ++ terms[m]
  IN  f[Len(terms)]

(* Horner's rule from the last coefficient: eval_polynomial. *)
Eval(coeffs, length, x) ==
  LET v[i \in 0 .. length] == IF i = 0 THEN 0 ELSE (v[i - 1] ** x) ++ coeffs[length - i]
  IN  v[length]

-----------------------------------------------------------------------------
(* The extended domain is the first power of two with room for the quotient
   of a constraint system of degree j. *)
ExtendedK(j) == CHOOSE e \in K .. S : /\ 2 ^ e >= N * (j - 1)
                                      /\ e = K \/ 2 ^ (e - 1) < N * (j - 1)

(* EvaluationDomain::new.  omega and extended are the powers of the two roots;
   X^n - 1 takes as many values on the coset as the domain is extended. *)
Domain(j) ==
  LET ek    == ExtendedK(j)
      scale == 2 ^ (ek - K)
      root  == Pow(RootOfUnity, 2 ^ (S - ek))
      step  == Pow(root, N)
  IN  [size |-> 2 ^ ek, scale |-> scale, pieces |-> j - 1,
       omega    |-> [i \in Rows |-> Pow(root, scale * i)],
       extended |-> [i \in 0 .. 2 ^ ek - 1 |-> Pow(root, i)],
       t        |-> [i \in 0 .. scale - 1 |-> Invert((Pow(Zeta, N) ** Pow(step, i)) -- 1)]]

LagrangeToCoeff(dom, values) ==
  [c \in Rows |-> Eval(values, N, dom.omega[(N - c) % N]) ** Invert(N)]

(* distribute_powers_zeta: coefficient c by zeta^(c % 3), or by its inverse. *)
IntoCoset(c)  == Pow(Zeta, c % 3)
OutOfCoset(c) == Pow(Zeta, (3 - (c % 3)) % 3)

CoeffToExtended(dom, coeffs) ==
  LET moved == [c \in Rows |-> coeffs[c] ** IntoCoset(c)]
  IN  [i \in 0 .. dom.size - 1 |-> Eval(moved, N, dom.extended[i])]

ExtendedToCoeff(dom, values) ==
  LET divisor == Invert(dom.size)
  IN  [c \in 0 .. dom.size - 1 |->
         (Eval(values, dom.size, dom.extended[(dom.size - c) % dom.size]) ** divisor) ** OutOfCoset(c)]

DivideByVanishingPoly(dom, values) ==
  [i \in 0 .. dom.size - 1 |-> values[i] ** dom.t[i % dom.scale]]

(* L_idx on the coset by its closed form, g^i / n * (X^n - 1) / (X - g^i),
   with the values of X^n, which repeat. *)
LagrangeExtended(dom, idx) ==
  LET gi == dom.omega[idx]
      wn == dom.extended[N]
      numerator(i)   == (Pow(Zeta, N % 3) ** gi ** Pow(wn, i % dom.scale)) -- gi
      denominator(i) == (N ** (Zeta ** dom.extended[i])) -- (N ** gi)
  IN  [i \in 0 .. dom.size - 1 |-> Invert(denominator(i)) ** numerator(i)]

RotateOmega(dom, x, rotation) == x ** dom.omega[rotation % N]

(* l_i_range, for one i. *)
LI(dom, x, i) ==
  LET common == (Pow(x, N) -- 1) ** Invert(N)
  IN  RotateOmega(dom, Invert(x -- RotateOmega(dom, 1, i)) ** common, i)
=============================================================================
