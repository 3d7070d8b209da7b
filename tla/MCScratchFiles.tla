--------------------------- MODULE MCScratchFiles ---------------------------
(***************************************************************************)
(* ZcashEvaluator, FourStep, ZcashProof, Arithmetic and ZcashDomain for    *)
(* TLC: two users of scratch files, the prover the first of them belongs   *)
(* to, and that prover's arithmetic and polynomials, which share no state  *)
(* here, checked in one run.                                               *)
(* `which` is chosen at the start and says which of them runs; the others  *)
(* stay where they begin.                                                  *)
(***************************************************************************)
EXTENDS FourStep, SequencesExt

CONSTANTS
  t1, d1, \* the caller of the transform and its directory
  Base, Extension, P, Omega, Zeta, ThreadCounts, PerThread

VARIABLES which,
          zcashCall, place, h, files, named, spilled, thread, out,
          session, cs, pk, vk, lag, point, coset, pair, chal, tape, vf, stage,
          arithJob, slots, finished, total, arithStage,
          domJob, domain, leaves, computed, result, quotient, domStage

MCDirOf == [t \in {t1} |-> d1]

-----------------------------------------------------------------------------
(* Two cosets of eight rows, without a symmetry between rows, modulo 73,
   where omega = 10 has order 8. *)
MCCosets == (0 :> [r \in 0 .. 7 |-> (3 * r * r + 5) % 73]) @@ (1 :> [r \in 0 .. 7 |-> (7 * r + 2) % 73])

(* DistributePowers over a constraint with rotations -1 and 1 and a linear
   term; the largest rotation but one, scaled by -1. *)
MCAsts == {
  << <<"constant", 0>>, <<"poly", 0, -1>>, <<"poly", 1, 1>>, <<"mul">>, <<"fold", 5>>,
     <<"linear", 2>>, <<"fold", 5>> >>,
  << <<"poly", 0, 2>>, <<"scale", 72>>, <<"poly", 0, 0>>, <<"add">> >> }

ZE == INSTANCE ZcashEvaluator WITH
        Base <- Base, Extension <- Extension, P <- P, Omega <- Omega, Zeta <- Zeta,
        Cosets <- MCCosets, Asts <- MCAsts, ThreadCounts <- ThreadCounts, PerThread <- PerThread,
        call <- zcashCall, pc <- place, h <- h, files <- files, named <- named, spilled <- spilled,
        thread <- thread, out <- out

ASSUME ZE!EvaluatorAssumption

zcash == <<zcashCall, place, h, files, named, spilled, thread, out>>

-----------------------------------------------------------------------------
(* ZcashProof: 16 rows over the integers modulo 12097, of which 10 are usable,
   and a coset of 16 to 64. *)
A(c) == <<"advice", c>>
F(c) == <<"fixed", c>>
I(c) == <<"instance", c>>
At(column, rotation) == column \o <<rotation>>
Times(k, columns)    == << <<k, [q \in DOMAIN columns |-> At(columns[q], 0)]>> >>
Minus == 12096

(* q (a1 a2 - a3) = 0, q (a3 - a1 next) = 0, and where l is set (a1, a3) is a
   row of the table of squares; five columns with copies, in two sets. *)
Square ==
  [advice |-> 3, instance |-> 1, fixed |-> 4, minDegree |-> 0,
   gates |-> << Times(1, <<F(1), A(1), A(2)>>) \o Times(Minus, <<F(1), A(3)>>),
                Times(1, <<F(1), A(3)>>) \o << <<Minus, <<At(F(1), 0), At(A(1), 1)>>>> >> >>,
   lookups |-> << [inputs |-> <<Times(1, <<F(2), A(1)>>), Times(1, <<F(2), A(3)>>)>>,
                   tables |-> <<Times(1, <<F(3)>>), Times(1, <<F(4)>>)>>] >>,
   equality |-> <<A(1), A(2), A(3), I(1), F(3)>>]

(* The squares of 0, 1, 2 and 3, then 0 again; a2 = a1 = p1 = 3, p2 = a3. *)
SquareLayout ==
  << <<"fixed", 1, 0, 1>>, <<"fixed", 1, 1, 1>>, <<"fixed", 2, 0, 1>> >>
  \o [r \in 1 .. 4 |-> <<"fixed", 3, r - 1, r - 1>>] \o [r \in 1 .. 4 |-> <<"fixed", 4, r - 1, (r - 1) * (r - 1)>>]
  \o << <<"fill", 3, 4, 1>>, <<"fill", 4, 4, 1>>, <<"instance", 1, 0>>,
        <<"copy", <<A(2), 0>>, <<A(1), 0>>>>, <<"copy", <<I(1), 0>>, <<F(3), 3>>>>,
        <<"copy", <<A(1), 0>>, <<I(1), 0>>>>, <<"copy", <<A(2), 0>>, <<F(3), 3>>>>,
        <<"copy", <<A(3), 1>>, <<I(1), 1>>>> >>
(* 3 squared is s, times b is p. *)
SquareWitness(s, b, p) ==
  << <<"advice", 1, 0, 3>>, <<"advice", 2, 0, 3>>, <<"advice", 3, 0, s>>,
     <<"advice", 1, 1, s>>, <<"advice", 2, 1, b>>, <<"advice", 3, 1, p>>, <<"advice", 1, 2, p>> >>

Honest(circuit, layout, witness, instances) ==
  [circuit |-> circuit, layout |-> layout, verified |-> layout, witness |-> witness,
   claims |-> instances, expects |-> instances, faults |-> {}]
One == Honest(Square, SquareLayout, <<SquareWitness(9, 4, 36)>>, << << <<3, 36>> >> >>)
Two == Honest(Square, SquareLayout, <<SquareWitness(9, 4, 36), SquareWitness(9, 5, 45)>>,
              << << <<3, 36>> >>, << <<3, 45>> >> >>)

Zeroes(n)   == [k \in 1 .. n |-> 0]
With(op)    == Append(SquareLayout, op)
Claim(i)    == [One EXCEPT !.claims = i, !.expects = i]
Expect(i)   == [One EXCEPT !.expects = i]
Keys(l, v)  == [One EXCEPT !.layout = l, !.verified = v]
Assign(ops) == [One EXCEPT !.witness[1] = @ \o ops]

(* Two lookups, one of them over a rotated column; no copies and no gates. *)
Twice ==
  [advice |-> 2, instance |-> 0, fixed |-> 1, minDegree |-> 0, gates |-> << >>,
   lookups |-> << [inputs |-> <<Times(1, <<A(1)>>)>>, tables |-> <<Times(1, <<F(1)>>)>>],
                  [inputs |-> << << <<1, <<At(A(2), -1)>>>> >> >>, tables |-> <<Times(1, <<F(1)>>)>>] >>,
   equality |-> << >>]
TwiceWith(v) == Honest(Twice, << <<"fixed", 1, 0, 5>>, <<"fill", 1, 7, 2>> >>,
                       << << <<"advice", 1, 3, 5>>, <<"advice", 1, 9, 2>>, <<"advice", 2, 4, v>> >> >>, << << >> >>)
(* A gate on every row, of which the last are random, and a2, which is zero there. *)
Open == [Twice EXCEPT !.gates = <<Times(1, <<A(1)>>)>>, !.lookups = << >>, !.minDegree = 4]
(* As many openings as leave no usable row. *)
Many == [Twice EXCEPT !.gates = << [r \in 1 .. 12 |-> <<1, <<At(F(1), 0), At(A(1), r)>>>>] >>]

(* What is true, also with two proofs, zeros at the end of the instances, or
   another order of the layout; what a gate, a copy or a lookup refutes; what is
   asked about other instances or keys; and what is refused before. *)
MCSessions ==
  { [One EXCEPT !.faults = {"cut", "alter"}], Two, TwiceWith(2),
    Expect(<< << <<3, 36, 0>> >> >>), Keys(SquareLayout, With(<<"copy", <<I(1), 0>>, <<A(2), 0>>>>)),
    Assign(<< <<"advice", 2, 1, 5>> >>), [Two EXCEPT !.witness[2] = SquareWitness(9, 5, 46)],
    Claim(<< << <<3, 37>> >> >>), Assign(<< <<"advice", 3, 0, 10>> >>), TwiceWith(3),
    Honest(Open, << >>, << << >> >>, << << >> >>), Honest(Many, << >>, << << >> >>, << << >> >>),
    Expect(<< << <<3, 45>> >> >>), Expect(<< << <<3, 36>> \o Zeroes(9) >> >>), Expect(<< << <<3, 36>>, <<3>> >> >>),
    Expect(Two.claims), [Two EXCEPT !.expects = One.claims],
    Keys(SquareLayout, With(<<"fixed", 2, 1, 1>>)), Keys(SquareLayout, With(<<"copy", <<A(2), 1>>, <<A(2), 2>>>>)),
    Keys(SquareLayout, With(<<"fixed", 2, 10, 1>>)), Keys(With(<<"copy", <<F(4), 1>>, <<A(2), 2>>>>), SquareLayout),
    Claim(Two.claims), Claim(<< << <<3, 36>> \o Zeroes(9) >> >>), Claim(<< << >> >>),
    Assign(<< <<"advice", 1, 10, 1>> >>), Assign(<< <<"instance", 1, 2>> >>) }

MCRandom(name, row) ==
  LET kind == CASE name[1] = "advice" -> 1 [] name[1] = "input" -> 2 [] name[1] = "table" -> 3
                [] name[1] = "lookup" -> 4 [] name[1] = "perm" -> 5 [] name[1] = "random" -> 6 [] OTHER -> 7
      seed == kind * 31 + name[2] * 17 + name[3] * 7 + row * 219
  IN  (((seed * seed) % 12097) * seed + 11 * row + 6) % 12097

ZP == INSTANCE ZcashProof WITH
        P <- 12097, S <- 6, RootOfUnity <- 9763, Zeta <- 190, Delta <- 2911, K <- 4,
        Sessions <- MCSessions, Random <- MCRandom,
        session <- session, cs <- cs, pk <- pk, vk <- vk, lag <- lag, point <- point, coset <- coset,
        pair <- pair, chal <- chal, tape <- tape, vf <- vf, stage <- stage

zp == <<session, cs, pk, vk, lag, point, coset, pair, chal, tape, vf, stage>>

-----------------------------------------------------------------------------
(* Arithmetic: scalars of two bytes; omega of order 8, 4, 2 and 1 modulo 17;
   pools of one to eight threads, which decide between one thread and many. *)
FftJob(logN, omega, threads) ==
  [kind |-> "fft", p |-> 17, threads |-> threads, logN |-> logN, omega |-> omega,
   values |-> [j \in 1 .. 2 ^ logN |-> (3 * j * j + 5 * j + 1) % 17]]
MultiexpJob(kind, coeffs, threads) ==
  [kind |-> kind, p |-> 251, threads |-> threads, coeffs |-> coeffs,
   bases |-> [j \in DOMAIN coeffs |-> (17 * j * j + 40) % 251]]
Scalars == << 65535, 46811, 32769, 256, 255, 0 >>
ChunkJob(n, threads) == [kind |-> "parallelize", p |-> 17, threads |-> threads, n |-> n, omega |-> 2]
SmallPolys == {<<5>>, <<3, 0>>, <<1, 16, 2, 9>>, <<0, 0, 7, 4, 11>>}

MCArithJobs ==
  {FftJob(f[1], f[2], threads) : f \in {<<3, 2>>, <<2, 4>>, <<1, 16>>, <<0, 1>>}, threads \in {1, 2, 3, 8}}
  \cup {MultiexpJob("multiexp", SubSeq(Scalars, 1, length), threads) : length \in 4 .. 6, threads \in {2, 8}}
  \cup {MultiexpJob("multiexp", SubSeq(Scalars, 1, length), 4) : length \in 0 .. 3}
  \cup {MultiexpJob("multiexp", [j \in 1 .. 33 |-> (j * 1987 + 61) % 65536], threads) : threads \in {8, 40}}
  \cup {MultiexpJob("small", SubSeq(Scalars, 1, length), 1) : length \in {1, 6}}
  \cup {ChunkJob(n, threads) : n \in {0, 1, 7, 8, 9}, threads \in 1 .. 3}
  \cup [kind : {"eval", "kate"}, p : {17}, threads : {1}, poly : SmallPolys, x : {0, 1, 6}]
  \cup {[kind |-> "inner", p |-> 17, threads |-> 1, poly |-> poly, evals |-> Reverse(poly)] : poly \in SmallPolys}
  \cup {[kind |-> "lagrange", p |-> 17, threads |-> 1, points |-> SubSeq(<<3, 0, 16, 8>>, 1, n),
          evals |-> SubSeq(evals, 1, n)] : n \in 1 .. 4, evals \in {<<2, 9, 1, 0>>, <<0, 0, 5, 7>>}}

AR == INSTANCE Arithmetic WITH
        ScalarBytes <- 2, ArithJobs <- MCArithJobs, arithJob <- arithJob, slots <- slots,
        finished <- finished, total <- total, arithStage <- arithStage

arith == <<arithJob, slots, finished, total, arithStage>>

-----------------------------------------------------------------------------
(* ZcashDomain: the integers modulo 97, where 5 generates, 28 = 5^3 has order
   32 and 35 = 5^32 order 3; modulo 13, 5 has order 4 and 3 order 3. *)
Field97 == [p |-> 97, S |-> 5, root |-> 28, zeta |-> 35]
Field13 == [p |-> 13, S |-> 2, root |-> 5, zeta |-> 3]
DomainJob(field, k, j, columns, turn, basis, chunk, ast) ==
  [p |-> field.p, S |-> field.S, root |-> field.root, zeta |-> field.zeta, k |-> k, j |-> j,
   columns |-> columns, turn |-> turn, basis |-> basis, chunk |-> chunk, ast |-> ast]
Cell(c, r) == <<"poly", c, r>>
(* The third column is the first times the next of the second, and the fourth
   is off in one row. *)
FourRows  == << <<3, 0, 7, 11>>, <<2, 5, 96, 4>>, <<15, 0, 28, 22>>, <<15, 0, 28, 23>> >>
Product(c) == <<"sub", <<"mul", Cell(1, 0), Cell(2, 1)>>, Cell(c, 0)>>
Folded(c) == <<"powers", <<Product(c), <<"neg", <<"mul", Product(c), <<"linear", 6>>>>>>, <<"scale", Product(c), 9>>>>, 5>>
Line == <<"sub", <<"powers", << <<"linear", 4>>, <<"constant", 3>> >>, 7>>, <<"neg", <<"linear", 2>>>>>>
EightRows == << <<1, 2, 3, 5, 8, 13, 21, 34>>, <<9, 8, 7, 6, 5, 4, 3, 2>> >>
Shifted == <<"add", <<"scale", Cell(1, -3), 2>>, <<"mul", Cell(2, 2), <<"linear", 1>>>>>>
MCDomainJobs ==
  {DomainJob(Field97, 2, j, FourRows, turn, "extended", 5, ast) :
     j \in {4, 5}, turn \in {0, -1, 5}, ast \in {Product(4), Folded(3)}}
  \cup {DomainJob(Field97, 2, j, FourRows, 0, "extended", 7, Cell(1, 0)) : j \in {1, 2, 9, 10}}
  \cup {DomainJob(Field97, 3, 3, EightRows, turn, basis, 6, Shifted) : turn \in {0, -2}, basis \in {"lagrange", "extended"}}
  \cup {DomainJob(Field97, 2, 3, FourRows, turn, "lagrange", chunk, Folded(4)) : turn \in {0, -4, -5}, chunk \in {1, 3}}
  \cup {DomainJob(Field97, 2, 3, << >>, 0, "coeff", chunk, ast) : chunk \in {1, 2, 5}, ast \in {Line, <<"constant", 8>>, Cell(1, 0)}}
  \cup {DomainJob(Field13, 2, j, << >>, 0, basis, 2, Line) : j \in {2, 3}, basis \in {"coeff", "extended"}}

ZD == INSTANCE ZcashDomain WITH
        DomainJobs <- MCDomainJobs, domJob <- domJob, domain <- domain, leaves <- leaves,
        computed <- computed, result <- result, quotient <- quotient, domStage <- domStage

zdomain == <<domJob, domain, leaves, computed, result, quotient, domStage>>

-----------------------------------------------------------------------------
FirstZcash == CHOOSE c \in [ast : MCAsts, threads : ThreadCounts] : TRUE

(* Only the one that runs has a choice where it begins. *)
MCInit ==
  /\ Init /\ ZE!Init /\ ZP!Init /\ AR!ArithInit /\ ZD!DomainInit
  /\ which \in {"four", "zcash", "proof", "arithmetic", "domain"}
  /\ which # "proof" => session = Two
  /\ which \in {"proof", "arithmetic", "domain"} => zcashCall = FirstZcash
  /\ which # "arithmetic" => arithJob = ChunkJob(1, 1)
  /\ which # "domain" => domJob = DomainJob(Field13, 2, 2, << >>, 0, "coeff", 2, Line)

FourWork  == which = "four"  /\ Work(t1) /\ UNCHANGED <<zcash, zp, arith, zdomain, which>>
FourOther == which = "four"  /\ (Call(t1) \/ Fail(t1)) /\ UNCHANGED <<zcash, zp, arith, zdomain, which>>
ZcashStep == which = "zcash" /\ ZE!Next /\ UNCHANGED <<vars, zp, arith, zdomain, which>>
ProofStep == which = "proof" /\ ZP!Next /\ UNCHANGED <<vars, zcash, arith, zdomain, which>>
ArithStep == which = "arithmetic" /\ AR!ArithNext /\ UNCHANGED <<vars, zcash, zp, zdomain, which>>
DomainStep == which = "domain" /\ ZD!DomainNext /\ UNCHANGED <<vars, zcash, zp, arith, which>>

MCNext == FourWork \/ FourOther \/ ZcashStep \/ ProofStep \/ ArithStep \/ DomainStep

all == <<vars, zcash, zp, arith, zdomain, which>>
(* The fairness of the two specifications that have one. *)
MCSpec == MCInit /\ [][MCNext]_all /\ WF_all(FourWork) /\ WF_all(ZcashStep)

-----------------------------------------------------------------------------
(* The type invariants: types, the files that exist at each stage and the
   bounds of every loop; columns, commitments and what is left of a proof. *)
BothTyped == TypeOK /\ ZE!TypeOK /\ ZP!TypeOK

(* halo2-zcash: the verifier accepts exactly what is true of its key and its
   instances, and nothing is refused without cause. *)
VerdictRight == ZP!VerdictRight /\ ZP!FailedForCause

(* Work that threads share, in any order: the evaluator's chunks and the
   arithmetic under it return what one thread would have computed, and so do
   the evaluator's chunks in the other bases, between the domain's transforms. *)
SharedWorkExact == ZE!ChunksExact /\ AR!WorkersExact /\ ZD!VectorsExact

(* Every call of the transform returns, and the comparison of the two
   evaluators is reached and holds. *)
BothReturn == (which = "four" => Terminates) /\ (which = "zcash" => ZE!Agrees)
=============================================================================
