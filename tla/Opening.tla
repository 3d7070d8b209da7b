------------------------------- MODULE Opening -------------------------------
(***************************************************************************)
(* The multi-open arguments: GWC and SHPLONK over KZG (halo2_backend) and  *)
(* the inner product argument of halo2-zcash, with the accumulators that   *)
(* verify several proofs by one check.                                     *)
(*                                                                         *)
(* A point of the curve is the vector of its coefficients over bases whose *)
(* discrete logarithms nobody knows: for KZG the powers of the secret, for *)
(* the inner product argument the generators g, then w and u.  An MSM is   *)
(* the point it evaluates to.  The transcript is a field element that      *)
(* everything read or written goes into, and challenges come from.         *)
(* A query names the polynomial, as the code does by its address.          *)
(***************************************************************************)
EXTENDS EvaluationDomain, Integers, Sequences, TLC
LOCAL INSTANCE SequencesExt

CONSTANTS
  Jobs,  \* scheme, strategy, polynomials, and the items to open and verify
  Draws  \* the transcript's hash and what the random number generator gives

VARIABLES
  job, draw,
  turn,     \* the phase and the item it is at
  work,     \* the prover's transcript, messages and local variables
  proofs,   \* what has been written for the items before this one
  accs,     \* the verifier's accumulator, or those of its chunks of the batch
  verdicts  \* what the verifier has said, and about which items

openVars == <<job, draw, turn, work, proofs, accs, verdicts>>

Items == DOMAIN job.items
Item  == job.items[turn.item]

Coeffs(name) == job.polys[name].coeffs
BlindOf(name) == job.polys[name].blind

-----------------------------------------------------------------------------
(* Points and polynomials are vectors; powers of a challenge combine them. *)
W == N
U == N + 1
Bases == 0 .. N + 1

VecAdd(a, b)   == [x \in DOMAIN a |-> a[x] ++ b[x]]
VecScale(k, a) == [x \in DOMAIN a |-> k ** a[x]]
a \uplus b     == VecAdd(a, b)
k \otimes a    == VecScale(k, a)

ZeroOn(domain) == [x \in domain |-> 0]
OnBase(base, scalar) == [b \in Bases |-> IF b = base THEN scalar ELSE 0]

Weighted(vectors, base) ==
  [x \in DOMAIN vectors[1] |-> Sum(Len(vectors), LAMBDA i : Pow(base, i - 1) ** vectors[i][x])]
WeightedSum(scalars, base) == Sum(Len(scalars), LAMBDA i : Pow(base, i - 1) ** scalars[i])
HornerVector(start, vectors, x) ==
  FoldLeft(LAMBDA acc, vector : (x \otimes acc) \uplus vector, start, vectors)

KzgCommit(coeffs) == [b \in Bases |-> IF b < N THEN coeffs[b] ELSE 0]
IpaCommit(coeffs, blind) ==
  [b \in Bases |-> IF b < N THEN coeffs[b] ELSE IF b = W THEN blind ELSE 0]

(* The pairing of an accumulator: the right channel is the left one times the
   secret. *)
PairingHolds(acc) ==
  \A b \in Bases : acc.right[b] = IF b = 0 THEN 0 ELSE acc.left[b - 1]

(* X - b divides the polynomial up to a constant, which is dropped. *)
KateDivision(a, b) ==
  LET q[i \in Rows] == IF i = N - 1 THEN 0 ELSE a[i + 1] ++ (b ** q[i + 1]) IN q
DivByVanishing(poly, points) == FoldLeft(KateDivision, poly, points)
Vanishing(points, z) == Product(Len(points), LAMBDA i : z -- points[i])

(* The polynomial of degree Len(points) - 1 with these values. *)
Interpolate(points, evals) ==
  LET timesLinear(poly, c0, c1) ==
        [c \in Rows |-> (poly[c] ** c0) ++ (IF c = 0 THEN 0 ELSE poly[c - 1] ** c1)]
      factor(j, poly, i) ==
        LET denom == Invert(points[j] -- points[i])
        IN  IF i = j THEN poly ELSE timesLinear(poly, 0 -- (denom ** points[i]), denom)
      basis(j) == FoldLeft(LAMBDA poly, i : factor(j, poly, i),
                           [c \in Rows |-> IF c = 0 THEN 1 ELSE 0], [i \in DOMAIN points |-> i])
  IN  Weighted([j \in DOMAIN points |-> evals[j] \otimes basis(j)], 1)

(* The transcript. *)
Challenge(t)        == (t ** t) ++ (draw.hash[1] ** t) ++ draw.hash[2]
Squeezed(t)         == (draw.hash[3] ** t) ++ 1
WithScalar(t, s)    == (draw.hash[4] ** t) ++ s
WithPoint(t, point) == Horner(t, [i \in 1 .. N + 2 |-> point[i - 1]], draw.hash[4])
WithAll(t, messages, With(_, _)) == FoldLeft(With, t, messages)

-----------------------------------------------------------------------------
(* Queries are grouped before anything is opened: by point for GWC, by the
   set of their points for the others. *)
Distinct(s) == FoldLeft(LAMBDA seen, x : IF Contains(seen, x) THEN seen ELSE Append(seen, x), << >>, s)

PolysIn(queries)  == Distinct([q \in DOMAIN queries |-> queries[q].poly])
PointsIn(queries) == Distinct([q \in DOMAIN queries |-> queries[q].point])

(* Two evaluations of one commitment at one point would be unsound. *)
Duplicated(queries) == \E a, b \in DOMAIN queries :
  a < b /\ queries[a].poly = queries[b].poly /\ queries[a].point = queries[b].point

QueryOf(queries, poly, point) ==
  queries[CHOOSE q \in DOMAIN queries : queries[q].poly = poly /\ queries[q].point = point]

(* The sets of points, in the order of the first polynomial opened at each;
   the points of a set in the order of `points`. *)
SetsIn(queries, points) ==
  LET polys == PolysIn(queries)
      at(poly) == SelectSeq(points, LAMBDA point : \E q \in DOMAIN queries :
                     queries[q].poly = poly /\ queries[q].point = point)
      sets == Distinct([p \in DOMAIN polys |-> at(polys[p])])
  IN  [s \in DOMAIN sets |-> [points |-> sets[s],
                              polys  |-> SelectSeq(polys, LAMBDA poly : at(poly) = sets[s])]]

SuperPointSet(queries) == SortSeq(PointsIn(queries), LAMBDA a, b : a < b)
RotationSets(queries)  == SetsIn(queries, SuperPointSet(queries))
PointSets(queries)     == SetsIn(queries, PointsIn(queries))
CommitmentData(queries) ==
  LET points == PointsIn(queries)
  IN  [s \in DOMAIN points |-> [point |-> points[s],
                                queries |-> SelectSeq(queries, LAMBDA q : q.point = points[s])]]

(* The points of the other sets. *)
Diffs(queries, set) == SelectSeq(SuperPointSet(queries), LAMBDA point : ~Contains(set.points, point))

-----------------------------------------------------------------------------
(* The provers.  Queries that are refused leave no proof. *)
Fresh == [stage |-> "start", out |-> << >>]
Opens(scheme, stage) ==
  /\ turn.phase = "open" /\ job.scheme = scheme /\ work.stage = stage
  /\ stage = "start" => ~Duplicated(Item.queries)

ProofWritten(out) ==
  /\ proofs' = Append(proofs, out) /\ work' = Fresh
  /\ turn' = IF turn.item < Len(job.items) THEN [turn EXCEPT !.item = @ + 1]
             ELSE [phase |-> "verify", item |-> 1]
  /\ UNCHANGED <<job, draw, accs, verdicts>>

Continue(next) == work' = next /\ UNCHANGED <<job, draw, turn, proofs, accs, verdicts>>

RefuseQueries ==
  /\ turn.phase = "open" /\ work.stage = "start" /\ Duplicated(Item.queries)
  /\ turn' = [turn EXCEPT !.phase = "refused"]
  /\ UNCHANGED <<job, draw, work, proofs, accs, verdicts>>

(* GWC: a witness for every point. *)
OpenGwc ==
  /\ Opens("gwc", "start")
  /\ LET v == Challenge(Item.seed)
         witness(at) ==
           LET batch == Weighted([q \in DOMAIN at.queries |-> Coeffs(at.queries[q].poly)], v)
               eval  == WeightedSum([q \in DOMAIN at.queries |->
                                       Eval(Coeffs(at.queries[q].poly), N, at.point)], v)
           IN  KzgCommit(KateDivision([batch EXCEPT ![0] = @ -- eval], at.point))
         data == CommitmentData(Item.queries)
     IN  ProofWritten([s \in DOMAIN data |-> witness(data[s])])

(* SHPLONK: R is the polynomial of low degree with the evaluations of P. *)
LowDegree(set, poly) ==
  Interpolate(set.points, [p \in DOMAIN set.points |-> Eval(Coeffs(poly), N, set.points[p])])

ExtendSets ==
  /\ Opens("shplonk", "start")
  /\ LET sets == RotationSets(Item.queries)
     IN  Continue([stage |-> "quotient", out |-> << >>, t |-> Squeezed(Squeezed(Item.seed)),
                   y |-> Challenge(Item.seed), v |-> Challenge(Squeezed(Item.seed)),
                   sets |-> [s \in DOMAIN sets |->
                     [points |-> sets[s].points, polys |-> sets[s].polys,
                      low |-> [m \in DOMAIN sets[s].polys |-> LowDegree(sets[s], sets[s].polys[m])]]]])

QuotientShplonk ==
  /\ Opens("shplonk", "quotient")
  /\ LET numerator(set) == Weighted([m \in DOMAIN set.polys |->
           Coeffs(set.polys[m]) \uplus ((P - 1) \otimes set.low[m])], work.y)
         hx == Weighted([s \in DOMAIN work.sets |->
                 DivByVanishing(numerator(work.sets[s]), work.sets[s].points)], work.v)
     IN  Continue([work EXCEPT !.stage = "linearise", !.out = <<KzgCommit(hx)>>,
                               !.t = WithPoint(@, KzgCommit(hx))] @@ [h |-> hx])

(* The second witness is normalised by what the first set is not opened at. *)
LineariseShplonk ==
  /\ Opens("shplonk", "linearise")
  /\ LET u    == Challenge(work.t)
         z(s) == Vanishing(Diffs(Item.queries, work.sets[s]), u)
         constant(c) == [r \in Rows |-> IF r = 0 THEN c ELSE 0]
         linear(set) == Weighted([m \in DOMAIN set.polys |->
           Coeffs(set.polys[m]) \uplus constant(0 -- Eval(set.low[m], N, u))], work.y)
         lx == Weighted([s \in DOMAIN work.sets |-> z(s) \otimes linear(work.sets[s])], work.v)
                 \uplus ((0 -- Vanishing(SuperPointSet(Item.queries), u)) \otimes work.h)
     IN  /\ z(1) # 0
         /\ ProofWritten(Append(work.out, KzgCommit(Invert(z(1)) \otimes KateDivision(lx, u))))

-----------------------------------------------------------------------------
(* The inner product argument: multiopen::create_proof collapses the openings
   into one polynomial p at x_3 ... *)
CollapseOpenings ==
  /\ Opens("ipa", "start")
  /\ LET x1   == Challenge(Item.seed)
         x2   == Challenge(Squeezed(Item.seed))
         sets == PointSets(Item.queries)
         qs   == [s \in DOMAIN sets |->
                    HornerVector(ZeroOn(Rows), [m \in DOMAIN sets[s].polys |-> Coeffs(sets[s].polys[m])], x1)]
         blinds == [s \in DOMAIN sets |->
                      Horner(0, [m \in DOMAIN sets[s].polys |-> BlindOf(sets[s].polys[m])], x1)]
         prime  == HornerVector(ZeroOn(Rows),
                     [s \in DOMAIN sets |-> DivByVanishing(qs[s], sets[s].points)], x2)
         commitment == IpaCommit(prime, draw.noise[0])
     IN  Continue([stage |-> "evaluate", t |-> WithPoint(Squeezed(Squeezed(Item.seed)), commitment),
                   out |-> <<commitment>>, qs |-> qs, blinds |-> blinds, prime |-> prime])

(* ... whose parts it evaluates there ... *)
EvaluateOpenings ==
  /\ Opens("ipa", "evaluate")
  /\ LET x3 == Challenge(work.t)
         evals == [s \in DOMAIN work.qs |-> Eval(work.qs[s], N, x3)]
         t4 == WithAll(Squeezed(work.t), evals, WithScalar)
         x4 == Challenge(t4)
     IN  Continue([stage |-> "mask", t |-> Squeezed(t4), x3 |-> x3, out |-> work.out \o evals,
                   p |-> HornerVector(work.prime, work.qs, x4),
                   blind |-> Horner(draw.noise[0], work.blinds, x4)])

(* ... commitment::create_proof masks p with a random polynomial that has a
   root at x_3, and moves its value out ... *)
MaskPolynomial ==
  /\ Opens("ipa", "mask")
  /\ LET random == [c \in Rows |-> draw.noise[1 + c]]
         s      == [random EXCEPT ![0] = @ -- Eval(random, N, work.x3)]
         sBlind == draw.noise[N + 1]
         commitment == IpaCommit(s, sBlind)
         t  == WithPoint(work.t, commitment)
         xi == Challenge(t)
         z  == Challenge(Squeezed(t))
         p  == (xi \otimes s) \uplus work.p
     IN  Continue([stage |-> "round", t |-> Squeezed(Squeezed(t)), z |-> z, j |-> 0,
                   out |-> Append(work.out, commitment),
                   p |-> [p EXCEPT ![0] = @ -- Eval(p, N, work.x3)],
                   f |-> (sBlind ** xi) ++ work.blind,
                   b |-> [i \in Rows |-> Pow(work.x3, i)],
                   g |-> [i \in Rows |-> [b \in Bases |-> IF b = i THEN 1 ELSE 0]]])

(* ... and halves it, its powers and its generators in every round ... *)
HalveVectors ==
  /\ Opens("ipa", "round") /\ work.j < K
  /\ LET half  == 2 ^ (K - work.j - 1)
         low   == 0 .. half - 1
         point(from, to, random) ==  \* entries of p from `from` with those of b and g from `to`
           LET value == Sum(half, LAMBDA i : work.p[from + i - 1] ** work.b[to + i - 1])
           IN  [b \in Bases |-> Sum(half, LAMBDA i : work.p[from + i - 1] ** work.g[to + i - 1][b])
                                  ++ (IF b = U THEN value ** work.z ELSE IF b = W THEN random ELSE 0)]
         lRandom == draw.noise[N + 2 + 2 * work.j]
         rRandom == draw.noise[N + 3 + 2 * work.j]
         l == point(half, 0, lRandom)
         r == point(0, half, rRandom)
         t == WithPoint(WithPoint(work.t, l), r)
         u == Challenge(t)
     IN  /\ u # 0
         /\ Continue([work EXCEPT !.j = @ + 1, !.t = Squeezed(t), !.out = @ \o <<l, r>>,
               !.p = [i \in low |-> @[i] ++ (@[i + half] ** Invert(u))],
               !.b = [i \in low |-> @[i] ++ (@[i + half] ** u)],
               !.g = [i \in low |-> @[i] \uplus (u \otimes @[i + half])],
               !.f = @ ++ (lRandom ** Invert(u)) ++ (rRandom ** u)])

(* ... until one scalar is left. *)
WriteScalars ==
  /\ Opens("ipa", "round") /\ work.j = K
  /\ ProofWritten(work.out \o <<work.p[0], work.f>>)

-----------------------------------------------------------------------------
(* The verifiers.  A claim says what a commitment, which may be a combination
   of commitments, is at a point. *)
Claims(i) == job.items[i].claims
Seed(i)   == job.items[i].seed

CommitmentOf(claims, poly) ==
  LET terms == claims[CHOOSE q \in DOMAIN claims : claims[q].poly = poly].terms
      commit(name) == IF job.scheme = "ipa" THEN IpaCommit(Coeffs(name), BlindOf(name))
                      ELSE KzgCommit(Coeffs(name))
  IN  Weighted([m \in DOMAIN terms |-> terms[m][1] \otimes commit(terms[m][2])], 1)

GwcAccumulated(acc, i) ==
  LET claims == Claims(i)
      w    == proofs[i]
      v    == Challenge(Seed(i))
      data == CommitmentData(claims)
      u    == Challenge(WithAll(Squeezed(Seed(i)), SubSeq(w, 1, Len(data)), WithPoint))
      batch(at) == Weighted([q \in DOMAIN at.queries |-> CommitmentOf(claims, at.queries[q].poly)], v)
      eval(at)  == WeightedSum([q \in DOMAIN at.queries |-> at.queries[q].eval], v)
  IN  [left  |-> acc.left \uplus Weighted([s \in DOMAIN data |-> w[s]], u),
       right |-> acc.right
         \uplus Weighted([s \in DOMAIN data |-> data[s].point \otimes w[s]], u)
         \uplus Weighted([s \in DOMAIN data |-> batch(data[s])], u)
         \uplus OnBase(0, 0 -- WeightedSum([s \in DOMAIN data |-> eval(data[s])], u))]

ShplonkAccumulated(acc, i) ==
  LET claims == Claims(i)
      sets == RotationSets(claims)
      h1 == proofs[i][1]
      h2 == proofs[i][2]
      y  == Challenge(Seed(i))
      v  == Challenge(Squeezed(Seed(i)))
      u  == Challenge(WithPoint(Squeezed(Squeezed(Seed(i))), h1))
      z(s) == Vanishing(Diffs(claims, sets[s]), u)
      coefficient(s) == Pow(v, s - 1) ** (IF s = 1 THEN 1 ELSE z(s) ** Invert(z(1)))
      inner(set)  == Weighted([m \in DOMAIN set.polys |-> CommitmentOf(claims, set.polys[m])], y)
      evals(set, poly) == [p \in DOMAIN set.points |-> QueryOf(claims, poly, set.points[p]).eval]
      rInner(set) == WeightedSum([m \in DOMAIN set.polys |->
                       Eval(Interpolate(set.points, evals(set, set.polys[m])), N, u)], y)
  IN  [left  |-> acc.left \uplus h2,
       right |-> acc.right
         \uplus Weighted([s \in DOMAIN sets |-> coefficient(s) \otimes inner(sets[s])], 1)
         \uplus OnBase(0, 0 -- Sum(Len(sets), LAMBDA s : coefficient(s) ** rInner(sets[s])))
         \uplus ((0 -- Vanishing(sets[1].points, u)) \otimes h1) \uplus (u \otimes h2)]

EmptyDual == [left |-> ZeroOn(Bases), right |-> ZeroOn(Bases)]
Accumulated(acc, i) == IF job.scheme = "gwc" THEN GwcAccumulated(acc, i) ELSE ShplonkAccumulated(acc, i)

-----------------------------------------------------------------------------
(* multiopen::verify_proof: the one opening the claims come to. *)
ClaimedOpening(i) ==
  LET claims == Claims(i)
      proof == proofs[i]
      sets  == PointSets(claims)
      x1 == Challenge(Seed(i))
      x2 == Challenge(Squeezed(Seed(i)))
      commitment(set) == LET last == Reverse(set.polys)
                         IN  Weighted([m \in DOMAIN last |-> CommitmentOf(claims, last[m])], x1)
      eval(set, point) == LET last == Reverse(set.polys)
                          IN  WeightedSum([m \in DOMAIN last |-> QueryOf(claims, last[m], point).eval], x1)
      t3 == WithPoint(Squeezed(Squeezed(Seed(i))), proof[1])
      x3 == Challenge(t3)
      us == SubSeq(proof, 2, Len(sets) + 1)
      t4 == WithAll(Squeezed(t3), us, WithScalar)
      x4 == Challenge(t4)
      r(set) == Interpolate(set.points, [p \in DOMAIN set.points |-> eval(set, set.points[p])])
      quotient(s) == (us[s] -- Eval(r(sets[s]), N, x3)) ** Invert(Vanishing(sets[s].points, x3))
  IN  [t |-> Squeezed(t4), x |-> x3, rest |-> SubSeq(proof, Len(sets) + 2, Len(proof)),
       msm |-> HornerVector(proof[1], [s \in DOMAIN sets |-> commitment(sets[s])], x4),
       v   |-> Horner(Horner(0, [s \in DOMAIN sets |-> quotient(s)], x2), us, x4)]

(* What the vectors of powers and of generators have been folded into. *)
ComputeB(x, u) == Product(K, LAMBDA i : 1 ++ (u[K - i + 1] ** Pow(x, 2 ^ (i - 1))))
(* fault: the challenges of the rounds in the order they were drawn *)
ComputeSForward(u, init) ==
  [b \in Bases |-> IF b >= N THEN 0
     ELSE init ** Product(K, LAMBDA i : IF (b \div 2 ^ (i - 1)) % 2 = 1 THEN u[i] ELSE 1)]

ComputeS(u, init) ==
  [b \in Bases |-> IF b >= N THEN 0
     ELSE init ** Product(K, LAMBDA i : IF (b \div 2 ^ (i - 1)) % 2 = 1 THEN u[K - i + 1] ELSE 1)]

(* commitment::verify_proof.  The guard leaves out the term of the folded
   generator, which is computed or supplied. *)
WithRound(t, rest, j) == WithPoint(WithPoint(t, rest[2 * j]), rest[2 * j + 1])
GuardFrom(claim, t0) ==
  LET rest == claim.rest
      t[j \in 0 .. K] == IF j = 0 THEN Squeezed(Squeezed(t0)) ELSE Squeezed(WithRound(t[j - 1], rest, j))
      u == [j \in 1 .. K |-> Challenge(WithRound(t[j - 1], rest, j))]
      c == rest[2 * K + 2]
      f == rest[2 * K + 3]
      msm(us) == claim.msm \uplus OnBase(0, 0 -- claim.v) \uplus (Challenge(t0) \otimes rest[1])
        \uplus Weighted([j \in 1 .. K |-> (Invert(us[j]) \otimes rest[2 * j])
                                            \uplus (us[j] \otimes rest[2 * j + 1])], 1)
        \uplus OnBase(U, 0 -- (c ** ComputeB(claim.x, us) ** Challenge(Squeezed(t0))))
        \uplus OnBase(W, 0 -- f)
  IN  [negC |-> 0 -- c, u |-> u, msm |-> msm(u)]
GuardFor(claim) == GuardFrom(claim, WithPoint(claim.t, claim.rest[1]))
GuardOf(i)      == GuardFor(ClaimedOpening(i))

UseChallenges(guard) == guard.msm \uplus ComputeS(guard.u, guard.negC)
UseG(guard)          == guard.msm \uplus (guard.negC \otimes ComputeS(guard.u, 1))
GuardMsm(guard)      == IF job.strategy = "g" THEN UseG(guard) ELSE UseChallenges(guard)

-----------------------------------------------------------------------------
(* An error: a commitment claimed twice at a point, or a proof that ends early. *)
Needed(i) == CASE job.scheme = "gwc"     -> Len(PointsIn(Claims(i)))
               [] job.scheme = "shplonk" -> 2
               [] OTHER                  -> Len(PointSets(Claims(i))) + 2 * K + 4
Readable(i) == ~Duplicated(Claims(i)) /\ Len(proofs[i]) >= Needed(i)

Verifies(strategy) == turn.phase = "verify" /\ job.strategy = strategy
Says(items, ok)    == verdicts' = Append(verdicts, [items |-> items, ok |-> ok])
Closed             == turn' = [turn EXCEPT !.phase = "closed"]

(* One check for every proof. *)
VerifyAlone ==
  /\ Verifies("single") \/ Verifies("g")
  /\ Says({turn.item}, Readable(turn.item)
       /\ IF job.scheme = "ipa" THEN GuardMsm(GuardOf(turn.item)) = ZeroOn(Bases)
          ELSE PairingHolds(Accumulated(EmptyDual, turn.item)))
  /\ IF turn.item < Len(job.items) THEN turn' = [turn EXCEPT !.item = @ + 1] ELSE Closed
  /\ UNCHANGED <<job, draw, work, proofs, accs>>

(* AccumulatorStrategy: what came before is scaled at random. *)
ProcessNext ==
  /\ Verifies("accumulate") /\ turn.item \in Items /\ Readable(turn.item)
  /\ accs' = Accumulated([left |-> draw.scale[turn.item] \otimes accs.left,
                          right |-> draw.scale[turn.item] \otimes accs.right],
                         turn.item)
  /\ turn' = [turn EXCEPT !.item = @ + 1]
  /\ UNCHANGED <<job, draw, work, proofs, verdicts>>

ProcessFails ==
  /\ Verifies("accumulate") /\ turn.item \in Items /\ ~Readable(turn.item)
  /\ Says(Items, FALSE) /\ Closed
  /\ UNCHANGED <<job, draw, work, proofs, accs>>

FinalizeAccumulator ==
  /\ Verifies("accumulate") /\ turn.item \notin Items
  /\ Says(Items, PairingHolds(accs)) /\ Closed
  /\ UNCHANGED <<job, draw, work, proofs, accs>>

(* BatchVerifier: chunks of the batch are verified and folded in parallel, and
   joined with the chunk that follows. *)
VerifyItem(i) ==
  /\ Verifies("batch") /\ \A chunk \in accs : i \notin chunk.first .. chunk.last
  /\ Readable(i)
  /\ accs' = accs \cup {[first |-> i, last |-> i, msm |-> UseChallenges(GuardOf(i))]}
  /\ UNCHANGED <<job, draw, turn, work, proofs, verdicts>>

JoinChunks(a, b) ==
  /\ Verifies("batch") /\ b.first = a.last + 1
  /\ accs' = (accs \ {a, b})
       \cup {[first |-> a.first, last |-> b.last, msm |-> (draw.scale[a.last] \otimes a.msm) \uplus b.msm]}
  /\ UNCHANGED <<job, draw, turn, work, proofs, verdicts>>

BatchFails(i) ==
  /\ Verifies("batch") /\ ~Readable(i)
  /\ Says(Items, FALSE) /\ Closed
  /\ UNCHANGED <<job, draw, work, proofs, accs>>

FinalizeBatch(whole) ==
  /\ Verifies("batch") /\ whole.first = 1 /\ whole.last = Len(job.items)
  /\ Says(Items, whole.msm = ZeroOn(Bases)) /\ Closed
  /\ UNCHANGED <<job, draw, work, proofs, accs>>

OpenInit ==
  /\ job \in Jobs /\ draw \in Draws
  /\ turn = [phase |-> "open", item |-> 1] /\ work = Fresh /\ proofs = << >> /\ verdicts = << >>
  /\ accs = IF job.strategy = "batch" THEN {} ELSE EmptyDual

OpenNext ==
  \/ RefuseQueries \/ OpenGwc \/ ExtendSets \/ QuotientShplonk \/ LineariseShplonk
  \/ CollapseOpenings \/ EvaluateOpenings \/ MaskPolynomial \/ HalveVectors \/ WriteScalars
  \/ VerifyAlone \/ ProcessNext \/ ProcessFails \/ FinalizeAccumulator
  \/ (\E i \in Items : VerifyItem(i) \/ BatchFails(i))
  \/ (Verifies("batch") /\ \E a \in accs : FinalizeBatch(a) \/ \E b \in accs : JoinChunks(a, b))

OpenReturned == turn.phase \in {"closed", "refused"}

OpenSpec == OpenInit /\ [][OpenNext]_openVars

-----------------------------------------------------------------------------
(* A claim is true if the commitment is to the polynomial that the prover has
   opened, and its value at the point is the one claimed. *)
TrueClaim(query, claim) ==
  /\ query.poly = claim.poly /\ query.point = claim.point
  /\ claim.eval = Eval(Coeffs(query.poly), N, query.point)
  /\ CommitmentOf(<<claim>>, claim.poly)
       = CommitmentOf(<<[claim EXCEPT !.terms = <<<<1, query.poly>>>>]>>, claim.poly)
True(i) == LET queries == job.items[i].queries IN
  Len(queries) = Len(Claims(i)) /\ \A q \in DOMAIN queries : TrueClaim(queries[q], Claims(i)[q])

(* multiopen_test.rs test_roundtrip and test_identical_queries, for every
   scheme, grouping, number of items and way to accumulate: a verdict is that
   all the claims it is about are true, whatever might cancel between two
   proofs of a batch. *)
OpenedIffTrue ==
  \A n \in DOMAIN verdicts : verdicts[n].ok <=> \A i \in verdicts[n].items : True(i)
=============================================================================
