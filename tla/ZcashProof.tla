----------------------------- MODULE ZcashProof ------------------------------
(***************************************************************************)
(* A proof of halo2-zcash from its keys to its verdict, over a small field: *)
(* keygen_vk and keygen_pk, create_proof with the lookup, permutation and  *)
(* vanishing arguments, the transcript from which both parties take their  *)
(* challenges, and verify_proof (plonk/keygen.rs, prover.rs, verifier.rs,  *)
(* lookup/, permutation/, vanishing/).                                     *)
(*                                                                         *)
(* A commitment is the polynomial and the blind it commits to, which the   *)
(* verifier only adds up and scales.  The multi-open argument is ideal: it *)
(* convinces if the verifier asks for what the prover has opened, in the   *)
(* same order, on the same transcript, and the evaluations are true.       *)
(* Module Opening has its details, ZcashEvaluator those of the quotient's  *)
(* evaluation.  Selectors are fixed columns here: they are compressed      *)
(* before.  Expressions are written as in module Arguments.                *)
(***************************************************************************)
EXTENDS EvaluationDomain, Integers, Sequences
LOCAL INSTANCE SequencesExt
LOCAL INSTANCE FiniteSetsExt
LOCAL INSTANCE FiniteSets
LOCAL INSTANCE Functions

CONSTANTS
  Sessions,    \* what is proved, and what the verifier is asked about it
  Random(_, _) \* what is drawn for a row of a polynomial

VARIABLES
  session, \* a circuit, its layout and witnesses, both parties' instances
  cs,      \* the sizes and queries that follow from the circuit
  pk, vk,  \* name -> fixed column or permutation; name -> its commitment
  lag,     \* name -> values on Rows
  point,   \* name -> what is committed to
  coset,   \* name -> values on the coset
  pair,    \* name -> compressed input and table of a lookup
  chal,    \* the prover's challenges
  tape,    \* the prover's transcript: its hash and what was written
  vf,      \* the verifier: its hash, what is left of the proof and what it read
  stage

vars == <<session, cs, pk, vk, lag, point, coset, pair, chal, tape, vf, stage>>

C      == session.circuit
Proofs == DOMAIN session.witness

-----------------------------------------------------------------------------
(* f itself, which TLC then evaluates once. *)
Once(f) == f @@ << >>

(* Expressions, given the values of their queries. *)
ValueOf(poly, query(_)) ==
  Sum(Len(poly), LAMBDA m : poly[m][1] ** Product(Len(poly[m][2]), LAMBDA q : query(poly[m][2][q])))
Compressed(polys, theta, query(_)) ==
  Horner(0, [i \in DOMAIN polys |-> ValueOf(polys[i], query)], theta)

DegreeOf(poly)    == Max({0} \cup {Len(poly[m][2]) : m \in DOMAIN poly})
MaxDegree(polys)  == Max({1} \cup {DegreeOf(polys[i]) : i \in DOMAIN polys})
QueriesOf(polys)  == FlattenSeq([i \in DOMAIN polys |-> FlattenSeq([m \in DOMAIN polys[i] |-> polys[i][m][2]])])

(* query_advice_index and its like: a query that exists keeps its index. *)
Asked(queries, q) == IF Contains(queries, q) THEN queries ELSE Append(queries, q)
IndexOf(queries, q) == CHOOSE k \in DOMAIN queries : queries[k] = q

(* Columns under equality are queried where they are, then come the gates and
   the lookups, whose tables are queried after all of their inputs. *)
ConfiguredQueries(type) ==
  LET equality == [j \in DOMAIN C.equality |-> <<C.equality[j][1], C.equality[j][2], 0>>]
      lookups  == FlattenSeq([n \in DOMAIN C.lookups |->
                    QueriesOf(C.lookups[n].inputs) \o QueriesOf(C.lookups[n].tables)])
      asked    == equality \o QueriesOf(C.gates) \o lookups
  IN  FoldLeft(Asked, << >>, SelectSeq(asked, LAMBDA q : q[1] = type))

LookupDegree(arg) == Max({4, 2 + MaxDegree(arg.inputs) + MaxDegree(arg.tables)})
Degree == Max({3, C.minDegree, MaxDegree(C.gates)} \cup {LookupDegree(C.lookups[n]) : n \in DOMAIN C.lookups})

(* The most points a column is opened at, one in the multi-open argument, one spare. *)
BlindingFactors ==
  LET advice == ConfiguredQueries("advice")
  IN  Max({3} \cup {Cardinality({k \in DOMAIN advice : advice[k][2] = col}) : col \in 1 .. C.advice}) + 2

MinimumRows == BlindingFactors + 3

Configured ==
  [domain |-> Domain(Degree), blinding |-> BlindingFactors,
   usable |-> N - (BlindingFactors + 1), chunk |-> Degree - 2,
   sets |-> (Len(C.equality) + Degree - 3) \div (Degree - 2),
   queries |-> [type \in {"instance", "advice", "fixed"} |-> ConfiguredQueries(type)]]

-----------------------------------------------------------------------------
(* keygen: what an operation of the layouter does to the Assembly.         *)
Zeros == [row \in Rows |-> 0]
Cells == (DOMAIN C.equality) \X Rows
Blank == [ok |-> TRUE, mapping |-> [cell \in Cells |-> cell],
          columns |-> [col \in 1 .. C.fixed |-> Zeros]]

RowsOf(op) == IF op[1] = "copy" THEN {op[2][2], op[3][2]} ELSE {op[3]}
(* A column and a row the operation may touch. *)
Allowed(op) ==
  /\ \A row \in RowsOf(op) : row < cs.usable
  /\ op[1] = "copy" => Contains(C.equality, op[2][1]) /\ Contains(C.equality, op[3][1])
  /\ op[1] \in {"fixed", "fill"} => op[2] \in 1 .. C.fixed

CycleOf(mapping, cell) ==
  LET walk[m \in 0 .. Cardinality(Cells)] == IF m = 0 THEN cell ELSE mapping[walk[m - 1]]
  IN  Range(walk)

(* Two cycles become one, a cycle stays as it is. *)
Copied(mapping, left, right) ==
  IF right \in CycleOf(mapping, left) THEN mapping
  ELSE [mapping EXCEPT ![left] = mapping[right], ![right] = mapping[left]]

Assemble(st, op) ==
  LET cell(side) == <<IndexOf(C.equality, side[1]), side[2]>>
  IN  CASE ~st.ok \/ op[1] = "advice" -> st
        [] ~Allowed(op)     -> [st EXCEPT !.ok = FALSE]
        [] op[1] = "fixed"  -> [st EXCEPT !.columns[op[2]][op[3]] = op[4]]
        [] op[1] = "fill"   -> [st EXCEPT !.columns[op[2]] =
                                  [row \in Rows |-> IF row \in op[3] .. cs.usable - 1 THEN op[4] ELSE @[row]]]
        [] op[1] = "copy"   -> [st EXCEPT !.mapping = Copied(@, cell(op[2]), cell(op[3]))]
        [] op[1] = "instance" -> st

Assembled(layout) == FoldLeft(Assemble, Blank, layout)

(* Cell <<j, row>> of a permutation column names the cell it is mapped to. *)
CellName(j, row)  == Pow(Delta, j - 1) ** cs.domain.omega[row]
Sigma(mapping, j) == [row \in Rows |-> LET to == mapping[<<j, row>>] IN CellName(to[1], to[2])]

KeyColumns(layout) ==
  LET st == Assembled(layout)
  IN  Once([name \in ({"fixed"} \X {0} \X (1 .. C.fixed)) \cup ({"sigma"} \X {0} \X (DOMAIN C.equality)) |->
         Once(IF name[1] = "fixed" THEN st.columns[name[3]] ELSE Sigma(st.mapping, name[3]))])

DefaultBlind == 1
CommitLagrange(values, blind) == [coeffs |-> Once(LagrangeToCoeff(cs.domain, values)), blind |-> blind]
PublicPoints(columns) == Once([name \in DOMAIN columns |-> CommitLagrange(columns[name], DefaultBlind)])
CosetsOf(points) == Once([name \in DOMAIN points |-> Once(CoeffToExtended(cs.domain, points[name].coeffs))])

L0     == <<"l_0", 0, 0>>
LBlind == <<"l_blind", 0, 0>>
LLast  == <<"l_last", 0, 0>>
Indicators ==
  LET on(rows) == CoeffToExtended(cs.domain, LagrangeToCoeff(cs.domain,
                    [row \in Rows |-> IF row \in rows THEN 1 ELSE 0]))
  IN  [name \in {L0, LBlind, LLast} |->
         on(CASE name = L0 -> {0} [] name = LLast -> {cs.usable} [] OTHER -> cs.usable + 1 .. N - 1)]

Configure ==
  /\ stage = "configure"
  /\ stage' = IF N < MinimumRows THEN "failed" ELSE "keygen"
  /\ cs' = Configured
  /\ UNCHANGED <<session, pk, vk, lag, point, coset, pair, chal, tape, vf>>

KeygenVk ==
  /\ stage = "keygen"
  /\ stage' = IF Assembled(session.verified).ok THEN "keygen_pk" ELSE "failed"
  /\ vk' = PublicPoints(KeyColumns(session.verified))
  /\ UNCHANGED <<session, cs, pk, lag, point, coset, pair, chal, tape, vf>>

KeygenPk ==
  /\ stage = "keygen_pk"
  /\ stage' = IF Assembled(session.layout).ok THEN "instances" ELSE "failed"
  /\ pk' = KeyColumns(session.layout)
  /\ point' = PublicPoints(pk')
  /\ lag' = pk'
  /\ coset' = CosetsOf(point') @@ Indicators
  /\ UNCHANGED <<session, cs, vk, pair, chal, tape, vf>>

-----------------------------------------------------------------------------
(* The transcript.  A proof is a sequence of points and scalars, and at its end
   an opening.  A challenge is a hash of all that was absorbed. *)
Absorb(hash, v)  == (hash ** 4099) ++ (v ** 31) ++ 17
Fingerprint(c)   == Eval(c.coeffs, N, 1009) ++ (c.blind ** 77)
Absorbed(hash, item) == Absorb(hash, IF item[1] = "point" THEN Fingerprint(item[2]) ELSE item[2])
Squeeze(hash)    == (hash ** hash ** 5) ++ (hash ** 3) ++ 1
Squeezed(hash)   == Absorb(hash, 1)

(* The representative of a key: a hash of the commitments it pins. *)
Repr(points) ==
  LET prints(type, last) == [k \in 1 .. last |-> Fingerprint(points[<<type, 0, k>>])]
  IN  Horner(1, prints("fixed", C.fixed) \o prints("sigma", Len(C.equality)), 2003)


Write(tr, items) == [hash |-> FoldLeft(Absorbed, tr.hash, items), proof |-> tr.proof \o items]
Points(points, names) == [k \in DOMAIN names |-> <<"point", points[names[k]]>>]

InstanceColumn(given) == [row \in Rows |-> IF row < Len(given) THEN given[row + 1] ELSE 0]
InstancePoint(given)  == CommitLagrange(InstanceColumn(given), DefaultBlind)

(* hash_into and the instance commitments, which are not part of the proof. *)
Start(points, instances) ==
  FoldLeft(Absorbed, Absorb(0, Repr(points)),
           FlattenSeq([i \in DOMAIN instances |->
             [col \in DOMAIN instances[i] |-> <<"point", InstancePoint(instances[i][col])>>]]))

ColumnsAgree(instances) == \A i \in DOMAIN instances : Len(instances[i]) = C.instance
Fits(instances) == \A i \in DOMAIN instances : \A col \in DOMAIN instances[i] :
                     Len(instances[i][col]) <= cs.usable

-----------------------------------------------------------------------------
(* create_proof.  InvalidInstances, InstanceTooLarge.                      *)
RefuseInstances ==
  /\ stage = "instances" /\ stage' = "failed"
  /\ \/ Len(session.claims) # Len(session.witness)
     \/ ~ColumnsAgree(session.claims)
     \/ ~Fits(session.claims)
  /\ UNCHANGED <<session, cs, pk, vk, lag, point, coset, pair, chal, tape, vf>>

(* Columns are added with their commitments and their values on the coset. *)
Add(columns, points) ==
  /\ lag'   = lag @@ columns
  /\ point' = point @@ points
  /\ coset' = coset @@ CosetsOf([name \in DOMAIN columns |-> points[name]])

CommitInstances ==
  /\ stage = "instances" /\ stage' = "advice"
  /\ Len(session.claims) = Len(session.witness)
  /\ ColumnsAgree(session.claims) /\ Fits(session.claims)
  /\ LET columns == [name \in {"instance"} \X Proofs \X (1 .. C.instance) |->
                       InstanceColumn(session.claims[name[2]][name[3]])]
     IN  Add(columns, PublicPoints(columns))
  /\ tape' = [hash |-> Start([name \in DOMAIN pk |-> point[name]], session.claims),
              proof |-> << >>]
  /\ UNCHANGED <<session, cs, pk, vk, pair, chal, vf>>

(* WitnessCollection: what an operation does to the advice of proof i. *)
Witness(i, st, op) ==
  LET given == session.claims[i]
  IN  CASE ~st.ok \/ op[1] \notin {"advice", "instance"} -> st
        [] op[3] >= cs.usable  -> [st EXCEPT !.ok = FALSE]
        [] op[1] = "advice"    -> IF op[2] \in 1 .. C.advice
                                  THEN [st EXCEPT !.columns[op[2]][op[3]] = op[4]]
                                  ELSE [st EXCEPT !.ok = FALSE]
        [] op[1] = "instance"  -> [st EXCEPT !.ok = op[2] \in DOMAIN given /\ op[3] < Len(given[op[2]])]
Witnessed(i) ==
  FoldLeft(LAMBDA st, op : Witness(i, st, op),
           [ok |-> TRUE, columns |-> [col \in 1 .. C.advice |-> Zeros]],
           session.layout \o session.witness[i])

Blind(name) == Random(name, N)
Blinded(name, from, values) == Once([row \in Rows |-> IF row >= from THEN Random(name, row) ELSE values[row]])
Secret(columns) == Once([name \in DOMAIN columns |-> CommitLagrange(columns[name], Blind(name))])
(* Names of a kind, proof by proof. *)
Each(kind, last) == FlattenSeq([i \in Proofs |-> [k \in 1 .. last |-> <<kind, i, k>>]])

SynthesisFails ==
  /\ stage = "advice" /\ stage' = "failed"
  /\ \E i \in Proofs : ~Witnessed(i).ok
  /\ UNCHANGED <<session, cs, pk, vk, lag, point, coset, pair, chal, tape, vf>>

CommitAdvice ==
  /\ stage = "advice" /\ stage' = "lookups"
  /\ \A i \in Proofs : Witnessed(i).ok
  /\ LET assigned == Once([i \in Proofs |-> Witnessed(i).columns])
         columns  == Once([name \in {"advice"} \X Proofs \X (1 .. C.advice) |->
                        Blinded(name, cs.usable, assigned[name[2]][name[3]])])
         points   == Secret(columns)
         tr       == Write(tape, Points(points, Each("advice", C.advice)))
     IN  /\ Add(columns, points)
         /\ chal' = [theta |-> Squeeze(tr.hash)]
         /\ tape' = [tr EXCEPT !.hash = Squeezed(@)]
  /\ UNCHANGED <<session, cs, pk, vk, pair, vf>>

(* The column that a query of proof i is about. *)
NameOf(i, query) == <<query[1], IF query[1] = "fixed" THEN 0 ELSE i, query[2]>>
OnRow(i, row, query) == lag[NameOf(i, query)][(row + query[3]) % N]
ValueOnRow(i, row, poly) == ValueOf(poly, LAMBDA q : OnRow(i, row, q))

(* permute_expression_pair: like inputs are adjacent, the first of them is beside
   its entry of the table; the other entries, ascending, fill the other rows
   from the last one. *)
Ascending(values)  == SortSeq([r \in 1 .. cs.usable |-> values[r - 1]], LAMBDA a, b : a < b)
IsFirst(s, r)      == r = 1 \/ s[r] # s[r - 1]
UsableRows         == 0 .. cs.usable - 1
InTable(p)         == {p.input[row] : row \in UsableRows} \subseteq {p.table[row] : row \in UsableRows}
PermuteExpressionPair(p) ==
  LET input    == Ascending(p.input)
      table    == Ascending(p.table)
      rows     == [r \in 1 .. cs.usable |-> r]
      leftover == SelectSeq(rows, LAMBDA r : ~(IsFirst(table, r) /\ Contains(input, table[r])))
      repeated == SelectSeq(rows, LAMBDA r : ~IsFirst(input, r))
      fill(r)  == table[leftover[Len(repeated) + 1 - IndexOf(repeated, r)]]
  IN  [input |-> [row \in UsableRows |-> input[row + 1]],
       table |-> [row \in UsableRows |-> IF IsFirst(input, row + 1) THEN input[row + 1] ELSE fill(row + 1)]]

LookupNames == {"lookup"} \X Proofs \X (DOMAIN C.lookups)
CompressExpressions(polys, i) ==
  Once([row \in Rows |-> Horner(0, [k \in DOMAIN polys |-> ValueOnRow(i, row, polys[k])], chal.theta)])

Compress ==
  /\ stage = "lookups" /\ stage' = "permute"
  /\ pair' = [name \in LookupNames |->
                [input |-> CompressExpressions(C.lookups[name[3]].inputs, name[2]),
                 table |-> CompressExpressions(C.lookups[name[3]].tables, name[2])]]
  /\ UNCHANGED <<session, cs, pk, vk, lag, point, coset, chal, tape, vf>>

(* ConstraintSystemFailure *)
NotInTable ==
  /\ stage = "permute" /\ stage' = "failed"
  /\ \E name \in LookupNames : ~InTable(pair[name])
  /\ UNCHANGED <<session, cs, pk, vk, lag, point, coset, pair, chal, tape, vf>>

CommitPermuted ==
  /\ stage = "permute" /\ stage' = "permutations"
  /\ \A name \in LookupNames : InTable(pair[name])
  /\ LET permuted == Once([name \in LookupNames |-> PermuteExpressionPair(pair[name])])
         columns  == Once([name \in {"input", "table"} \X Proofs \X (DOMAIN C.lookups) |->
                        Blinded(name, cs.usable, permuted[<<"lookup", name[2], name[3]>>][name[1]])])
         points   == Secret(columns)
         names    == FlattenSeq([k \in DOMAIN Each("input", Len(C.lookups)) |->
                       LET name == Each("input", Len(C.lookups))[k]
                       IN  <<name, <<"table", name[2], name[3]>>>>])
         tr       == Write(tape, Points(points, names))
     IN  /\ Add(columns, points)
         /\ chal' = chal @@ [beta |-> Squeeze(tr.hash), gamma |-> Squeeze(Squeezed(tr.hash))]
         /\ tape' = [tr EXCEPT !.hash = Squeezed(Squeezed(@))]
  /\ UNCHANGED <<session, cs, pk, vk, pair, vf>>

-----------------------------------------------------------------------------
(* The permutation argument: a product for every chunk of the columns.     *)
FirstOf(s)   == (s - 1) * cs.chunk + 1
ChunkOf(s)   == Min({cs.chunk, Len(C.equality) - FirstOf(s) + 1})
OverChunk(s, factor(_)) == Product(ChunkOf(s), LAMBDA m : factor(FirstOf(s) + m - 1))
CellValue(i, j, row)    == OnRow(i, row, C.equality[j] \o <<0>>)

(* A running product; the rows after the last usable one are random. *)
GrandProduct(name, first, factor) ==
  LET z[row \in Rows] == IF row = 0 THEN first ELSE z[row - 1] ** factor[row - 1]
  IN  Blinded(name, cs.usable + 1, z)

Fraction(i, s) ==
  Once([row \in Rows |->
     OverChunk(s, LAMBDA j : (CellName(j, row) ** chal.beta) ++ chal.gamma ++ CellValue(i, j, row))
     ** Invert(OverChunk(s, LAMBDA j :
          (chal.beta ** lag[<<"sigma", 0, j>>][row]) ++ chal.gamma ++ CellValue(i, j, row)))])

(* fault: the next product starts at the row after *)
ProductsPastLast(i) ==
  LET z[s \in 1 .. cs.sets] ==
        GrandProduct(<<"perm", i, s>>, IF s = 1 THEN 1 ELSE z[s - 1][cs.usable + 1], Fraction(i, s))
  IN  z

(* The product of a set starts at last_z, where that of the set before ends. *)
Products(i) ==
  LET z[s \in 1 .. cs.sets] ==
        GrandProduct(<<"perm", i, s>>, IF s = 1 THEN 1 ELSE z[s - 1][cs.usable], Fraction(i, s))
  IN  z

CommitPermutations ==
  /\ stage = "permutations" /\ stage' = "products"
  /\ LET products == Once([i \in Proofs |-> Once(Products(i))])
         columns  == Once([name \in {"perm"} \X Proofs \X (1 .. cs.sets) |-> products[name[2]][name[3]]])
         points   == Secret(columns)
     IN  /\ Add(columns, points)
         /\ tape' = Write(tape, Points(points, Each("perm", cs.sets)))
  /\ UNCHANGED <<session, cs, pk, vk, pair, chal, vf>>

LookupFraction(name) ==
  LET permuted(kind, row) == lag[<<kind, name[2], name[3]>>][row]
  IN  Once([row \in Rows |->
         Invert((chal.beta ++ permuted("input", row)) ** (chal.gamma ++ permuted("table", row)))
         ** (pair[name].input[row] ++ chal.beta) ** (pair[name].table[row] ++ chal.gamma)])

(* The products of the lookups and the random polynomial of the vanishing
   argument; then y. *)
CommitProducts ==
  /\ stage = "products" /\ stage' = "quotient"
  /\ LET columns == Once([name \in LookupNames |-> GrandProduct(name, 1, LookupFraction(name))])
         random  == <<"random", 0, 1>>
         points  == Secret(columns) @@ (random :> [coeffs |-> [row \in Rows |-> Random(random, row)],
                                                   blind  |-> Blind(random)])
         tr      == Write(tape, Points(points, Append(Each("lookup", Len(C.lookups)), random)))
     IN  /\ Add(columns, points)
         /\ chal' = chal @@ [y |-> Squeeze(tr.hash)]
         /\ tape' = [tr EXCEPT !.hash = Squeezed(@)]
  /\ UNCHANGED <<session, cs, pk, vk, pair, vf>>

-----------------------------------------------------------------------------
(* The terms of the quotient at row idx of the coset.                      *)
OnCoset(idx, name, rotation) == coset[name][(idx + rotation * cs.domain.scale) % cs.domain.size]
ActiveAt(idx) == 1 -- (OnCoset(idx, LLast, 0) ++ OnCoset(idx, LBlind, 0))

PermutationTerms(i, idx) ==
  LET z(s, rot)  == OnCoset(idx, <<"perm", i, s>>, rot)
      values(j)  == OnCoset(idx, NameOf(i, C.equality[j]), 0)
      linear(j)  == chal.beta ** Pow(Delta, j - 1) ** Zeta ** cs.domain.extended[idx]
      left(s)    == z(s, 1) ** OverChunk(s, LAMBDA j :
                      values(j) ++ (chal.beta ** OnCoset(idx, <<"sigma", 0, j>>, 0)) ++ chal.gamma)
      right(s)   == z(s, 0) ** OverChunk(s, LAMBDA j : values(j) ++ linear(j) ++ chal.gamma)
      last       == z(cs.sets, 0)
  IN  IF cs.sets = 0 THEN << >> ELSE
      << (1 -- z(1, 0)) ** OnCoset(idx, L0, 0), ((last ** last) -- last) ** OnCoset(idx, LLast, 0) >>
      \o [s \in 1 .. cs.sets - 1 |-> (z(s + 1, 0) -- z(s, -(cs.blinding + 1))) ** OnCoset(idx, L0, 0)]
      \o [s \in 1 .. cs.sets |-> (left(s) -- right(s)) ** ActiveAt(idx)]

LookupTerms(i, n, idx) ==
  LET z(rot)     == OnCoset(idx, <<"lookup", i, n>>, rot)
      input(rot) == OnCoset(idx, <<"input", i, n>>, rot)
      table      == OnCoset(idx, <<"table", i, n>>, 0)
      compressed(polys) == Compressed(polys, chal.theta, LAMBDA q : OnCoset(idx, NameOf(i, q), q[3]))
      left  == z(1) ** (input(0) ++ chal.beta) ** (table ++ chal.gamma)
      right == z(0) ** (compressed(C.lookups[n].inputs) ++ chal.beta)
                    ** (compressed(C.lookups[n].tables) ++ chal.gamma)
  IN  << (1 -- z(0)) ** OnCoset(idx, L0, 0), ((z(0) ** z(0)) -- z(0)) ** OnCoset(idx, LLast, 0),
         (left -- right) ** ActiveAt(idx), (input(0) -- table) ** OnCoset(idx, L0, 0),
         (input(0) -- table) ** (input(0) -- input(-1)) ** ActiveAt(idx) >>

Terms(i, idx) ==
  [g \in DOMAIN C.gates |-> ValueOf(C.gates[g], LAMBDA q : OnCoset(idx, NameOf(i, q), q[3]))]
  \o PermutationTerms(i, idx)
  \o FlattenSeq([n \in DOMAIN C.lookups |-> LookupTerms(i, n, idx)])

(* distribute_powers, divide by X^n - 1, and cut into pieces of n coefficients. *)
QuotientPieces ==
  LET dom == cs.domain
      all == [idx \in 0 .. dom.size - 1 |->
                Horner(0, FlattenSeq([i \in Proofs |-> Terms(i, idx)]), chal.y)]
      h   == Once(ExtendedToCoeff(dom, Once(DivideByVanishingPoly(dom, all))))
  IN  Once([name \in {"h"} \X {0} \X (1 .. dom.pieces) |->
         [coeffs |-> Once([row \in Rows |-> h[(name[3] - 1) * N + row]]), blind |-> Blind(name)]])
Pieces == [m \in 1 .. cs.domain.pieces |-> <<"h", 0, m>>]

ConstructQuotient ==
  /\ stage = "quotient" /\ stage' = "evaluate"
  /\ LET points == QuotientPieces
         tr     == Write(tape, Points(points, Pieces))
     IN  /\ point' = point @@ points
         /\ chal'  = chal @@ [x |-> Squeeze(tr.hash)]
         /\ tape'  = [tr EXCEPT !.hash = Squeezed(@)]
  /\ UNCHANGED <<session, cs, pk, vk, lag, coset, pair, vf>>

-----------------------------------------------------------------------------
(* The evaluations, in the order they are written: name and rotation.      *)
LastRotation == -(cs.blinding + 1)

PermutationEvals(i) ==
  FlattenSeq([s \in 1 .. cs.sets |->
    LET z == <<"perm", i, s>>
    IN  IF s < cs.sets THEN << <<z, 0>>, <<z, 1>>, <<z, LastRotation>> >> ELSE << <<z, 0>>, <<z, 1>> >>])
LookupEvals(i) ==
  FlattenSeq([n \in DOMAIN C.lookups |->
    << <<<<"lookup", i, n>>, 0>>, <<<<"lookup", i, n>>, 1>>, <<<<"input", i, n>>, 0>>,
       <<<<"input", i, n>>, -1>>, <<<<"table", i, n>>, 0>> >>])
QueryEvals(type, i) ==
  [k \in DOMAIN cs.queries[type] |-> <<NameOf(i, cs.queries[type][k]), cs.queries[type][k][3]>>]
ByProof(evals(_)) == FlattenSeq([i \in Proofs |-> evals(i)])

Evaluations ==
  ByProof(LAMBDA i : QueryEvals("instance", i)) \o ByProof(LAMBDA i : QueryEvals("advice", i))
  \o QueryEvals("fixed", 0) \o << <<<<"random", 0, 1>>, 0>> >>
  \o [j \in DOMAIN C.equality |-> <<<<"sigma", 0, j>>, 0>>]
  \o ByProof(PermutationEvals) \o ByProof(LookupEvals)

Evaluate ==
  /\ stage = "evaluate" /\ stage' = "open"
  /\ LET evals == Evaluations
     IN  tape' = Write(tape, [k \in DOMAIN evals |->
           <<"scalar", Eval(point[evals[k][1]].coeffs, N, RotateOmega(cs.domain, chal.x, evals[k][2]))>>])
  /\ UNCHANGED <<session, cs, pk, vk, lag, point, coset, pair, chal, vf>>

(* What is opened, in the order of the queries: name and rotation. *)
PermutationOpenings(i) ==
  FlattenSeq([s \in 1 .. cs.sets |-> << <<<<"perm", i, s>>, 0>>, <<<<"perm", i, s>>, 1>> >>])
  \o [s \in 1 .. cs.sets - 1 |-> <<<<"perm", i, cs.sets - s>>, LastRotation>>]
LookupOpenings(i) ==
  FlattenSeq([n \in DOMAIN C.lookups |->
    << <<<<"lookup", i, n>>, 0>>, <<<<"input", i, n>>, 0>>, <<<<"table", i, n>>, 0>>,
       <<<<"input", i, n>>, -1>>, <<<<"lookup", i, n>>, 1>> >>])

(* The pieces of h, the last one first, times powers of x^n. *)
Combined(pieces, xn) ==
  LET last == Len(pieces)
      highestFirst(of(_)) == Horner(0, [m \in 1 .. last |-> of(pieces[last + 1 - m])], xn)
  IN  [coeffs |-> Once([row \in Rows |-> highestFirst(LAMBDA piece : piece.coeffs[row])]),
       blind  |-> highestFirst(LAMBDA piece : piece.blind)]

Opened(name, rotation) == [poly |-> point[name], at |-> RotateOmega(cs.domain, chal.x, rotation)]
Openings ==
  LET of(list)  == [k \in DOMAIN list |-> Opened(list[k][1], list[k][2])]
      xn        == Pow(chal.x, N)
      h         == Combined([m \in DOMAIN Pieces |-> point[Pieces[m]]], xn)
  IN  of(ByProof(LAMBDA i : QueryEvals("instance", i) \o QueryEvals("advice", i)
                              \o PermutationOpenings(i) \o LookupOpenings(i))
         \o QueryEvals("fixed", 0) \o [j \in DOMAIN C.equality |-> <<<<"sigma", 0, j>>, 0>>])
      \o << [poly |-> h, at |-> chal.x], Opened(<<"random", 0, 1>>, 0) >>

Open ==
  /\ stage = "open" /\ stage' = "deliver"
  /\ tape' = [tape EXCEPT !.proof = Append(@, <<"opening", [hash |-> tape.hash, queries |-> Openings]>>)]
  /\ UNCHANGED <<session, cs, pk, vk, lag, point, coset, pair, chal, vf>>

-----------------------------------------------------------------------------
(* On its way a proof may be cut short, or one of its elements altered.    *)
Altered(item) == IF item[1] = "point" THEN <<"point", [item[2] EXCEPT !.coeffs[0] = @ ++ 1]>>
                                      ELSE <<"scalar", item[2] ++ 1>>
Deliver ==
  /\ stage = "deliver" /\ stage' = "v_instances"
  /\ \E proof \in {tape.proof}
       \cup (IF "cut" \in session.faults THEN {SubSeq(tape.proof, 1, k - 1) : k \in DOMAIN tape.proof} ELSE {})
       \cup (IF "alter" \in session.faults
             THEN {[tape.proof EXCEPT ![k] = Altered(@)] : k \in 1 .. Len(tape.proof) - 1} ELSE {}) :
       vf' = [hash |-> 0, proof |-> proof, rest |-> proof, point |-> vk, eval |-> << >>, chal |-> << >>]
  /\ UNCHANGED <<session, cs, pk, vk, lag, point, coset, pair, chal, tape>>

-----------------------------------------------------------------------------
(* verify_proof.                                                           *)
Expects == DOMAIN session.expects
ProverUnchanged == UNCHANGED <<session, cs, pk, vk, lag, point, coset, pair, chal, tape>>

RejectInstances ==
  /\ stage = "v_instances" /\ stage' = "rejected"
  /\ ~ColumnsAgree(session.expects) \/ ~Fits(session.expects)
  /\ ProverUnchanged /\ UNCHANGED vf

CheckInstances ==
  /\ stage = "v_instances" /\ stage' = "v_advice"
  /\ ColumnsAgree(session.expects) /\ Fits(session.expects)
  /\ vf' = [vf EXCEPT !.hash = Start(vk, session.expects),
              !.point = vk @@ [name \in {"instance"} \X Expects \X (1 .. C.instance) |->
                                 InstancePoint(session.expects[name[2]][name[3]])]]
  /\ ProverUnchanged

(* read_n_points, read_n_scalars: an element for every name, of the kind. *)
Readable(kind, names) ==
  /\ Len(names) <= Len(vf.rest)
  /\ \A k \in DOMAIN names : vf.rest[k][1] = kind
Values(names) == [name \in Range(names) |-> vf.rest[IndexOf(names, name)][2]]
Taken(names)  == [vf EXCEPT !.hash = FoldLeft(Absorbed, @, SubSeq(vf.rest, 1, Len(names))),
                            !.rest = SubSeq(@, Len(names) + 1, Len(@))]

(* Points are read, then as many challenges are squeezed. *)
ReadPoints(from, to, names, squeezed) ==
  LET taken    == Taken(names)
      hash[k \in 0 .. Len(squeezed)] == IF k = 0 THEN taken.hash ELSE Squeezed(hash[k - 1])
  IN  /\ stage = from
      /\ IF Readable("point", names)
         THEN /\ stage' = to
              /\ vf' = [taken EXCEPT !.hash = hash[Len(squeezed)], !.point = @ @@ Values(names),
                          !.chal = @ @@ [c \in Range(squeezed) |-> Squeeze(hash[IndexOf(squeezed, c) - 1])]]
         ELSE stage' = "rejected" /\ UNCHANGED vf
      /\ ProverUnchanged

Named(kind, last) == FlattenSeq([i \in Expects |-> [k \in 1 .. last |-> <<kind, i, k>>]])

ReadAdvice == ReadPoints("v_advice", "v_permuted", Named("advice", C.advice), <<"theta">>)
ReadPermuted ==
  ReadPoints("v_permuted", "v_products",
             FlattenSeq([i \in Expects |-> FlattenSeq([n \in DOMAIN C.lookups |->
               << <<"input", i, n>>, <<"table", i, n>> >>])]),
             <<"beta", "gamma">>)
ReadProducts ==
  ReadPoints("v_products", "v_quotient",
             Named("perm", cs.sets) \o Named("lookup", Len(C.lookups)) \o << <<"random", 0, 1>> >>, <<"y">>)
ReadQuotient ==
  ReadPoints("v_quotient", "v_evals", [m \in 1 .. cs.domain.pieces |-> <<"h", 0, m>>], <<"x">>)

(* Evaluations by what the verifier calls them: of a query, by its index. *)
EvalNames(type, i) == [k \in DOMAIN cs.queries[type] |-> <<type, i, k>>]
ReadNames ==
  FlattenSeq([i \in Expects |-> EvalNames("instance", i)])
  \o FlattenSeq([i \in Expects |-> EvalNames("advice", i)])
  \o EvalNames("fixed", 0) \o << <<"random", 0, 1>> >>
  \o [j \in DOMAIN C.equality |-> <<"sigma", 0, j>>]
  \o FlattenSeq([i \in Expects |-> FlattenSeq([s \in 1 .. cs.sets |->
       << <<"z", i, s>>, <<"z_next", i, s>> >> \o (IF s < cs.sets THEN << <<"z_last", i, s>> >> ELSE << >>)])])
  \o FlattenSeq([i \in Expects |-> FlattenSeq([n \in DOMAIN C.lookups |->
       << <<"product", i, n>>, <<"product_next", i, n>>, <<"input", i, n>>, <<"input_inv", i, n>>,
          <<"table", i, n>> >>])])

ReadEvals ==
  /\ stage = "v_evals"
  /\ IF Readable("scalar", ReadNames)
     THEN stage' = "v_check" /\ vf' = [Taken(ReadNames) EXCEPT !.eval = Values(ReadNames)]
     ELSE stage' = "rejected" /\ UNCHANGED vf
  /\ ProverUnchanged

-----------------------------------------------------------------------------
(* What h should be at x.  LEvals: l_0, l_last, and one less the unusable rows. *)
QueryEval(i, query) ==
  vf.eval[<<query[1], IF query[1] = "fixed" THEN 0 ELSE i, IndexOf(cs.queries[query[1]], query)>>]

LEvals ==
  LET li(i) == LI(cs.domain, vf.chal.x, i)
      last  == li(LastRotation)
  IN  [zero |-> li(0), last |-> last, active |-> 1 -- (last ++ Sum(cs.blinding, LAMBDA r : li(-r)))]

PermutationExpressions(i, l) ==
  LET z(label, s) == vf.eval[<<label, i, s>>]
      eval(j)     == QueryEval(i, C.equality[j] \o <<0>>)
      left(s)     == z("z_next", s) ** OverChunk(s, LAMBDA j :
                       eval(j) ++ (vf.chal.beta ** vf.eval[<<"sigma", 0, j>>]) ++ vf.chal.gamma)
      right(s)    == z("z", s) ** OverChunk(s, LAMBDA j :
                       eval(j) ++ (vf.chal.beta ** vf.chal.x ** Pow(Delta, j - 1)) ++ vf.chal.gamma)
      last        == z("z", cs.sets)
  IN  IF cs.sets = 0 THEN << >> ELSE
      << l.zero ** (1 -- z("z", 1)), ((last ** last) -- last) ** l.last >>
      \o [s \in 1 .. cs.sets - 1 |-> (z("z", s + 1) -- z("z_last", s)) ** l.zero]
      \o [s \in 1 .. cs.sets |-> (left(s) -- right(s)) ** l.active]

LookupExpressions(i, n, l) ==
  LET at(label) == vf.eval[<<label, i, n>>]
      compressed(polys) == Compressed(polys, vf.chal.theta, LAMBDA q : QueryEval(i, q))
      left  == at("product_next") ** (at("input") ++ vf.chal.beta) ** (at("table") ++ vf.chal.gamma)
      right == at("product") ** (compressed(C.lookups[n].inputs) ++ vf.chal.beta)
                             ** (compressed(C.lookups[n].tables) ++ vf.chal.gamma)
  IN  << l.zero ** (1 -- at("product")), l.last ** ((at("product") ** at("product")) -- at("product")),
         (left -- right) ** l.active, l.zero ** (at("input") -- at("table")),
         (at("input") -- at("table")) ** (at("input") -- at("input_inv")) ** l.active >>

Expressions(i, l) ==
  [g \in DOMAIN C.gates |-> ValueOf(C.gates[g], LAMBDA q : QueryEval(i, q))]
  \o PermutationExpressions(i, l)
  \o FlattenSeq([n \in DOMAIN C.lookups |-> LookupExpressions(i, n, l)])

ExpectedHEval(l) ==
  Horner(0, FlattenSeq([i \in Expects |-> Expressions(i, l)]), vf.chal.y)
    ** Invert(Pow(vf.chal.x, N) -- 1)

(* The verifier's queries: commitment, point and evaluation. *)
Claimed(poly, rotation, eval) ==
  [poly |-> poly, at |-> RotateOmega(cs.domain, vf.chal.x, rotation), eval |-> eval]
ClaimQueries(type, i) ==
  [k \in DOMAIN cs.queries[type] |->
     LET q == cs.queries[type][k]
     IN  Claimed(vf.point[NameOf(i, q)], q[3], vf.eval[<<type, IF type = "fixed" THEN 0 ELSE i, k>>])]
ClaimPermutation(i) ==
  LET z(s, label, rotation) == Claimed(vf.point[<<"perm", i, s>>], rotation, vf.eval[<<label, i, s>>])
  IN  FlattenSeq([s \in 1 .. cs.sets |-> <<z(s, "z", 0), z(s, "z_next", 1)>>])
      \o [s \in 1 .. cs.sets - 1 |-> z(cs.sets - s, "z_last", LastRotation)]
ClaimLookup(i, n) ==
  LET of(kind, rotation, label) == Claimed(vf.point[<<kind, i, n>>], rotation, vf.eval[<<label, i, n>>])
  IN  << of("lookup", 0, "product"), of("input", 0, "input"), of("table", 0, "table"),
         of("input", -1, "input_inv"), of("lookup", 1, "product_next") >>
Claims ==
  LET pieces == [m \in 1 .. cs.domain.pieces |-> vf.point[<<"h", 0, m>>]]
  IN  FlattenSeq([i \in Expects |->
        ClaimQueries("instance", i) \o ClaimQueries("advice", i) \o ClaimPermutation(i)
        \o FlattenSeq([n \in DOMAIN C.lookups |-> ClaimLookup(i, n)])])
      \o ClaimQueries("fixed", 0)
      \o [j \in DOMAIN C.equality |-> Claimed(vf.point[<<"sigma", 0, j>>], 0, vf.eval[<<"sigma", 0, j>>])]
      \o << Claimed(Combined(pieces, Pow(vf.chal.x, N)), 0, ExpectedHEval(LEvals)),
            Claimed(vf.point[<<"random", 0, 1>>], 0, vf.eval[<<"random", 0, 1>>]) >>

(* multiopen::verify_proof *)
Convinced(opening, claims) ==
  /\ opening.hash = vf.hash
  /\ Len(opening.queries) = Len(claims)
  /\ \A k \in DOMAIN claims :
       LET opened == opening.queries[k]
       IN  /\ opened.poly = claims[k].poly /\ opened.at = claims[k].at
           /\ Eval(opened.poly.coeffs, N, opened.at) = claims[k].eval

(* The verifier unwraps the inverse of x^n - 1. *)
VerifyOpening ==
  /\ stage = "v_check" /\ Pow(vf.chal.x, N) # 1
  /\ stage' = IF vf.rest # << >> /\ vf.rest[1][1] = "opening" /\ Convinced(vf.rest[1][2], Claims)
              THEN "accepted" ELSE "rejected"
  /\ ProverUnchanged /\ UNCHANGED vf

-----------------------------------------------------------------------------
Init ==
  /\ session \in Sessions /\ stage = "configure"
  /\ cs = << >> /\ pk = << >> /\ vk = << >> /\ lag = << >> /\ point = << >> /\ coset = << >>
  /\ pair = << >> /\ chal = << >> /\ tape = [hash |-> 0, proof |-> << >>] /\ vf = << >>

Keygen == Configure \/ KeygenVk \/ KeygenPk
CreateProof ==
  \/ RefuseInstances \/ CommitInstances \/ SynthesisFails \/ CommitAdvice \/ Compress \/ NotInTable
  \/ CommitPermuted \/ CommitPermutations \/ CommitProducts \/ ConstructQuotient \/ Evaluate \/ Open
VerifyProof ==
  \/ RejectInstances \/ CheckInstances \/ ReadAdvice \/ ReadPermuted \/ ReadProducts \/ ReadQuotient
  \/ ReadEvals \/ VerifyOpening

Next == Keygen \/ CreateProof \/ Deliver \/ VerifyProof
Spec == Init /\ [][Next]_vars

-----------------------------------------------------------------------------
(* What is proved: the gates hold on every row, the cells that the layout copies
   are equal, and what is looked up is, as a tuple, a row of the table.     *)
GatesHold ==
  \A i \in Proofs, row \in Rows, g \in DOMAIN C.gates :
    ValueOnRow(i, row, C.gates[g]) = 0
CopiesHold ==
  LET value(i, side) == OnRow(i, side[2], side[1] \o <<0>>)
  IN  \A i \in Proofs, k \in DOMAIN session.layout :
        session.layout[k][1] = "copy" => value(i, session.layout[k][2]) = value(i, session.layout[k][3])
LookupsHold ==
  LET tuple(polys, i, row) == [m \in DOMAIN polys |-> ValueOnRow(i, row, polys[m])]
  IN  \A i \in Proofs, n \in DOMAIN C.lookups, row \in UsableRows : \E entry \in UsableRows :
        tuple(C.lookups[n].inputs, i, row) = tuple(C.lookups[n].tables, i, entry)

(* The verifier is asked about what was proved: the same fixed columns and
   copies, and the same instances, but for zeros at their end.             *)
Columns(instances) == [i \in DOMAIN instances |-> [col \in DOMAIN instances[i] |-> InstanceColumn(instances[i][col])]]
SameStatement ==
  /\ KeyColumns(session.verified) = KeyColumns(session.layout)
  /\ Fits(session.expects) /\ Columns(session.expects) = Columns(session.claims)

Types == {"instance", "advice", "fixed", "sigma", "input", "table", "lookup", "perm", "random", "h"}
Field == 0 .. P - 1

(* The type invariant: columns are vectors of field elements, every column the
   prover has values of is committed to and has its values on the coset, and
   what the verifier has still to read is the end of what was delivered.    *)
TypeOK ==
  /\ session \in Sessions
  /\ DOMAIN lag \subseteq DOMAIN point /\ DOMAIN lag \subseteq DOMAIN coset
  /\ \A name \in DOMAIN lag : name[1] \in Types /\ lag[name] \in [Rows -> Field]
  /\ \A name \in DOMAIN point : point[name].coeffs \in [Rows -> Field] /\ point[name].blind \in Field
  /\ \A c \in DOMAIN chal : c \in {"theta", "beta", "gamma", "y", "x"} /\ chal[c] \in Field
  /\ tape.hash \in Field
  /\ vf # << >> => IsSuffix(vf.rest, vf.proof) /\ vf.hash \in Field

(* plonk/prover.rs and verifier.rs: the verifier accepts exactly the proofs it
   gets as they were made, of a circuit and instances that are those of its
   key and its question, by witnesses that satisfy them; whatever the number
   of proofs made together, the sets the permutation is cut into, the order of
   transcript and queries, and the trailing zeros of the instances.         *)
VerdictRight ==
  stage \in {"accepted", "rejected"} =>
    (stage = "accepted" <=>
       GatesHold /\ CopiesHold /\ LookupsHold /\ SameStatement /\ vf.proof = tape.proof)

(* keygen.rs, prover.rs: keys and proofs are refused only if the circuit has too
   few rows, if an operation of its synthesis leaves its columns, its usable
   rows or its instances, if the instances are not those of the circuit, or if
   a tuple is not in the table: compressing tuples loses no difference.     *)
FailedForCause ==
  stage = "failed" =>
    \/ N < MinimumRows
    \/ \E layout \in {session.layout, session.verified} : \E k \in DOMAIN layout :
         layout[k][1] # "advice" /\ ~Allowed(layout[k])
    \/ Len(session.claims) # Len(session.witness) \/ ~ColumnsAgree(session.claims) \/ ~Fits(session.claims)
    \/ \E i \in Proofs : ~Witnessed(i).ok
    \/ ~LookupsHold
=============================================================================
