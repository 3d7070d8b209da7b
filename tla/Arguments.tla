------------------------------ MODULE Arguments ------------------------------
(***************************************************************************)
(* What a proof says, over a small field: the columns and products that    *)
(* the lookup, permutation and shuffle arguments commit to, the quotient   *)
(* of evaluate_h by threads and of evaluate_h_ooc by tiles, its division   *)
(* by the vanishing polynomial, and the equation that the verifier checks  *)
(* at the challenge x.  The multi-open argument is taken as ideal: an      *)
(* evaluation is that of the committed polynomial.  What is written to the *)
(* transcript, and in which order, is module Proving's; that a compiled    *)
(* evaluator computes its expressions is module Graph's.                   *)
(*                                                                         *)
(* A polynomial expression is a sequence of monomials <<k, queries>>, a    *)
(* query is <<type, column, rotation>>.  A polynomial of the prover is     *)
(* named by a triple <<kind, instance, index>>.                            *)
(***************************************************************************)
EXTENDS EvaluationDomain, Integers, Sequences, TLC
LOCAL INSTANCE SequencesExt
LOCAL INSTANCE FiniteSetsExt
LOCAL INSTANCE FiniteSets

CS == INSTANCE ConstraintSystem

CONSTANTS
  Statements,    \* circuits with the witnesses to be proved
  ChallengeSets, \* values of theta, beta, gamma and y
  Randoms,       \* the values random rows may get: functions on Rows
  Threads,       \* threads of evaluate_h
  TileRows,      \* tile of evaluate_h_ooc
  Points         \* values of x the verifier is asked about

(* The verifier divides by x^n - 1, and unwraps the result. *)
ASSUME PointsAssumption == \A x \in Points : Pow(x, N) # 1

ASSUME ThreadsAssumption == Threads \in Nat \ {0} /\ TileRows \in Nat

VARIABLES
  stm,    \* the statement: the circuit and the columns of its instances
  chal,   \* the challenges
  key,    \* the sizes and the domain that follow from the circuit
  lag,    \* name -> values on Rows
  pair,   \* name -> the compressed input and table of a lookup or shuffle
  coeffs, \* name -> coefficients
  cosets, \* name -> values on the coset
  values, \* what evaluate_h has accumulated
  ooc,    \* what evaluate_h_ooc has accumulated
  at,     \* instance, part of its work and threads that are done with it
  h,      \* the coefficients of the quotient
  stage

argVars == <<stm, chal, key, lag, pair, coeffs, cosets, values, ooc, at, h, stage>>

-----------------------------------------------------------------------------
Magnitude(a) == IF a < 0 THEN -a ELSE a

(* Expressions: degree and queries, and the constraint system they make.   *)
DegreeOf(polys) ==
  Max({1} \cup UNION {{Len(polys[i][m][2]) : m \in DOMAIN polys[i]} : i \in DOMAIN polys})
QueriesIn(poly)   == FlattenSeq([m \in DOMAIN poly |-> poly[m][2]])
AllQueries(polys) == FlattenSeq([i \in DOMAIN polys |-> QueriesIn(polys[i])])

Argument(arg) == [queries |-> AllQueries(arg.inputs) \o AllQueries(arg.tables),
                  input |-> DegreeOf(arg.inputs), table |-> DegreeOf(arg.tables)]

System(c) ==
  [adv |-> c.adv, minDegree |-> 1, perm |-> c.perm,
   gates    |-> [i \in DOMAIN c.gates |->
                   [queries |-> QueriesIn(c.gates[i]), degree |-> DegreeOf(<<c.gates[i]>>)]],
   lookups  |-> [i \in DOMAIN c.lookups  |-> Argument(c.lookups[i])],
   shuffles |-> [i \in DOMAIN c.shuffles |-> Argument(c.shuffles[i])]]

C      == stm.circuit
Insts  == DOMAIN stm.instances
Usable == N - (key.blinding + 1)
ExtendedLen   == key.domain.size

Column(type, i, col) == <<type, IF type = "fixed" THEN 0 ELSE i, col>>

(* An expression, and several compressed, given the values of their queries. *)
ValueOf(poly, query(_)) ==
  Sum(Len(poly), LAMBDA m : poly[m][1] ** Product(Len(poly[m][2]), LAMBDA q : query(poly[m][2][q])))
Compressed(polys, query(_)) ==
  Horner(0, [i \in DOMAIN polys |-> ValueOf(polys[i], query)], chal.theta)

-----------------------------------------------------------------------------
(* keygen: the sizes, l_0, l_last and l_active_row on the coset, the fixed   *)
(* columns and the columns of the permutation.                              *)
L0 == <<"l_0", 0, 0>>  LLast == <<"l_last", 0, 0>>  LActive == <<"l_active", 0, 0>>

(* build_pk: cell <<j, row>> holds delta^j * omega^row of the cell it maps to. *)
CellName(dom, j, row) == Pow(Delta, j - 1) ** dom.omega[row]
Sigma(dom, j) == [row \in Rows |-> LET to == C.mapping[<<j, row>>] IN CellName(dom, to[1], to[2])]

LBlind(blinding) == [row \in Rows |-> IF row >= N - blinding THEN 1 ELSE 0]

BuildKey ==
  LET sys == System(C)
      dom == Domain(CS!Degree(sys))
      blinding == CS!BlindingFactors(sys)
      last  == LagrangeExtended(dom, N - blinding - 1)
      blind == CoeffToExtended(dom, LagrangeToCoeff(dom, LBlind(blinding)))
  IN  /\ stage = "keygen" /\ stage' = "columns"
      /\ key' = [domain |-> dom, blinding |-> blinding, chunk |-> CS!ChunkLen(sys),
                 sets |-> CS!PermSets(sys)]
      /\ lag' = [name \in {<<"fixed", 0, col>> : col \in DOMAIN C.fixed}
                            \cup {<<"sigma", 0, j>> : j \in DOMAIN C.perm} |->
                   IF name[1] = "fixed" THEN C.fixed[name[3]] ELSE Sigma(dom, name[3])]
      /\ cosets' = (L0 :> LagrangeExtended(dom, 0)) @@ (LLast :> last)
                   @@ (LActive :> [i \in 0 .. dom.size - 1 |-> 1 -- (last[i] ++ blind[i])])
      /\ UNCHANGED <<stm, chal, pair, coeffs, values, ooc, at, h>>

(* The prover's columns: an instance is padded with zeros, the unusable rows
   of a blinded advice column are random. *)
InstanceColumn(given) == [row \in Rows |-> IF row < Len(given) THEN given[row + 1] ELSE 0]
AdviceColumn(col, given, random) ==
  [row \in Rows |-> IF row >= Usable /\ col \notin C.unblinded THEN random[row] ELSE given[row]]

Columns ==
  /\ stage = "columns" /\ stage' = "lookups"
  /\ \E random \in Randoms :
       lag' = lag @@ [name \in {"instance"} \X Insts \X (1 .. C.ins) |->
                        InstanceColumn(stm.instances[name[2]].instance[name[3]])]
                  @@ [name \in {"advice"} \X Insts \X (DOMAIN C.adv) |->
                        AdviceColumn(name[3], stm.instances[name[2]].advice[name[3]], random)]
  /\ UNCHANGED <<stm, chal, key, pair, coeffs, cosets, values, ooc, at, h>>

(* The value of a query of instance i on a row of the domain. *)
OnRow(i, row, query) == lag[Column(query[1], i, query[2])][(row + query[3]) % N]

Compress(arg, i) ==
  [input |-> [row \in Rows |-> Compressed(arg.inputs, LAMBDA q : OnRow(i, row, q))],
   table |-> [row \in Rows |-> Compressed(arg.tables, LAMBDA q : OnRow(i, row, q))]]

-----------------------------------------------------------------------------
(* The lookup argument: permute_expression_pair on the usable rows.        *)
LookupNames == {"lookup"} \X Insts \X (DOMAIN C.lookups)

UsableRows    == 0 .. Usable - 1
Ascending(f)  == SortSeq([r \in 1 .. Usable |-> f[r - 1]], LAMBDA a, b : a < b)
NewAt(s, r)   == r = 1 \/ s[r] # s[r - 1]
Permutable(p) == {p.input[r] : r \in UsableRows} \subseteq {p.table[r] : r \in UsableRows}

(* One entry of the table goes where an input value first occurs.  The rest,
   in ascending order, fill the rows of repeated inputs from the last one. *)
Permuted(p, random) ==
  LET input    == Ascending(p.input)
      table    == Ascending(p.table)
      repeated == SelectSeq([r \in 1 .. Usable |-> r], LAMBDA r : ~NewAt(input, r))
      taken(t) == NewAt(table, t) /\ Contains(input, table[t])
      leftover == SelectSeq([t \in 1 .. Usable |-> t], LAMBDA t : ~taken(t))
      filled   == [k \in DOMAIN repeated |-> table[leftover[Len(repeated) + 1 - k]]]
      tableAt(r) == IF NewAt(input, r) THEN input[r]
                    ELSE filled[CHOOSE k \in DOMAIN repeated : repeated[k] = r]
  IN  [input |-> [row \in Rows |-> IF row < Usable THEN input[row + 1] ELSE random[row]],
       table |-> [row \in Rows |-> IF row < Usable THEN tableAt(row + 1) ELSE random[N - row]]]

CompressLookups ==
  /\ stage = "lookups" /\ stage' = "permuted"
  /\ pair' = [name \in LookupNames |-> Compress(C.lookups[name[3]], name[2])]
  /\ UNCHANGED <<stm, chal, key, lag, coeffs, cosets, values, ooc, at, h>>

CommitPermuted ==
  /\ stage = "permuted" /\ stage' = "permutation"
  /\ \A name \in LookupNames : Permutable(pair[name])
  /\ \E random \in Randoms :
       LET permuted(name) == Permuted(pair[<<"lookup", name[2], name[3]>>], random)
       IN  lag' = lag @@ [name \in {"input"} \X Insts \X (DOMAIN C.lookups) |-> permuted(name).input]
                      @@ [name \in {"table"} \X Insts \X (DOMAIN C.lookups) |-> permuted(name).table]
  /\ at' = [inst |-> 1, part |-> 1, done |-> {}]
  /\ UNCHANGED <<stm, chal, key, pair, coeffs, cosets, values, ooc, h>>

(* ConstraintSystemFailure: an input value is not in the table. *)
NotInTable ==
  /\ stage = "permuted" /\ stage' = "error"
  /\ \E name \in LookupNames : ~Permutable(pair[name])
  /\ UNCHANGED <<stm, chal, key, lag, pair, coeffs, cosets, values, ooc, at, h>>

-----------------------------------------------------------------------------
(* The permutation argument, one product for every chunk of the columns.   *)
FirstColumn(s)  == (s - 1) * key.chunk + 1
ColumnsOfSet(s) == Min({key.chunk, Len(C.perm) - FirstColumn(s) + 1})
CellValue(i, j, row) == lag[Column(C.perm[j][1], i, C.perm[j][2])][row]

Numerator(i, s, row) ==
  Product(ColumnsOfSet(s), LAMBDA m : LET j == FirstColumn(s) + m - 1 IN
    (CellName(key.domain, j, row) ** chal.beta) ++ chal.gamma ++ CellValue(i, j, row))
Denominator(i, s, row) ==
  Product(ColumnsOfSet(s), LAMBDA m : LET j == FirstColumn(s) + m - 1 IN
    (chal.beta ** lag[<<"sigma", 0, j>>][row]) ++ chal.gamma ++ CellValue(i, j, row))

(* A running product that starts at `first`; its last rows are random. *)
GrandProduct(first, factor, random) ==
  LET z[row \in Rows] == IF row = 0 THEN first ELSE z[row - 1] ** factor[row - 1]
  IN  [row \in Rows |-> IF row >= N - key.blinding THEN random[row] ELSE z[row]]

(* fault: the row after the last *)
LastZBlinded(i, s) == IF s = 1 THEN 1 ELSE lag[<<"perm", i, s - 1>>][N - key.blinding]

(* The product of a set starts where that of the set before ends. *)
LastZ(i, s) == IF s = 1 THEN 1 ELSE lag[<<"perm", i, s - 1>>][N - (key.blinding + 1)]

CommitPermutation ==
  /\ stage = "permutation" /\ at.inst \in Insts /\ at.part <= key.sets
  /\ LET factor == [row \in Rows |-> Numerator(at.inst, at.part, row)
                                        ** Invert(Denominator(at.inst, at.part, row))]
     IN  \E random \in Randoms :
           lag' = lag @@ (<<"perm", at.inst, at.part>> :>
                             GrandProduct(LastZ(at.inst, at.part), factor, random))
  /\ at' = [at EXCEPT !.part = @ + 1]
  /\ UNCHANGED <<stm, chal, key, pair, coeffs, cosets, values, ooc, h, stage>>

NextPermutation ==
  /\ stage = "permutation" /\ at.inst \in Insts /\ at.part > key.sets
  /\ at' = [at EXCEPT !.inst = @ + 1, !.part = 1]
  /\ UNCHANGED <<stm, chal, key, lag, pair, coeffs, cosets, values, ooc, h, stage>>

-----------------------------------------------------------------------------
(* The products of the lookups and of the shuffles.                        *)
ShuffleNames == {"shuffle"} \X Insts \X (DOMAIN C.shuffles)

CompressShuffles ==
  /\ stage = "permutation" /\ at.inst \notin Insts /\ stage' = "products"
  /\ pair' = pair @@ [name \in ShuffleNames |-> Compress(C.shuffles[name[3]], name[2])]
  /\ UNCHANGED <<stm, chal, key, lag, coeffs, cosets, values, ooc, at, h>>

LookupFactor(name, row) ==
  LET permuted(kind) == lag[<<kind, name[2], name[3]>>][row]
  IN  Invert((chal.beta ++ permuted("input")) ** (chal.gamma ++ permuted("table")))
        ** (pair[name].input[row] ++ chal.beta) ** (pair[name].table[row] ++ chal.gamma)
ShuffleFactor(name, row) ==
  Invert(chal.gamma ++ pair[name].table[row]) ** (chal.gamma ++ pair[name].input[row])

CommitProducts ==
  /\ stage = "products" /\ stage' = "transform"
  /\ \E random \in Randoms :
       lag' = lag @@ [name \in LookupNames |->
                        GrandProduct(1, [row \in Rows |-> LookupFactor(name, row)], random)]
                  @@ [name \in ShuffleNames |->
                        GrandProduct(1, [row \in Rows |-> ShuffleFactor(name, row)], random)]
  /\ UNCHANGED <<stm, chal, key, pair, coeffs, cosets, values, ooc, at, h>>

(* Every column in coefficient form, and from there on the coset. *)
GenPolys ==
  /\ stage = "transform" /\ stage' = "extend"
  /\ coeffs' = [name \in DOMAIN lag |-> LagrangeToCoeff(key.domain, lag[name])]
  /\ UNCHANGED <<stm, chal, key, lag, pair, cosets, values, ooc, at, h>>

GenCosets ==
  /\ stage = "extend" /\ stage' = "evaluate"
  /\ cosets' = cosets @@ [name \in DOMAIN coeffs |-> CoeffToExtended(key.domain, coeffs[name])]
  /\ values' = [row \in 0 .. ExtendedLen - 1 |-> 0] /\ ooc' = values'
  /\ at' = [inst |-> 1, part |-> 1, done |-> {}]
  /\ UNCHANGED <<stm, chal, key, lag, pair, coeffs, h>>

-----------------------------------------------------------------------------
(* The terms of one row of the quotient, the same for threads and tiles.
   They are evaluated over whole cosets, or over windows of them, by index: a
   view is the first row of the window, its length, which a rotation wraps at,
   and the index. *)
Read(view, name, rotation) ==
  LET rotated == (view.idx + rotation * key.domain.scale) % view.isize
  IN  cosets[name][(view.first + rotated) % ExtendedLen]

GateTerms(i, view) ==
  [g \in DOMAIN C.gates |->
     ValueOf(C.gates[g], LAMBDA q : Read(view, Column(q[1], i, q[2]), q[3]))]

(* What every product starts and ends with: l_0 (1 - z), l_last (z^2 - z). *)
StartTerm(z, view) == (1 -- Read(view, z, 0)) ** Read(view, L0, 0)
EndTerm(z, view)   == ((Read(view, z, 0) ** Read(view, z, 0)) -- Read(view, z, 0)) ** Read(view, LLast, 0)

(* betaTerm is the power of extended_omega at this row. *)
PermutationTerms(i, betaTerm, view) ==
  LET z(s)     == <<"perm", i, s>>
      column(j) == Read(view, Column(C.perm[j][1], i, C.perm[j][2]), 0)
      delta(j) == chal.beta ** Zeta ** betaTerm ** Pow(Delta, j - 1)
      left(s)  == Read(view, z(s), 1) ** Product(ColumnsOfSet(s), LAMBDA m :
                    LET j == FirstColumn(s) + m - 1
                    IN  column(j) ++ (chal.beta ** Read(view, <<"sigma", 0, j>>, 0)) ++ chal.gamma)
      right(s) == Read(view, z(s), 0) ** Product(ColumnsOfSet(s), LAMBDA m :
                    LET j == FirstColumn(s) + m - 1 IN column(j) ++ delta(j) ++ chal.gamma)
  IN  IF key.sets = 0 THEN << >> ELSE
      << StartTerm(z(1), view), EndTerm(z(key.sets), view) >>
      \o [s \in 1 .. key.sets - 1 |->
            (Read(view, z(s + 1), 0) -- Read(view, z(s), -(key.blinding + 1))) ** Read(view, L0, 0)]
      \o [s \in 1 .. key.sets |-> (left(s) -- right(s)) ** Read(view, LActive, 0)]

LookupTerms(i, n, view) ==
  LET z == <<"lookup", i, n>>
      in(rot) == Read(view, <<"input", i, n>>, rot)
      table   == Read(view, <<"table", i, n>>, 0)
      compressed(polys) == Compressed(polys, LAMBDA q : Read(view, Column(q[1], i, q[2]), q[3]))
      tableValue == (compressed(C.lookups[n].inputs) ++ chal.beta)
                      ** (compressed(C.lookups[n].tables) ++ chal.gamma)
      aMinusS == in(0) -- table
  IN  << StartTerm(z, view), EndTerm(z, view),
         ((Read(view, z, 1) ** (in(0) ++ chal.beta) ** (table ++ chal.gamma))
            -- (Read(view, z, 0) ** tableValue)) ** Read(view, LActive, 0),
         aMinusS ** Read(view, L0, 0),
         aMinusS ** (in(0) -- in(-1)) ** Read(view, LActive, 0) >>

ShuffleTerms(i, n, view) ==
  LET z == <<"shuffle", i, n>>
      compressed(polys) == Compressed(polys, LAMBDA q : Read(view, Column(q[1], i, q[2]), q[3]))
      inputValue   == compressed(C.shuffles[n].inputs) ++ chal.gamma
      shuffleValue == compressed(C.shuffles[n].tables) ++ chal.gamma
  IN  << StartTerm(z, view), EndTerm(z, view),
         Read(view, LActive, 0) ** ((Read(view, z, 1) ** shuffleValue) -- (Read(view, z, 0) ** inputValue)) >>

-----------------------------------------------------------------------------
(* evaluate_h: instance by instance and group by group, every group by all
   threads, each on its own chunk of the rows.  The gates are split by
   chunks_mut, the other groups by parallelize. *)
Groups == <<<<"gates", 0>>, <<"permutation", 0>>>>
            \o [n \in DOMAIN C.lookups |-> <<"lookup", n>>]
            \o [n \in DOMAIN C.shuffles |-> <<"shuffle", n>>]

StartOfChunk(group, t) ==
  IF group[1] = "gates" THEN Min({t * ((ExtendedLen + Threads - 1) \div Threads), ExtendedLen})
  ELSE t * (ExtendedLen \div Threads) + Min({t, ExtendedLen % Threads})

Terms(group, i, start, row) ==
  LET view == [first |-> 0, isize |-> ExtendedLen, idx |-> row]
      betaTerm == key.domain.extended[start] ** key.domain.extended[row - start]
  IN  CASE group[1] = "gates"       -> GateTerms(i, view)
        [] group[1] = "permutation" -> PermutationTerms(i, betaTerm, view)
        [] group[1] = "lookup"      -> LookupTerms(i, group[2], view)
        [] OTHER                    -> ShuffleTerms(i, group[2], view)

EvaluateChunk(t) ==
  /\ stage = "evaluate" /\ at.inst \in Insts /\ t \notin at.done
  /\ LET group == Groups[at.part]
         start == StartOfChunk(group, t)
     IN  values' = [row \in DOMAIN values |->
           IF row \in start .. StartOfChunk(group, t + 1) - 1
             THEN Horner(values[row], Terms(group, at.inst, start, row), chal.y)
             ELSE values[row]]
  /\ at' = [at EXCEPT !.done = @ \cup {t}]
  /\ UNCHANGED <<stm, chal, key, lag, pair, coeffs, cosets, ooc, h, stage>>

(* The scope of a group is left when all its threads are done. *)
JoinGroup ==
  /\ stage = "evaluate" /\ at.inst \in Insts /\ at.done = 0 .. Threads - 1
  /\ at' = IF at.part < Len(Groups) THEN [at EXCEPT !.part = @ + 1, !.done = {}]
           ELSE [inst |-> at.inst + 1, part |-> 1, done |-> {}]
  /\ UNCHANGED <<stm, chal, key, lag, pair, coeffs, cosets, values, ooc, h, stage>>

(* SS_CHECK_OOC_H: the same by tiles.  part is the first row of the tile. *)
StartTwin ==
  /\ stage = "evaluate" /\ at.inst \notin Insts /\ stage' = "tiles"
  /\ at' = [inst |-> 1, part |-> 0, done |-> {}]
  /\ UNCHANGED <<stm, chal, key, lag, pair, coeffs, cosets, values, ooc, h>>

-----------------------------------------------------------------------------
(* evaluate_h_ooc.  The halo covers every rotation of every argument. *)
RotationsOf(args) == {Magnitude(q[3]) : q \in UNION {ToSet(args[a].queries) : a \in DOMAIN args}}
HaloRows ==
  LET sys == System(C)
  IN  key.domain.scale
        * Max({0} \cup RotationsOf(sys.gates)
              \cup (IF key.sets > 0 THEN {key.blinding + 1} ELSE {})
              \cup (IF C.shuffles # << >> THEN {1} \cup RotationsOf(sys.shuffles) ELSE {})
              \cup (IF C.lookups # << >> THEN {1} \cup RotationsOf(sys.lookups) ELSE {}))

TileLenAt(s) == Min({TileRows, ExtendedLen - s})

(* Row r of the tile at s, in the window that starts halo rows before s. *)
Window(s, halo, r) ==
  [first |-> s - halo, isize |-> TileLenAt(s) + 2 * halo, idx |-> halo + r]

(* fault: the power of extended_omega at the row's place in the window *)
TileTermsLocal(i, s, halo, r) ==
  LET view == Window(s, halo, r)
      betaTerm == key.domain.extended[r]
  IN  GateTerms(i, view) \o PermutationTerms(i, betaTerm, view)
        \o FlattenSeq([n \in DOMAIN C.lookups |-> LookupTerms(i, n, view)])
        \o FlattenSeq([n \in DOMAIN C.shuffles |-> ShuffleTerms(i, n, view)])

(* beta_term keeps the absolute position, not the window's. *)
TileTerms(i, s, halo, r) ==
  LET view == Window(s, halo, r)
      betaTerm == key.domain.extended[s] ** key.domain.extended[r]
  IN  GateTerms(i, view) \o PermutationTerms(i, betaTerm, view)
        \o FlattenSeq([n \in DOMAIN C.lookups |-> LookupTerms(i, n, view)])
        \o FlattenSeq([n \in DOMAIN C.shuffles |-> ShuffleTerms(i, n, view)])

TwinTile ==
  /\ stage = "tiles" /\ at.inst \in Insts /\ at.part < ExtendedLen
  /\ LET halo == HaloRows
         rows == at.part .. at.part + TileLenAt(at.part) - 1
     IN  ooc' = [row \in DOMAIN ooc |->
           IF row \in rows
             THEN Horner(ooc[row], TileTerms(at.inst, at.part, halo, row - at.part), chal.y)
             ELSE ooc[row]]
  /\ at' = [at EXCEPT !.part = @ + TileLenAt(@)]
  /\ UNCHANGED <<stm, chal, key, lag, pair, coeffs, cosets, values, h, stage>>

NextTiles ==
  /\ stage = "tiles" /\ at.inst \in Insts /\ at.part >= ExtendedLen
  /\ at' = [inst |-> at.inst + 1, part |-> 0, done |-> {}]
  /\ UNCHANGED <<stm, chal, key, lag, pair, coeffs, cosets, values, ooc, h, stage>>

-----------------------------------------------------------------------------
(* vanishing::Committed::construct: divide, transform back, keep as many
   coefficients as the quotient of this degree has. *)
Construct ==
  /\ stage = "tiles" /\ at.inst \notin Insts /\ stage' = "done"
  /\ LET all == ExtendedToCoeff(key.domain, DivideByVanishingPoly(key.domain, values))
     IN  h' = [c \in 0 .. N * key.domain.pieces - 1 |-> all[c]]
  /\ UNCHANGED <<stm, chal, key, lag, pair, coeffs, cosets, values, ooc, at>>

ArgInit ==
  /\ stm \in Statements /\ chal \in ChallengeSets
  /\ key = << >> /\ lag = << >> /\ pair = << >> /\ coeffs = << >> /\ cosets = << >>
  /\ values = << >> /\ ooc = << >> /\ at = << >> /\ h = << >> /\ stage = "keygen"

ArgNext ==
  \/ BuildKey \/ Columns \/ CompressLookups \/ CommitPermuted \/ NotInTable
  \/ CommitPermutation \/ NextPermutation \/ CompressShuffles \/ CommitProducts
  \/ GenPolys \/ GenCosets
  \/ (\E t \in 0 .. Threads - 1 : EvaluateChunk(t)) \/ JoinGroup
  \/ StartTwin \/ TwinTile \/ NextTiles \/ Construct

ArgReturned == stage \in {"done", "error"}

ArgSpec == ArgInit /\ [][ArgNext]_argVars

-----------------------------------------------------------------------------
(* The verifier at x: the evaluations it is given, its own evaluation of the
   instance columns, its expressions and the equation. *)
EvalAt(name, rotation, x) == Eval(coeffs[name], N, RotateOmega(key.domain, x, rotation))

InstanceEval(i, col, rotation, x) ==
  LET given == stm.instances[i].instance[col]
  IN  Sum(Len(given), LAMBDA r : given[r] ** LI(key.domain, x, r - 1 - rotation))

QueryEval(i, query, x) ==
  IF query[1] = "instance" THEN InstanceEval(i, query[2], query[3], x)
  ELSE EvalAt(Column(query[1], i, query[2]), query[3], x)

LEvals(x) ==
  LET li(i)  == LI(key.domain, x, i)
      last   == li(-(key.blinding + 1))
      lBlind == Sum(key.blinding, LAMBDA r : li(-r))
  IN  [zero |-> li(0), last |-> last, active |-> 1 -- (last ++ lBlind)]

PermutationExpressions(i, x, l) ==
  LET z(s, rot) == EvalAt(<<"perm", i, s>>, rot, x)
      eval(j)  == QueryEval(i, <<C.perm[j][1], C.perm[j][2], 0>>, x)
      left(s)  == z(s, 1) ** Product(ColumnsOfSet(s), LAMBDA m :
                    LET j == FirstColumn(s) + m - 1
                    IN  eval(j) ++ (chal.beta ** EvalAt(<<"sigma", 0, j>>, 0, x)) ++ chal.gamma)
      right(s) == z(s, 0) ** Product(ColumnsOfSet(s), LAMBDA m :
                    eval(FirstColumn(s) + m - 1) ++ chal.gamma
                      ++ (chal.beta ** x ** Pow(Delta, (s - 1) * key.chunk) ** Pow(Delta, m - 1)))
      end == z(key.sets, 0)
  IN  IF key.sets = 0 THEN << >> ELSE
      << l.zero ** (1 -- z(1, 0)), ((end ** end) -- end) ** l.last >>
      \o [s \in 1 .. key.sets - 1 |-> (z(s + 1, 0) -- z(s, -(key.blinding + 1))) ** l.zero]
      \o [s \in 1 .. key.sets |-> (left(s) -- right(s)) ** l.active]

LookupExpressions(i, n, x, l) ==
  LET z(rot) == EvalAt(<<"lookup", i, n>>, rot, x)
      a(rot) == EvalAt(<<"input", i, n>>, rot, x)
      s      == EvalAt(<<"table", i, n>>, 0, x)
      compressed(polys) == Compressed(polys, LAMBDA q : QueryEval(i, q, x))
      left  == z(1) ** (a(0) ++ chal.beta) ** (s ++ chal.gamma)
      right == z(0) ** (compressed(C.lookups[n].inputs) ++ chal.beta)
                    ** (compressed(C.lookups[n].tables) ++ chal.gamma)
  IN  << l.zero ** (1 -- z(0)), l.last ** ((z(0) ** z(0)) -- z(0)), (left -- right) ** l.active,
         l.zero ** (a(0) -- s), (a(0) -- s) ** (a(0) -- a(-1)) ** l.active >>

ShuffleExpressions(i, n, x, l) ==
  LET z(rot) == EvalAt(<<"shuffle", i, n>>, rot, x)
      compressed(polys) == Compressed(polys, LAMBDA q : QueryEval(i, q, x))
      left  == z(1) ** (compressed(C.shuffles[n].tables) ++ chal.gamma)
      right == z(0) ** (compressed(C.shuffles[n].inputs) ++ chal.gamma)
  IN  << l.zero ** (1 -- z(0)), l.last ** ((z(0) ** z(0)) -- z(0)), (left -- right) ** l.active >>

Expressions(i, x) ==
  LET l == LEvals(x)
  IN  [g \in DOMAIN C.gates |-> ValueOf(C.gates[g], LAMBDA q : QueryEval(i, q, x))]
        \o PermutationExpressions(i, x, l)
        \o FlattenSeq([n \in DOMAIN C.lookups |-> LookupExpressions(i, n, x, l)])
        \o FlattenSeq([n \in DOMAIN C.shuffles |-> ShuffleExpressions(i, n, x, l)])

ExpectedHEval(x) ==
  Horner(0, FlattenSeq([i \in Insts |-> Expressions(i, x)]), chal.y) ** Invert(Pow(x, N) -- 1)

(* The commitments to the pieces of h are combined, from the last, with x^n. *)
HEval(x) ==
  LET pieces == key.domain.pieces
      piece(m) == Eval([c \in Rows |-> h[N * m + c]], N, x)
  IN  Horner(0, [m \in 1 .. pieces |-> piece(pieces - m)], Pow(x, N))

Accepts(x) == HEval(x) = ExpectedHEval(x)

-----------------------------------------------------------------------------
(***************************************************************************)
(* Properties.  What the circuit asks of the columns is stated on rows and *)
(* values, without a polynomial.                                           *)
(***************************************************************************)
GatesHold == \A i \in Insts, g \in DOMAIN C.gates, row \in Rows :
               ValueOf(C.gates[g], LAMBDA q : OnRow(i, row, q)) = 0
CopiesHold == \A i \in Insts, cell \in DOMAIN C.mapping :
                LET to == C.mapping[cell]
                IN  CellValue(i, cell[1], cell[2]) = CellValue(i, to[1], to[2])
Tuple(polys, i, row) == [k \in DOMAIN polys |-> ValueOf(polys[k], LAMBDA q : OnRow(i, row, q))]
LookupsHold == \A i \in Insts, n \in DOMAIN C.lookups, row \in UsableRows : \E t \in UsableRows :
                 Tuple(C.lookups[n].inputs, i, row) = Tuple(C.lookups[n].tables, i, t)
RowsWith(polys, i, tuple) == {row \in UsableRows : Tuple(polys, i, row) = tuple}
ShufflesHold == \A i \in Insts, n \in DOMAIN C.shuffles, row \in UsableRows :
                  LET tuple == Tuple(C.shuffles[n].inputs, i, row)
                  IN  Cardinality(RowsWith(C.shuffles[n].inputs, i, tuple))
                        = Cardinality(RowsWith(C.shuffles[n].tables, i, tuple))

Satisfied == GatesHold /\ CopiesHold /\ LookupsHold /\ ShufflesHold

(* create_proof and verify_proof: the equation holds at every x asked if the
   columns satisfy the circuit and fails at one of them if they do not, and
   the prover gives up only on a lookup that fails. *)
AcceptedIffSatisfied ==
  /\ stage = "done" => (Satisfied <=> \A x \in Points : Accepts(x))
  /\ stage = "error" => ~LookupsHold

(* The assertion of SS_CHECK_OOC_H: what the tiles have accumulated, row by
   row, is what the threads have, whatever the tile, wrap and halo. *)
TwinExact == stage = "tiles" /\ at.inst \notin Insts => ooc = values
=============================================================================
