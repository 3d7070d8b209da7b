-------------------------- MODULE ConstraintSystem ---------------------------
(***************************************************************************)
(* What keygen derives from a compiled circuit and both parties rely on:   *)
(* ConstraintSystemBack of plonk/circuit.rs and collect_queries of         *)
(* plonk/keygen.rs.                                                        *)
(*                                                                         *)
(* A circuit is a record: the phases of its advice columns (adv) and       *)
(* challenges (chal), the unblinded columns, the gates, lookups and        *)
(* shuffles with the queries of their expressions in the order they are    *)
(* visited and with their degrees, the columns of the permutation.  A      *)
(* query is <<column type, column, rotation>>.                             *)
(***************************************************************************)
EXTENDS Integers, Sequences, FiniteSets, SequencesExt

(* The indices of a list of phases at which a phase stands, in order. *)
IndicesOf(phases, phase) ==
  FlattenSeq([k \in DOMAIN phases |-> IF phases[k] = phase THEN <<k>> ELSE << >>])

QueriesOf(args) == FlattenSeq([i \in DOMAIN args |-> args[i].queries])

(* fault: the columns of the permutation are not queried *)
CollectedNoPermutation(c) ==
  QueriesOf(c.gates) \o QueriesOf(c.lookups) \o QueriesOf(c.shuffles)

(* collect_queries: gates, lookups, shuffles, then every column of the     *)
(* permutation at the current row.                                         *)
Collected(c) ==
  QueriesOf(c.gates) \o QueriesOf(c.lookups) \o QueriesOf(c.shuffles)
    \o [i \in DOMAIN c.perm |-> c.perm[i] \o <<0>>]

(* QueriesMap: the first occurrence of every query, one list per type.     *)
Queries(c, type) ==
  LET all == Collected(c)
      new(k) == all[k][1] = type /\ \A l \in 1 .. k - 1 : all[l] # all[k]
  IN  FlattenSeq([k \in DOMAIN all |-> IF new(k) THEN <<all[k]>> ELSE << >>])

NumAdviceQueries(c) ==
  [col \in DOMAIN c.adv |->
     LET qs == Queries(c, "advice") IN Cardinality({k \in DOMAIN qs : qs[k][2] = col})]

(* The largest number of points a polynomial of the prover is opened at    *)
(* (3 for a permutation product), one for the multi-open, one to spare.    *)
BlindingFactors(c) ==
  LET counts == {NumAdviceQueries(c)[col] : col \in DOMAIN c.adv}
  IN  Max({3} \cup counts) + 2

(* fault: no room between l_0 and l_last *)
MinimumRowsTight(c) == BlindingFactors(c) + 1 + 1

MinimumRows(c) == BlindingFactors(c) + 1 + 1 + 1

(* The degrees the permutation, the lookups, the shuffles and the gates ask for. *)
Degree(c) ==
  Max({3, c.minDegree}
      \cup {Max({4, 2 + c.lookups[i].input + c.lookups[i].table}) : i \in DOMAIN c.lookups}
      \cup {2 + Max({c.shuffles[i].input, c.shuffles[i].table}) : i \in DOMAIN c.shuffles}
      \cup {c.gates[i].degree : i \in DOMAIN c.gates})

(* Columns of one permutation product, and how many products that makes.   *)
ChunkLen(c) == Degree(c) - 2
PermSets(c) == (Len(c.perm) + ChunkLen(c) - 1) \div ChunkLen(c)

QuotientDegree(c) == Degree(c) - 1

(* phases(): every phase up to the largest of an advice column.            *)
Phases(c) == LET top == Max({0} \cup ToSet(c.adv)) IN [i \in 1 .. top + 1 |-> i - 1]

(* What keygen_vk leaves with both parties. *)
Keygen(c) ==
  [queries  |-> [type \in {"advice", "fixed", "instance"} |-> Queries(c, type)],
   phases   |-> Phases(c),
   blinding |-> BlindingFactors(c),
   sets     |-> PermSets(c),
   pieces   |-> QuotientDegree(c)]

ColumnsOf(c, phase)    == IndicesOf(c.adv, phase)
ChallengesOf(c, phase) == IndicesOf(c.chal, phase)
=============================================================================
