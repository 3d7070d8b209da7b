------------------------------ MODULE Proving --------------------------------
(***************************************************************************)
(* A proof of the KZG fork from both ends: ProverMulti of plonk/prover.rs  *)
(* and verify_proof_with_strategy of plonk/verifier.rs, with the provers   *)
(* and verifiers of the lookup, permutation, shuffle and vanishing         *)
(* arguments, the transcripts and the two multi-open schemes they call.    *)
(*                                                                         *)
(* The two parties are two programs that never exchange a tag: an element  *)
(* of the proof is whatever the reader takes it to be, and a challenge is  *)
(* a hash of everything absorbed before it.  Here every element carries    *)
(* what the prover meant by it, the verifier names the slot it reads it    *)
(* into, and a transcript is the sequence absorbed: two challenges are     *)
(* equal exactly when the two sequences before them are.                   *)
(***************************************************************************)
EXTENDS Integers, Sequences, FiniteSets, SequencesExt, ConstraintSystem

CONSTANTS
  Circuits,    \* the circuits considered (see module ConstraintSystem)
  Schemes,     \* multi-open schemes, a subset of {"shplonk", "gwc"}
  RowCounts,   \* powers of two the parameters may have
  InstanceSets,\* for every circuit, what may be passed as circuits_instances
  MaxAttempts  \* bound: calls of commit_phase that reach the transcript

ASSUME AttemptsAssumption == MaxAttempts \in Nat

(* A phase is a byte; columns are numbered from 1, rotations are integers. *)
ColumnTypes == {"advice", "fixed", "instance"}
QueryLists == Seq(ColumnTypes \X (Nat \ {0}) \X Int)
ArgumentLists == Seq([queries : QueryLists, input : Nat, table : Nat])

ASSUME CircuitsAssumption ==
  \A circ \in Circuits :
    /\ circ.adv \in Seq(0 .. 255) /\ circ.chal \in Seq(0 .. 255)
    /\ circ.perm \in Seq(ColumnTypes \X (Nat \ {0})) /\ circ.minDegree \in Nat
    /\ circ.gates \in Seq([queries : QueryLists, degree : Nat])
    /\ circ.lookups \in ArgumentLists /\ circ.shuffles \in ArgumentLists
    /\ InstanceSets[circ] \subseteq Seq(Seq(Nat))

ASSUME RowsAssumption == RowCounts \subseteq Nat

(* An expression queries advice columns that the circuit has. *)
ASSUME ColumnsAssumption ==
  \A circ \in Circuits : \A q \in ToSet(Collected(circ)) : q[1] = "advice" => q[2] \in DOMAIN circ.adv

VARIABLES
  input,    \* circuit, rows, scheme and circuits_instances
  pc,       \* the prover: the next step of the session
  next,     \* next_phase_index
  advices,  \* the commit_phase call that filled a column of a circuit, or 0
  attempt,  \* calls of commit_phase that reached the transcript
  torn,     \* one of them failed at write_point
  tp,       \* what the prover's transcript absorbed
  proof,    \* the elements written
  wire,     \* the elements the verifier is given
  told,     \* the instance values the verifier is given: 0 the prover's
  vpc,      \* the verifier: the next step
  tv,       \* what its transcript absorbed
  got,      \* the elements read, by slot
  verdict

proverVars   == <<pc, next, advices, attempt, torn, tp, proof>>
verifierVars == <<wire, told, vpc, tv, got, verdict>>
vars == <<input, proverVars, verifierVars>>

-----------------------------------------------------------------------------
(* Elements.  i is the circuit, j the column or argument, r the rotation   *)
(* or row, v the version of the value.                                     *)
Element(kind, of, i, j, r, v) == [kind |-> kind, of |-> of, i |-> i, j |-> j, r |-> r, v |-> v]
Pt(of, i, j)    == Element("point", of, i, j, 0, 0)
Sc(of, i, j, r) == Element("scalar", of, i, j, r, 0)
Sq(of, j)       == Element("squeeze", of, 0, j, 0, 0)

(* transcript_repr of the key, which the vk hash is. *)
Key == Element("common", "key", 0, 0, 0, 0)

(* fault: a squeeze is written like a point *)
SentAll(items) == items
Sent(items) ==
  FlattenSeq([k \in DOMAIN items |->
    IF items[k].kind \in {"point", "scalar"} THEN <<items[k]>> ELSE << >>])

c == input.circuit

(* Both parties work from the key, which is made once. *)
Keys == [circ \in Circuits |-> Keygen(circ)]
vk == Keys[c]

Proofs == DOMAIN input.instances

(* f(1) \o f(2) \o ... over the indices of a sequence *)
ForEach(S, f(_)) == FlattenSeq([n \in S |-> f(n)])
ForEachCircuit(f(_)) == ForEach(Proofs, f)

InstanceValues(version) ==
  ForEachCircuit(LAMBDA i :
    ForEach(DOMAIN input.instances[i], LAMBDA j :
      [r \in 1 .. input.instances[i][j] |-> Element("common", "instance", i, j, r, version)]))

(* rotate_omega: the point at which a rotation opens is a row of the domain. *)
Point(r) == r % input.rows

-----------------------------------------------------------------------------
Inputs ==
  {in \in [circuit : Circuits, rows : RowCounts, scheme : Schemes,
           instances : UNION {InstanceSets[circ] : circ \in Circuits}] :
     in.instances \in InstanceSets[in.circuit] /\ in.rows >= MinimumRows(in.circuit)}

Init ==
  /\ input \in Inputs
  /\ pc = "new" /\ next = 1 /\ attempt = 0 /\ torn = FALSE
  /\ advices = [i \in Proofs |-> [col \in DOMAIN c.adv |-> 0]]
  /\ tp = << >> /\ proof = << >>
  /\ wire = << >> /\ told = 0 /\ vpc = "idle" /\ tv = << >> /\ got = << >>
  /\ verdict = "none"

(* The session ends without a proof. *)
Fail == /\ pc' = "failed"
        /\ UNCHANGED <<input, next, advices, attempt, torn, tp, proof, verifierVars>>

UsableRows == input.rows - (vk.blinding + 1)

Instantiable ==
  \A i \in Proofs : /\ Len(input.instances[i]) = c.ins
                    /\ \A j \in DOMAIN input.instances[i] : input.instances[i][j] <= UsableRows

(* new_with_engine: [TRANSCRIPT-1] the key, [TRANSCRIPT-2] the values of   *)
(* every instance column; nothing is committed.                            *)
New ==
  /\ pc = "new" /\ Instantiable
  /\ tp' = <<Key>> \o InstanceValues(0)
  /\ pc' = "phases"
  /\ UNCHANGED <<input, next, advices, attempt, torn, proof, verifierVars>>

NewError == pc = "new" /\ ~Instantiable /\ Fail

-----------------------------------------------------------------------------
(* commit_phase.  The column commitments of circuit i, of this attempt.    *)
Phase == vk.phases[next]

AdviceCommitments(i, v) ==
  LET cols == ColumnsOf(c, Phase)
  IN  [k \in DOMAIN cols |-> Element("point", "advice", i, cols[k], 0, v)]

(* Those of the columns before one whose commitment cannot be written. *)
CommitmentsBefore(i, col, v) ==
  LET points == AdviceCommitments(i, v)
  IN  ForEach(DOMAIN points, LAMBDA k : IF points[k].j < col THEN <<points[k]>> ELSE << >>)

(* [TRANSCRIPT-4] one challenge after another, by index *)
PhaseChallenges ==
  LET chals == ChallengesOf(c, Phase)
  IN  [k \in DOMAIN chals |-> Sq("challenge", chals[k])]

(* fault: the challenges are squeezed before the commitments are absorbed *)
CommitPhaseEarly ==
  /\ pc = "phases" /\ next <= Len(vk.phases) /\ attempt < MaxAttempts
  /\ LET points == ForEachCircuit(LAMBDA i : AdviceCommitments(i, attempt + 1))
     IN  tp' = tp \o PhaseChallenges \o points /\ proof' = proof \o points
  /\ advices' = [i \in Proofs |-> [col \in DOMAIN c.adv |->
                   IF c.adv[col] = Phase THEN attempt + 1 ELSE advices[i][col]]]
  /\ attempt' = attempt + 1 /\ next' = next + 1
  /\ UNCHANGED <<input, pc, torn, verifierVars>>

(* [TRANSCRIPT-3] the columns of the phase, circuit by circuit, then       *)
(* [TRANSCRIPT-4] its challenges.                                          *)
CommitPhase ==
  /\ pc = "phases" /\ next <= Len(vk.phases) /\ attempt < MaxAttempts
  /\ LET points == ForEachCircuit(LAMBDA i : AdviceCommitments(i, attempt + 1))
     IN  tp' = tp \o points \o PhaseChallenges /\ proof' = proof \o points
  /\ advices' = [i \in Proofs |-> [col \in DOMAIN c.adv |->
                   IF c.adv[col] = Phase THEN attempt + 1 ELSE advices[i][col]]]
  /\ attempt' = attempt + 1 /\ next' = next + 1
  /\ UNCHANGED <<input, pc, torn, verifierVars>>

(* common_point hashes its prefix before it finds that the point has no    *)
(* coordinates.                                                            *)
Prefix == Element("prefix", "point", 0, 0, 0, 0)

(* fault: the point is examined before anything is hashed *)
PrefixUnhashed == << >>
Hashed == <<Prefix>>

(* The witness of an unblinded column of circuit i is all zero: its        *)
(* commitment is the identity and write_point fails, after the columns     *)
(* before it were written; the circuits before i have their polynomials.   *)
(* next_phase_index is not moved, so the phase may be committed again.     *)
TornCommitPhase(i, col) ==
  /\ pc = "phases" /\ next <= Len(vk.phases) /\ attempt < MaxAttempts
  /\ col \in c.unblinded /\ c.adv[col] = Phase
  /\ LET points == ForEach(1 .. i - 1, LAMBDA k : AdviceCommitments(k, attempt + 1))
                     \o CommitmentsBefore(i, col, attempt + 1)
     IN  tp' = tp \o points \o Hashed /\ proof' = proof \o points
  /\ advices' = [k \in Proofs |-> [l \in DOMAIN c.adv |->
                   IF k < i /\ c.adv[l] = Phase THEN attempt + 1 ELSE advices[k][l]]]
  /\ attempt' = attempt + 1 /\ torn' = TRUE
  /\ UNCHANGED <<input, pc, next, verifierVars>>

-----------------------------------------------------------------------------
(* create_proof.  The challenges are the only thing it asks for; a phase   *)
(* without one may have been left out.                                     *)
Challenged == \A idx \in DOMAIN c.chal : \E k \in 1 .. next - 1 : vk.phases[k] = c.chal[idx]

Write(from, to, asked) ==
  pc = from /\ \E items \in {asked} :
    /\ pc' = to
    /\ tp' = tp \o items /\ proof' = proof \o Sent(items)
    /\ UNCHANGED <<input, next, advices, attempt, torn, verifierVars>>

(* What each argument writes for circuit i. *)
LookupCommitPermuted(i, l) == <<Pt("lookup input", i, l), Pt("lookup table", i, l)>>
LookupCommitProduct(i, l)  == Pt("lookup product", i, l)
PermutationCommit(i)       == [s \in 1 .. vk.sets |-> Pt("permutation", i, s)]
ShuffleCommitProduct(i, s) == Pt("shuffle", i, s)
VanishingCommit            == <<Pt("random", 0, 0)>>
VanishingConstruct         == [p \in 1 .. vk.pieces |-> Pt("h", 0, p)]

(* [5, 6] theta, then both columns of every permuted lookup *)
GenPermutedLookups ==
  /\ Challenged
  /\ Write("phases", "permutations",
       <<Sq("theta", 0)>> \o
       ForEachCircuit(LAMBDA i : ForEach(DOMAIN c.lookups, LAMBDA l : LookupCommitPermuted(i, l))))

MissingChallenges == pc = "phases" /\ ~Challenged /\ Fail

(* permute_expression_pair finds an input value that is not in the table. *)
NotInTable == pc = "phases" /\ Challenged /\ c.lookups # << >> /\ Fail

(* [7, 8, 9] *)
GenCommittedPermutationPolys ==
  Write("permutations", "lookup products",
    <<Sq("beta", 0), Sq("gamma", 0)>> \o ForEachCircuit(PermutationCommit))

(* [10] *)
GenCommittedLookupsPolys ==
  Write("lookup products", "shuffles",
    ForEachCircuit(LAMBDA i : [l \in DOMAIN c.lookups |-> LookupCommitProduct(i, l)]))

(* [11] *)
GenCommittedShuffles ==
  Write("shuffles", "vanishing",
    ForEachCircuit(LAMBDA i : [s \in DOMAIN c.shuffles |-> ShuffleCommitProduct(i, s)]))

(* [12] *)
GenCommittedVanishing == Write("vanishing", "advice polys", VanishingCommit)

Committed == \A i \in Proofs : \A col \in DOMAIN c.adv : advices[i][col] # 0

(* fault: an empty column is taken for a zero one *)
GenAdvicePolysUnchecked ==
  /\ pc = "advice polys" /\ pc' = "h"
  /\ UNCHANGED <<input, next, advices, attempt, torn, tp, proof, verifierVars>>

(* lagrange_to_coeff asserts the length of every column, and the empty     *)
(* column of a phase left out does not have it.  A lookup, a shuffle or    *)
(* the permutation that indexes into such a column may panic before.       *)
GenAdvicePolys ==
  /\ pc = "advice polys" /\ Committed /\ pc' = "h"
  /\ UNCHANGED <<input, next, advices, attempt, torn, tp, proof, verifierVars>>

MissingAdvice ==
  /\ pc \in {"permutations", "lookup products", "shuffles", "vanishing", "advice polys"}
  /\ ~Committed /\ Fail

(* [13, 14] y, then the pieces of h *)
GenConstructedVanishing ==
  Write("h", "advice evals",
    <<Sq("y", 0)>> \o VanishingConstruct)

(* write_point refuses the point at infinity.  What is not blinded can be it: *)
(* the commitment to a piece of h that is zero and, under GWC, a quotient by  *)
(* a point where all that is opened is constant.                              *)
IdentityPoint == (pc = "h" \/ (pc = "open" /\ input.scheme = "gwc")) /\ Fail

(* [15, 17] x, then the advice queries of every circuit *)
WriteAdviceEvals ==
  Write("advice evals", "fixed evals",
    <<Sq("x", 0)>> \o
    ForEachCircuit(LAMBDA i : LET qs == vk.queries["advice"] IN
      [k \in DOMAIN qs |->
         Element("scalar", "advice", i, qs[k][2], Point(qs[k][3]), advices[i][qs[k][2]])]))

VanishingEvaluate == <<Sc("random", 0, 0, 0)>>
SigmaEvaluate     == [k \in DOMAIN c.perm |-> Sc("sigma", 0, k, 0)]

LastRow == Point(-(vk.blinding + 1))

(* x and omega x, and the last row for all the sets but the last *)
PermutationEvaluate(i) ==
  ForEach(1 .. vk.sets, LAMBDA s :
    <<Sc("permutation", i, s, 0), Sc("permutation", i, s, 1)>> \o
    IF s < vk.sets THEN <<Sc("permutation", i, s, LastRow)>> ELSE << >>)

LookupEvaluate(i, l) ==
  <<Sc("lookup product", i, l, 0), Sc("lookup product", i, l, 1),
    Sc("lookup input", i, l, 0), Sc("lookup input", i, l, Point(-1)),
    Sc("lookup table", i, l, 0)>>

ShuffleEvaluate(i, s) == <<Sc("shuffle", i, s, 0), Sc("shuffle", i, s, 1)>>

(* [18, 19, 20] *)
WriteFixedEvals ==
  Write("fixed evals", "permutation evals",
    LET qs == vk.queries["fixed"] IN
      [k \in DOMAIN qs |-> Sc("fixed", 0, qs[k][2], Point(qs[k][3]))]
        \o VanishingEvaluate \o SigmaEvaluate)

(* [21] *)
EvaluatePermutations ==
  Write("permutation evals", "lookup evals", ForEachCircuit(PermutationEvaluate))

(* [22] *)
EvaluateLookups ==
  Write("lookup evals", "shuffle evals",
    ForEachCircuit(LAMBDA i : ForEach(DOMAIN c.lookups, LAMBDA l : LookupEvaluate(i, l))))

(* [23] *)
EvaluateShuffles ==
  Write("shuffle evals", "open",
    ForEachCircuit(LAMBDA i : ForEach(DOMAIN c.shuffles, LAMBDA s : ShuffleEvaluate(i, s))))

-----------------------------------------------------------------------------
(* The prover's queries: which polynomial, at which point. *)
Query(com, r) == [of |-> com, at |-> Point(r)]

AdvicePoly(i, col) == Element("point", "advice", i, col, 0, advices[i][col])

AllButLast == {s \in 1 .. vk.sets : s < vk.sets}

(* Permutation sets at x and omega x, then at the last row, from the last  *)
(* but one to the first.                                                   *)
PermutationOpens(i) ==
  ForEach(1 .. vk.sets, LAMBDA s :
    <<Query(Pt("permutation", i, s), 0), Query(Pt("permutation", i, s), 1)>>)
  \o [k \in AllButLast |->
        Query(Pt("permutation", i, vk.sets - k), -(vk.blinding + 1))]

LookupOpens(i) ==
  ForEach(DOMAIN c.lookups, LAMBDA l :
    <<Query(Pt("lookup product", i, l), 0), Query(Pt("lookup input", i, l), 0),
      Query(Pt("lookup table", i, l), 0), Query(Pt("lookup input", i, l), -1),
      Query(Pt("lookup product", i, l), 1)>>)

ShuffleOpens(i) ==
  ForEach(DOMAIN c.shuffles, LAMBDA s :
    <<Query(Pt("shuffle", i, s), 0), Query(Pt("shuffle", i, s), 1)>>)

SigmaOpens     == [k \in DOMAIN c.perm |-> Query(Pt("sigma", 0, k), 0)]
VanishingOpens == <<Query(Pt("h", 0, 0), 0), Query(Pt("random", 0, 0), 0)>>

ProverQueries ==
  ForEachCircuit(LAMBDA i :
    (LET qs == vk.queries["advice"] IN
       [k \in DOMAIN qs |-> Query(AdvicePoly(i, qs[k][2]), qs[k][3])])
    \o PermutationOpens(i) \o LookupOpens(i) \o ShuffleOpens(i))
  \o (LET qs == vk.queries["fixed"] IN
        [k \in DOMAIN qs |-> Query(Pt("fixed", 0, qs[k][2]), qs[k][3])])
  \o SigmaOpens \o VanishingOpens

(* construct_intermediate_sets refuses a polynomial queried twice at one point. *)
Openable(queries) == Cardinality(ToSet(queries)) = Len(queries)

(* What ProverSHPLONK and ProverGWC absorb and write. *)
ProveShplonk ==
  <<Sq("y", 1), Sq("v", 1), Pt("quotient", 0, 1), Sq("u", 1), Pt("quotient", 0, 2)>>
ProveGwc(queries) ==
  <<Sq("v", 1)>> \o
  [k \in 1 .. Cardinality({queries[q].at : q \in DOMAIN queries}) |-> Pt("quotient", 0, k)]

CreateProof ==
  /\ pc = "open"
  /\ \E queries \in {ProverQueries} :
     /\ Openable(queries)
     /\ Write("open", "proved",
              IF input.scheme = "shplonk" THEN ProveShplonk ELSE ProveGwc(queries))

OpeningError == pc = "open" /\ ~Openable(ProverQueries) /\ Fail

-----------------------------------------------------------------------------
(* The proof travels: as it is, cut short, with one element changed, or to *)
(* a verifier that has other instance values.                              *)
Damaged(e) == Element(e.kind, e.of, e.i, e.j, e.r, -1)

Carry(elements, version) ==
  /\ pc = "proved" /\ vpc = "idle" /\ vpc' = "instances"
  /\ wire' = elements /\ told' = version
  /\ UNCHANGED <<input, proverVars, tv, got, verdict>>

Deliver     == Carry(proof, 0)
Cut(len)    == len \in 0 .. Len(proof) - 1 /\ Carry(SubSeq(proof, 1, len), 0)
Change(pos) == pos \in DOMAIN proof /\ Carry([proof EXCEPT ![pos] = Damaged(@)], 0)
Extend      == Carry(Append(proof, Damaged(Pt("quotient", 0, 0))), 0)
Misinform   == /\ \E i \in Proofs : \E j \in DOMAIN input.instances[i] : input.instances[i][j] > 0
               /\ Carry(proof, 1)

-----------------------------------------------------------------------------
(* The verifier.  It reads the elements of a step into its slots; a proof  *)
(* that ends too early, or bytes that are not of the kind asked for, end   *)
(* the call with an error.  Bytes of the other kind may happen to decode.  *)
Return(answer) ==
  /\ verdict' = answer /\ vpc' = "done"
  /\ UNCHANGED <<input, proverVars, wire, told, tv, got>>

(* The slots with the elements read in their places, and all that is read. *)
Taken(slots, before) ==
  [k \in DOMAIN slots |->
     IF slots[k].kind \in {"point", "scalar"}
       THEN wire[before + Len(Sent(SubSeq(slots, 1, k)))] ELSE slots[k]]
Filled(wanted, before) ==
  [s \in DOMAIN got \cup ToSet(wanted) |->
     IF s \in DOMAIN got THEN got[s]
     ELSE wire[before + CHOOSE k \in DOMAIN wanted : wanted[k] = s]]

Read(from, to, asked) ==
  vpc = from /\ \E slots \in {asked} : \E wanted \in {Sent(slots)} : \E before \in {Len(Sent(tv))} :
    LET enough == before + Len(wanted) <= Len(wire)
    IN  \/ /\ enough
           /\ vpc' = to /\ tv' = tv \o Taken(slots, before) /\ got' = Filled(wanted, before)
           /\ UNCHANGED <<input, proverVars, wire, told, verdict>>
        \/ ~enough /\ Return("reject")
        \/ /\ enough
           /\ \E k \in DOMAIN wanted :
                wire[before + k].kind # wanted[k].kind \/ wire[before + k].v = -1
           /\ Return("reject")

(* [1, 2] the key and the instance values *)
ReadInstances ==
  /\ vpc = "instances" /\ vpc' = "phases"
  /\ tv' = <<Key>> \o InstanceValues(told)
  /\ UNCHANGED <<input, proverVars, wire, told, got, verdict>>

(* [3, 4] phase by phase: the columns of the phase of every circuit, then  *)
(* the challenges of the phase                                             *)
ReadPhases ==
  Read("phases", "lookups",
    ForEach(DOMAIN vk.phases, LAMBDA p :
      ForEachCircuit(LAMBDA i : LET cols == ColumnsOf(c, vk.phases[p]) IN
        [k \in DOMAIN cols |-> Pt("advice", i, cols[k])])
      \o LET chals == ChallengesOf(c, vk.phases[p]) IN
           [k \in DOMAIN chals |-> Sq("challenge", chals[k])]))

(* What the verifiers of the arguments read, by slot. *)
LookupReadPermuted(i, l)   == <<Pt("lookup input", i, l), Pt("lookup table", i, l)>>
LookupReadProduct(i, l)    == Pt("lookup product", i, l)
PermutationReadProducts(i) == [s \in 1 .. vk.sets |-> Pt("permutation", i, s)]
ShuffleReadProduct(i, s)   == Pt("shuffle", i, s)
VanishingReadBeforeY       == <<Pt("random", 0, 0)>>
VanishingReadAfterY        == [p \in 1 .. vk.pieces |-> Pt("h", 0, p)]
VanishingEvaluateAfterX    == <<Sc("random", 0, 0, 0)>>
SigmaReadEvals             == [k \in DOMAIN c.perm |-> Sc("sigma", 0, k, 0)]

PermutationReadEvals(i) ==
  ForEach(1 .. vk.sets, LAMBDA s :
    <<Sc("permutation", i, s, 0), Sc("permutation", i, s, 1)>> \o
    IF s < vk.sets THEN <<Sc("permutation", i, s, LastRow)>> ELSE << >>)

LookupReadEvals(i, l) ==
  <<Sc("lookup product", i, l, 0), Sc("lookup product", i, l, 1),
    Sc("lookup input", i, l, 0), Sc("lookup input", i, l, Point(-1)),
    Sc("lookup table", i, l, 0)>>

ShuffleReadEvals(i, s) == <<Sc("shuffle", i, s, 0), Sc("shuffle", i, s, 1)>>

(* fault: the commitment to the table is read before the one to the input *)
ReadLookupsSwapped ==
  Read("lookups", "products",
    <<Sq("theta", 0)>> \o
    ForEachCircuit(LAMBDA i : ForEach(DOMAIN c.lookups, LAMBDA l :
      <<Pt("lookup table", i, l), Pt("lookup input", i, l)>>)))

(* [5, 6] *)
ReadLookups ==
  Read("lookups", "products",
    <<Sq("theta", 0)>> \o
    ForEachCircuit(LAMBDA i : ForEach(DOMAIN c.lookups, LAMBDA l : LookupReadPermuted(i, l))))

(* [7 - 11] *)
ReadProducts ==
  Read("products", "vanishing",
    <<Sq("beta", 0), Sq("gamma", 0)>>
    \o ForEachCircuit(PermutationReadProducts)
    \o ForEachCircuit(LAMBDA i : [l \in DOMAIN c.lookups |-> LookupReadProduct(i, l)])
    \o ForEachCircuit(LAMBDA i : [s \in DOMAIN c.shuffles |-> ShuffleReadProduct(i, s)]))

(* [12 - 15] *)
ReadVanishing ==
  Read("vanishing", "evals",
    VanishingReadBeforeY \o <<Sq("y", 0)>> \o VanishingReadAfterY \o <<Sq("x", 0)>>)

(* [17 - 20] *)
ReadColumnEvals ==
  Read("evals", "argument evals",
    ForEachCircuit(LAMBDA i : LET qs == vk.queries["advice"] IN
      [k \in DOMAIN qs |-> Sc("advice", i, qs[k][2], Point(qs[k][3]))])
    \o (LET qs == vk.queries["fixed"] IN
          [k \in DOMAIN qs |-> Sc("fixed", 0, qs[k][2], Point(qs[k][3]))])
    \o VanishingEvaluateAfterX \o SigmaReadEvals)

(* [21 - 23] *)
ReadArgumentEvals ==
  Read("argument evals", "open",
    ForEachCircuit(PermutationReadEvals)
    \o ForEachCircuit(LAMBDA i : ForEach(DOMAIN c.lookups, LAMBDA l : LookupReadEvals(i, l)))
    \o ForEachCircuit(LAMBDA i : ForEach(DOMAIN c.shuffles, LAMBDA s : ShuffleReadEvals(i, s))))

(* Every query with the commitment and the evaluation the verifier pairs.  *)
Claim(com, r, eval) == [of |-> com, at |-> Point(r), eval |-> eval]

ReadClaim(slot, r) == Claim(got[slot], r, got[Sc(slot.of, slot.i, slot.j, Point(r))])

(* h_commitment is the combination of the pieces; its evaluation is the    *)
(* one the verifier computes.                                              *)
QuotientClaim ==
  Claim(IF \A p \in 1 .. vk.pieces : got[Pt("h", 0, p)] = Pt("h", 0, p)
          THEN Pt("h", 0, 0) ELSE Damaged(Pt("h", 0, 0)),
        0, Sc("h", 0, 0, 0))

PermutationClaims(i) ==
  ForEach(1 .. vk.sets, LAMBDA s :
    <<ReadClaim(Pt("permutation", i, s), 0), ReadClaim(Pt("permutation", i, s), 1)>>)
  \o [k \in AllButLast |->
        ReadClaim(Pt("permutation", i, vk.sets - k), -(vk.blinding + 1))]

LookupClaims(i) ==
  ForEach(DOMAIN c.lookups, LAMBDA l :
    <<ReadClaim(Pt("lookup product", i, l), 0), ReadClaim(Pt("lookup input", i, l), 0),
      ReadClaim(Pt("lookup table", i, l), 0), ReadClaim(Pt("lookup input", i, l), -1),
      ReadClaim(Pt("lookup product", i, l), 1)>>)

ShuffleClaims(i) ==
  ForEach(DOMAIN c.shuffles, LAMBDA s :
    <<ReadClaim(Pt("shuffle", i, s), 0), ReadClaim(Pt("shuffle", i, s), 1)>>)

KeyClaim(com, r) == Claim(com, r, got[Sc(com.of, 0, com.j, Point(r))])

SigmaClaims     == [k \in DOMAIN c.perm |-> KeyClaim(Pt("sigma", 0, k), 0)]
VanishingClaims == <<QuotientClaim, ReadClaim(Pt("random", 0, 0), 0)>>

Claims ==
  ForEachCircuit(LAMBDA i :
    (LET qs == vk.queries["advice"] IN
       [k \in DOMAIN qs |-> ReadClaim(Pt("advice", i, qs[k][2]), qs[k][3])])
    \o PermutationClaims(i) \o LookupClaims(i) \o ShuffleClaims(i))
  \o (LET qs == vk.queries["fixed"] IN
        [k \in DOMAIN qs |-> KeyClaim(Pt("fixed", 0, qs[k][2]), qs[k][3])])
  \o SigmaClaims \o VanishingClaims

Asked(claims) == [k \in DOMAIN claims |-> [of |-> claims[k].of, at |-> claims[k].at]]

(* expressions: get_any_query_index panics on a column that is not queried. *)
(* That, and intermediate sets the multi-open would refuse, have no action   *)
(* here: were they to happen, the verifier would not come to a verdict.      *)
Expressible ==
  \A k \in DOMAIN c.perm : LET q == c.perm[k] \o <<0>> IN Contains(vk.queries[q[1]], q)

(* verify_proof of the multi-open scheme: the intermediate sets, and the   *)
(* points of the opening.                                                  *)
VerifyShplonk ==
  <<Sq("y", 1), Sq("v", 1), Pt("quotient", 0, 1), Sq("u", 1), Pt("quotient", 0, 2)>>
VerifyGwc(queries) ==
  <<Sq("v", 1)>> \o
  [k \in 1 .. Cardinality({queries[q].at : q \in DOMAIN queries}) |-> Pt("quotient", 0, k)]

ReadOpening ==
  /\ vpc = "open" /\ Expressible
  /\ \E claims \in {Claims} : \E queries \in {Asked(claims)} :
     /\ Openable(queries)
     /\ Read("open", "check",
             IF input.scheme = "shplonk" THEN VerifyShplonk ELSE VerifyGwc(queries))

(* A claim holds when the evaluation is the one of that polynomial, there. *)
Opens(claim) ==
  /\ claim.eval.kind = "scalar" /\ claim.of.kind = "point"
  /\ claim.eval.of = claim.of.of /\ claim.eval.i = claim.of.i /\ claim.eval.j = claim.of.j
  /\ claim.eval.v = claim.of.v
  /\ claim.eval.r = claim.at

(* The pairing check of the strategy: every claim holds, the claims are    *)
(* combined in the order the prover combined them, and with the challenges *)
(* it had, which are the same when both have absorbed the same.  (GWC's    *)
(* last challenge, u, is the verifier's own.)                              *)
Holds == \E claims \in {Claims} :
         /\ \A k \in DOMAIN claims : Opens(claims[k])
         /\ Asked(claims) = ProverQueries
         /\ tv = tp

Check ==
  /\ vpc = "check"
  /\ Return(IF Holds THEN "accept" ELSE "reject")

-----------------------------------------------------------------------------
Caller ==
  \/ New \/ NewError \/ CommitPhase
  \/ (\E i \in Proofs : \E col \in DOMAIN c.adv : TornCommitPhase(i, col))
  \/ GenPermutedLookups \/ MissingChallenges \/ NotInTable

Prover ==
  \/ GenCommittedPermutationPolys \/ GenCommittedLookupsPolys \/ GenCommittedShuffles
  \/ GenCommittedVanishing \/ GenAdvicePolys \/ MissingAdvice \/ GenConstructedVanishing \/ IdentityPoint
  \/ WriteAdviceEvals \/ WriteFixedEvals \/ EvaluatePermutations \/ EvaluateLookups
  \/ EvaluateShuffles \/ CreateProof \/ OpeningError

Channel ==
  \/ Deliver \/ Extend \/ Misinform
  \/ (\E len \in 0 .. Len(proof) : Cut(len))
  \/ (\E pos \in DOMAIN proof : Change(pos))

Verifier ==
  \/ ReadInstances \/ ReadPhases \/ ReadLookups \/ ReadProducts \/ ReadVanishing
  \/ ReadColumnEvals \/ ReadArgumentEvals \/ ReadOpening \/ Check

Next == Caller \/ Prover \/ Channel \/ Verifier

Spec == Init /\ [][Next]_vars

(* create_proof and verify_proof, once called, run; nobody has to call them. *)
FairSpec == Spec /\ WF_vars(Prover) /\ WF_vars(Verifier)

-----------------------------------------------------------------------------
(***************************************************************************)
(* Properties.                                                             *)
(***************************************************************************)
(* Every variable has its type; the proof holds points and scalars only, no
   column is of a later attempt than the last. *)
TypeOK ==
  /\ input \in Inputs
  /\ next \in 1 .. Len(vk.phases) + 1
  /\ attempt \in 0 .. MaxAttempts /\ torn \in BOOLEAN
  /\ \A i \in Proofs : advices[i] \in [DOMAIN c.adv -> 0 .. attempt]
  /\ \A k \in DOMAIN proof : proof[k].kind \in {"point", "scalar"}
  /\ \A s \in DOMAIN got : s.kind \in {"point", "scalar"}
  /\ Len(Sent(tv)) <= Len(wire)
  /\ verdict \in {"none", "accept", "reject"}

Intact == IsPrefix(proof, wire) /\ told = 0
Honest == ~torn /\ vpc # "idle" /\ Intact

Meant(slot, e) == [e EXCEPT !.v = 0] = slot

(* prover.rs and verifier.rs number the same steps TRANSCRIPT-1 to 23.  In an
   honest session every element the verifier has read is the one the prover
   wrote for that slot, and the two transcripts have absorbed the same: at no
   step do the two programs disagree on what comes next. *)
SlotsAgree ==
  Honest => /\ \A s \in DOMAIN got : Meant(s, got[s])
            /\ IsPrefix(tv, tp)

Advice(e) == e.of = "advice" /\ e.kind = "point"

(* A challenge of a phase depends on every column of the phase and of the
   phases before it, of every circuit, and on no later one: what makes a
   multi-phase circuit sound, whatever calls failed on the way. *)
ChallengesFollowTheirPhase ==
  \A k \in DOMAIN tp :
    tp[k].of = "challenge" =>
      LET phase  == c.chal[tp[k].j]
          before == {tp[l] : l \in 1 .. k - 1}
      IN  /\ \A i \in Proofs : \A col \in DOMAIN c.adv :
               c.adv[col] <= phase => \E e \in before : Advice(e) /\ e.i = i /\ e.j = col
          /\ \A e \in before : Advice(e) => c.adv[e.j] <= phase

(* create_proof only asks for the challenges, yet no proof is ever made with
   a column missing: each one of each circuit is in the transcript before
   theta, at the version that is evaluated. *)
ProvedMeansCommitted ==
  pc = "proved" =>
    \A i \in Proofs : \A col \in DOMAIN c.adv :
      \E k \in DOMAIN tp : /\ Advice(tp[k]) /\ tp[k].i = i /\ tp[k].j = col
                            /\ tp[k].v = advices[i][col] /\ tp[k].v # 0
                            /\ \E l \in DOMAIN tp : l > k /\ tp[l].of = "theta"

(* Two rotations of one column that are the same row of the domain. *)
RotationsWrap ==
  \E type \in {"advice", "fixed"} : LET qs == vk.queries[type] IN
    \E k, l \in DOMAIN qs : k # l /\ qs[k][2] = qs[l][2] /\ Point(qs[k][3]) = Point(qs[l][3])

(* The multi-open refuses a polynomial queried twice at a point.  Only a gate
   with two rotations a whole domain apart can make it: minimum_rows keeps the
   last row of a permutation product away from rows 0 and 1. *)
OpeningFailsOnlyOnWrap ==
  /\ pc = "open" /\ ~Openable(ProverQueries) => RotationsWrap
  /\ vpc = "open" /\ Honest => Openable(Asked(Claims))

(* One proof per session, and it is accepted exactly when no write failed and
   the verifier has it unchanged, with the same instances: an interrupted
   commit_phase that is retried never yields an acceptable proof, and nothing
   is read past the end of the opening. *)
Promise == INSTANCE ProofSession WITH
  session <- IF pc = "failed" THEN "failed" ELSE IF pc # "proved" THEN "open"
             ELSE IF vpc = "idle" THEN "proved" ELSE IF vpc = "done" THEN "judged"
             ELSE "delivered",
  clean   <- ~torn /\ (vpc # "idle" => Intact),
  verdict <- verdict

ImplementsProofSession == Promise!Init /\ [][Promise!Next]_(Promise!vars)

(* A create_proof that got past its first challenge ends, in a proof or an
   error; a verifier that was given a proof, however short or damaged, gives a
   verdict: no evaluation it needs is one it did not read, or panics over. *)
Settles ==
  /\ pc = "permutations" ~> pc \in {"proved", "failed"}
  /\ vpc = "instances" ~> verdict # "none"
=============================================================================
