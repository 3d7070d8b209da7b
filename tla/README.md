# snark-stream: formal models

TLA+ models of snark-stream, a halo2 prover that runs in less memory than its data:
the out-of-core machinery (streaming multi-scalar multiplication, KZG parameters on
disk, four-step Fourier transform, tiled quotient, the scratch files they use), the
proof system it must not change (prover, verifier, transcript, arguments over a small
field) and what stands in front of it (the compilers of cells, constraints and
expressions; MockProver, which says beforehand whether a circuit can be proved; the
translation of an AIR of Plonky3) and around it (key files, the threads of halo2-zcash).
Each is checked by TLC on small instances; for six of them (the multiplication, the
tiled windows, the compiler of expressions, the parameters on disk, the out-of-core
quotient, the four-step transform) TLAPS proves the main properties for every size.

To check a model: `tlc -config TileWindow.cfg MCTileWindow`. To check a proof:
`tlapm MsmOocProof.tla`. `PROJECT.json` maps every definition to the source lines
it models, and lists runs, mutants, findings, hazards and theorems.

## 1. The system

Large vectors are kept in files and visited in blocks, tiles or rows. There is no
network and no long-lived server. A prover is one process, parallel inside a step
(rayon) and sequential between steps; several provers may share a machine and a
scratch directory.

| Component | Source | State | Operations |
|---|---|---|---|
| Streaming MSM, KZG commitment | `src/src/msm.rs`, `kzg.rs`, `halo2-stream/src/msm.rs` | reader offsets, the resident block, buckets per window, the accumulator | `msm_ooc`, `msm_ooc_bases`, `commit_ooc`, `msm_incore` |
| KZG parameters | `halo2_backend/src/poly/kzg/commitment.rs` | `k`, `g`, `g_lagrange`, `streaming`, two SRS files | `setup`, `from_parts`, `streaming_params`, `enable_streaming`, `downsize`, `write_custom`, `read_custom`, `commit`, `commit_lagrange` |
| Four-step FFT | `halo2-stream/src/fft.rs` | three matrix files, the place in the pass | `four_step_ooc`, `coeff_to_extended_ooc` |
| Tiled windows | `halo2-stream/src/tiled.rs`, `disk.rs`, `ReprCoset` in `plonk/evaluation.rs` | the coset file, the window read so far | halo, `window`, `local`, rotated access |
| Out-of-core quotient | `plonk/evaluation.rs` | scratch files, tile accumulator, the values file | `evaluate_h_ooc_disk`; `evaluate_h_ooc` in RAM; `evaluate_h` is the reference |
| Prover and verifier | `plonk/prover.rs`, `verifier.rs`, `transcript.rs` | transcript, phases, challenges, the proof | `new`, `commit_phase`, `create_proof`, `verify_proof_with_strategy` |
| Arguments | `plonk/{permutation,lookup,shuffle,vanishing}`, `poly/domain.rs` | columns, grand products, the quotient | `commit_permuted`, `commit_product`, `construct`, `expressions` |
| Openings | `kzg/multiopen`, `kzg/strategy.rs`; halo2-zcash's `poly/multiopen`, `poly/commitment`, `verifier/batch.rs` | queries grouped by points, the prover's vectors, accumulators | `create_proof`, `verify_proof`, `process`, `finalize`, `accumulate_msm` |
| Expression compiler | `GraphEvaluator` in `plonk/evaluation.rs` | constants, rotations, calculations, intermediates | `add_expression`, `evaluate` |
| Circuit compiler | `halo2_frontend`: `circuit.rs`, both floor planners, `compress_selectors.rs`, `permutation/keygen.rs` | cells, regions, selectors, fixed columns, cycles | `compile_circuit`, `slot_in`, `process`, `copy` |
| Constraint system | `halo2_frontend`: `constraint_system.rs`, `expression.rs` | columns, queries and their counts, gates, lookups, shuffles, selectors | `create_gate`, `lookup`, `lookup_any`, `shuffle`, `compress_selectors`, `directly_convert_selectors_to_fixed` |
| Cell values | `halo2_frontend`: `assigned.rs`, `batch_invert_assigned` | a fraction per cell | `+ - *`, `double`, `square`, `cube`, `invert`, `evaluate` |
| Witness and MockProver | `halo2_frontend`: `dev.rs`, `dev/util.rs`, `WitnessCollection` and `calc` in `circuit.rs`, `Assembly` in `keygen.rs` | assigned cells, selectors, copies, regions, the phase | `run`, the handlers of `Assignment`, `verify` |
| halo2-zcash evaluator | `halo2-zcash/.../poly/evaluator.rs` | cosets on disk, a stack per thread | `evaluate_ooc`, `evaluate` |
| halo2-zcash proof | `halo2-zcash/.../plonk/{keygen,prover,verifier}.rs`, `lookup`, `permutation`, `vanishing` | keys, columns and their commitments, the transcript, what the verifier has read | `keygen_vk`, `keygen_pk`, `create_proof`, `verify_proof` |
| Threads of halo2-zcash | `halo2-zcash/.../arithmetic.rs` | accumulators and twiddle factors per thread | `best_multiexp`, `best_fft`, `parallelize`, `eval_polynomial`, `kate_division`, `lagrange_interpolate` |
| Polynomials of halo2-zcash | `halo2-zcash/.../poly.rs`, `poly/domain.rs`, `poly/evaluator.rs` | a vector in one of three bases | `lagrange_to_coeff`, `coeff_to_extended`, `rotate`, `evaluate`, `divide_by_vanishing_poly`, `l_i_range` |
| Key files | `halo2_backend/src/plonk.rs`, `helpers.rs`, `plonk/permutation.rs`, `poly.rs` | the words of a file, how far it is read | `write`, `read`, `to_bytes`, `from_bytes`, `bytes_length` of both keys |
| Plonky3 frontend | `p3_frontend/src/lib.rs`, `halo2_debug/src/check_witness.rs` | the constraint system, rows of the trace as columns | `compile_circuit_cs`, `compile_preprocessing`, `trace_to_wit`, `check_witness` |
| Demos | `src/src/main.rs`, `ooc-demo` | none | `gen`, `prove`, measurements |

**Interaction.** A circuit is compiled (`compile_circuit`) to fixed columns, copies and
gates; keygen makes the permutation and the compiled evaluators from them.
`create_proof` commits to polynomials with the KZG parameters; when these stream,
`commit` and `commit_lagrange` call `msm_ooc_bases` on one of the SRS files. After its
last challenge but two it calls one of the quotient evaluators (environment variables
choose). The disk evaluator spills each coset, reads it back in windows, appends rows to
the values file and reads that file at the end. The verifier shares nothing with the
prover but the key, the instances and the bytes of the proof. Errors travel by `?` to a
caller whose `expect` ends the process. Nothing removes scratch files on the error path.

**What is hard here**, and what makes each component correct:

- *MSM.* Threads add to one shared bucket array without locks; the top window is
  partial; two readers must stay level; a short file or a bad record may appear
  after most of the work. Correct: the answer is `Sum scalar_i * P_i` or an error,
  and every bucket receives the single-threaded additions in their order.
- *Windows.* The halo is a maximum gathered from four places; a window wraps; the
  last tile is short. Correct: a term reads the row it would read in the full coset.
- *Quotient.* The order of a Horner sum; several instances; leftovers of crashed
  runs; provers in one directory. Correct: byte for byte `evaluate_h`, or an error.
- *Parameters.* Two files written one after the other, vectors emptied in between
  calls, no check of a file against `k`. Correct: a commitment uses the right bases
  or is not returned.
- *FFT.* In-place row passes, tiles that do not divide the matrix, matrices that
  are not square, padding that relies on a fresh file. Correct: exactly `best_fft`.
- *Prover and verifier.* Two programs, no tags in the proof, phases driven by the
  caller, writes that fail half way. Correct: both read every element as what it was
  written for, and a proof is accepted exactly if it was made without a failure and
  arrives unchanged.
- *Arguments.* Off-by-one rows (the last usable row, the chaining of sets), leftovers
  of a table, the order of terms. Correct: accepted exactly if the columns satisfy the
  circuit.
- *Openings.* Two programs that group the same queries, powers of a challenge that must
  rise on one side as they fall on the other, accumulators in which the errors of two
  proofs might cancel. Correct: what is accepted is exactly the claims that are true.
- *Compilers.* Calculations found again, intermediates that are never cleared, gaps
  between regions, selectors that share a column, cycles that merge. Correct: what is
  compiled says what the source said.

- *Witness and mock.* One circuit is run for keygen, once per phase for the witness and
  again for the mock, and each keeps what it takes for its own; the mock has poison where
  a proof has random values. Correct: all three have the same cells, and the mock's
  verdict is that of the constraints whatever the random values are.

The `hazards` of `PROJECT.json` list these line by line with the properties that
cover them.

## 2. Modules

```
Msm          <-- implements -- MsmOoc <-- MCMsmOoc, MsmOocProof
Quotient     <-- implements -- QuotientDisk <-- MCQuotientDisk (<-- MCQuotientShared), QuotientDiskProof
ProofSession <-- implements -- Proving (ConstraintSystem) <-- MCProving, ProvingProof
ParamsKzg <-- ParamsKzgProof
ParamsKzg, KeyFile <-- MCParamsKzg
FourStep <-- FourStepProof
TileWindow <-- TileWindowProof        \
Arguments, Opening (EvaluationDomain) /  <-- MCTileWindow
FourStep, ZcashEvaluator, ZcashProof (EvaluationDomain), Arithmetic, ZcashDomain <-- MCScratchFiles
Synthesis (SlotIn, SelectorCompression, CopyConstraints) \
Mock (Configure (SelectorCompression, ConstraintSystem), Assigned) > <-- MCSynthesis
AirFrontend                                              /
Graph                                                    /
Graph, CopyConstraints <-- CompilerProof
PowersOfTwo <-- CommonLemmas (used by the other proofs)
```

Five MC modules check two or more components, or two settings of one (`MCQuotientShared`), in
one run. A variable `which`, chosen at the start, says which of them runs; nothing is shared
between them.

An operator marked "fault" is a plausible bug in the definition that follows it. No
specification uses it: `PROJECT.json` pairs each with a property that fails when it
is put in place of the correct one.

**MsmOoc / Msm.** A point is a member of the free abelian group on the bases: a
function from base index to count. The abstract `Msm` returns the sum or an error
in one step, once. `MsmOoc` has one action per step of the code: `ReadBlock`,
`Decode`, the scatter, `BlockDone`, and the reduction (`Double`, `StartSum`,
`AddBucket`, `AddWindow`). In the scatter each window is a task, at most
`Threads` run at once, and the read-modify-write of a bucket is two actions
(`LoadBucket`, `StoreBucket`), so that a lost addition could be seen. A bucket is a
*sequence* of bases, because projective coordinates depend on the order of
additions. `Modes` selects `msm_ooc` (two files) or `msm_ooc_bases` (scalars in RAM).
A file may be short or long and any suspect record may fail to decode.

**TileWindow.** The coset is the identity (row p holds p), so what a term reads is
the row it read. State: tile start, next row of the file, rows missing, window so
far. Actions: `OpenWindow`, one positioned read (`ReadRun`), `ShortRead`,
`EvaluateTile`, `Finish`. The circuit's shape (which arguments, which rotations,
how many blinding factors) is chosen at the start, and the halo is computed from it
as `evaluate_h_ooc_disk` does.

**EvaluationDomain and Arguments.** What a proof *says*, over the integers modulo a
small prime. `EvaluationDomain` is `poly/domain.rs`: the size of the extended domain, the
transforms between values, coefficients and the coset, the division by `X^n - 1` and the
two ways Lagrange polynomials are evaluated. In `Arguments` a statement (a circuit, its
columns, its instances) goes through the prover's steps: keys, blinding of the unusable
rows, the permuted lookup columns, the grand product of each set of permutation columns
(one action per set and instance, since a set starts where the one before ended), those
of lookups and shuffles, the cosets, then the quotient twice: `EvaluateChunk`, one
action per thread of `evaluate_h` in any order with a join after each group of terms,
and `TwinTile`, one action per tile of `evaluate_h_ooc`; then `Construct`. The verifier
is the equation it checks, written from its own code (`PermutationExpressions`,
`LookupExpressions`, ...), which evaluates instance columns by `l_i_range` and not
by a polynomial. `Satisfied` is what a circuit means, on rows and values.

**Opening.** The multi-open arguments over the same field: GWC and SHPLONK over KZG
(`halo2_backend`), the inner product argument of halo2-zcash. A point of the curve is
the vector of its coefficients over bases whose logarithms nobody knows (powers of the
secret, or the generators, `w` and `u`), so an MSM is the point it evaluates to and a
pairing check compares two vectors, one of them shifted by the secret. The transcript is
a field element that everything read or written is hashed into by a fixed function. A
job is a scheme, the polynomials, and a list of items to open and verify: the prover's
queries and the verifier's claims, where a claimed commitment may be a combination of
others (an `MSM` in the code). The provers have one action per message or round; the
verifiers are `GwcAccumulated`, `ShplonkAccumulated`, and `GuardOf` with either way to
use a guard, and the strategies `VerifyAlone`, `ProcessNext` (`AccumulatorStrategy`) and
the batch verifier, whose chunks are verified and joined in any order that keeps
neighbours together, as rayon may. Each join is scaled by its own random number.

**QuotientDisk / Quotient.** A row is the sequence of its Horner terms; a term
records the instance, the group and the cosets it was computed from; a coset the
run that wrote it. The file system has names, inodes and open handles, so that
truncation of a file someone else has open, and unlinking, behave as on a disk.
Actions follow `evaluate_h_ooc_disk` from `CreateCoset` to `RemoveEntry`;
`Interrupt` fails or kills a prover anywhere and `Restart` starts it over what is in
the directory. The abstract `Quotient` promises each run one answer: the in-core
quotient or an error. The rows of one tile see the same terms, so the tile
accumulator is kept once; which rows a window delivers is `TileWindow`'s subject.

**Proving / ProofSession, ConstraintSystem.** `ConstraintSystem` is what keygen derives from a
circuit: queries in the order they are collected, blinding factors, degree, the chunks of the
permutation, the minimum number of rows. `Proving` is both parties. An element of the proof
carries what the prover meant by it, the verifier names the slot it reads it into, and a
transcript is the sequence absorbed, so two challenges are equal exactly when everything before
them is. The caller may call `commit_phase` as often and as early as it likes and `create_proof`
at any time; a write may fail in the middle of a phase and the call may be repeated. On the way
the proof is delivered whole, cut, extended, or with an element or an instance changed. The
verifier has one action per block it reads. The multi-open schemes appear here by the points they
open at, which must be distinct; their algebra is `Opening`'s. A proof also fails at a point at
infinity, which `write_point` refuses: it can come up where nothing is blinded, as a piece of the
quotient `h` or, under GWC, a quotient at a point (`IdentityPoint`). `ProofSession` is the promise to a caller who sees only a session, a proof and a
verdict.

**ParamsKzg.** A base is a symbol: power i of a secret, or Lagrange element i of a
secret and a domain. One process owns the parameters; `Exit` ends or kills it at any
point and another may be started over the files. `enable_streaming` is five
actions (`Note` by the generator, then create and write of each file), with an error
or a kill between any two, a half-written file included. It looks at nothing that is there:
an SRS of another size or secret may be replaced, as `gen` of the demo does when it is run
with another `k` over a used directory. Until the last write the note and the two files are
of two SRS, and what is then made from them has bases of both. The history variable `mixed`,
which no action reads, says what may have: the files, parameters made from them, a dump of
such parameters; an object that is made anew has not, nor have files when all of it is written.
`Calls` says which of two further calls the code accepts without a check may be made:
`move_again` (`enable_streaming` of parameters that stream) and `write_moved`
(`write_custom` of parameters that stream).
Serialisation is modelled for `RawBytes`, which `Params::write` and `read` use.

**KeyFile.** A key file is a sequence of words (bytes, lengths, points, field elements),
so that order, counts and widths are all there and the value of a point is not. One
action writes a section, and may fail after any word of it; another replaces the version or
the size; one reads a section with the constraint system the reader has, in each of the
three formats. What is left out: other altered words inside the file (`RawBytesUnchecked`
takes any point), and a proving key read with another circuit than it was made for.

**FourStep.** A field element is a set of terms `x_i * omega^e * zeta^z`, so a result
says which input met which root of unity, in any field. One action per transpose
tile and per row batch; both are taken as atomic, which matters only to callers
that share scratch files. Both transforms are called in any order, with any block
and batch, and may fail at any action, leaving their files. `Stage(kind, step, x)`
is the closed form of record `x` after each of the five passes: after pass 2, for
example, record `k1*n2 + j2` holds the terms of the inputs congruent to `k1` modulo
`n1`, at power `j2`.

**ZcashEvaluator.** The quotient of the halo2-zcash prover, computed as with
`SS_CHECK_OOC`: in RAM over chunks, then out of core. An expression is the list of its
operations, operands first, and a thread is a stack machine over one chunk; each leaf of
the out-of-core evaluation reads a window that may wrap through the handle that was opened
when the polynomial was spilled. Threads interleave in any order; the names are removed when
all have joined, the contents stay behind the handles.

**Arithmetic.** What halo2-zcash computes with a pool of threads: a task is a chunk, tasks
finish in any order, and each result (a multi-exponentiation with its windows and buckets, the
FFT with its split into sub-transforms and twiddle chunks, an evaluation, a division, an
interpolation) is compared with its definition. `parallelize`
panics on an empty slice, whose chunks have length zero.

**ZcashDomain.** What a vector of halo2-zcash stands for: coefficients, values on the rows, or
values on a coset. A job makes a domain, turns and transforms columns, evaluates an
expression chunk by chunk in one of the bases (`Ast` is what the overloaded operators
build) and divides the result by `X^n - 1`. The reference is the expression itself, with
columns interpolated by their definition.

**ZcashProof.** A proof of halo2-zcash from its keys to its verdict. A session is a
circuit, the calls its layout makes for keygen (once for the prover's key, once for the
verifier's, which may differ), a witness per proof, and the instances either party has.
Keygen derives degree, blinding factors, queries and the cycles of the permutation;
`CreateProof` has an action per phase (instances, advice, `permute_expression_pair` of
each lookup, products, quotient, evaluations, opening) and one per way it refuses;
`Deliver` may cut the proof or alter any element; `VerifyProof` reads it block by block,
squeezes its own challenges, computes what the quotient should be and collects its own
queries. A commitment is the polynomial and blind it commits to, which the verifier only
adds and scales; a challenge is a fixed function of all that is absorbed before it. The
multi-open argument is ideal: it convinces if the verifier asks for what was opened, in
the same order, on the same transcript, with true evaluations (`Opening` has its
details, `ZcashEvaluator` those of the quotient). Selectors are fixed columns already.
The verifier's inverse of `x^n - 1` is a guard: the code panics
where it is zero.

**Synthesis, SlotIn, SelectorCompression, CopyConstraints.** `compile_circuit`: a circuit
is a list of regions and tables, and a region the list of calls its closure makes.
`SimpleFloorPlanner` or `V1` lays it out (`SlotIn` has the shapes, the intervals and the
strategy), constants get rows of a fixed column, selectors are compressed or converted,
and each copy is a walk along a cycle, one cell per step, followed by a swap of two
arrows, as `permutation/keygen.rs` does it.

**Configure.** A script is the list of calls a circuit's `configure` makes, one action per
call: columns and challenges by phase, selectors, equality, constants, gates, `lookup`,
`lookup_any` with its sanity checks, `shuffle`. Expressions are trees; building one that
adds or multiplies simple selectors panics, as the operators do. `Compile` looks at the
minimum number of rows, packs selectors into columns (`Combinations`, of
`SelectorCompression`) or gives each its own, and replaces them in every expression.
`Mid` is what goes to the backend, whose view of it is `ConstraintSystem`, the module
`Proving` builds keys and proofs from. The names of gates and cells kept for error
messages, and annotations, are left out.

**Assigned.** A fraction and what it is worth go through the operations together: the
fraction as the code computes it, the worth by the field's own. The second operand of a
sum or product is any fraction, zero denominators included.

**Mock.** A script of `Configure`, with a program (the calls a floor planner makes on an
`Assignment`) and instances. The calls are made for keygen, then for the witness once
per phase, then for the mock once per phase; `real` is what the first two collect, `mock`
what the third does, and one action per handler says what each keeps, ignores or refuses.
A value is known, comes from an instance, or is a multiple of a challenge that is known
when its phase is over. `MockCompress` packs the selectors, with the operators of
`Configure`; `Verify` is `verify`, with its five kinds of failures over compressed
expressions, poison, and the two ways the report itself panics. `Satisfied` is what a
proof is about: the constraints as `configure` wrote them, selectors and all, on the
cells of `real`, with given values in the rows of blinding. Regions are told apart by
the cells assigned and the selectors enabled in them, names and annotations left out.

**AirFrontend.** An AIR is a list of symbolic constraints over the current and next row, the
publics and the selectors for the first row, the last row and transitions. The module
says which of them become copies to instance columns and which become gates, what the
fixed columns hold, and how the trace is laid out; `check_witness` then judges the circuit.
Two details a reader may not expect are kept: publics that are declared and never copied
leave one column of inputs and no instance column, and a constraint that looks at the next
row without being under a transition reads one row past the trace, not the first.

**Graph.** The recursion of `add_expression` is a stack machine that sees the nodes
operands first; a stack entry carries the source the code returns and what the
expression is worth on every row. Shortcuts, the searches for constants, rotations and
calculations that exist already, the Horner calculations for gates and for lookups and
shuffles, and the evaluation row by row over intermediates nobody clears are all there.

## 3. Runs

| Run | Question | Bounds, and why they suffice |
|---|---|---|
| `msm_ooc` | does `msm_ooc`, or `msm_ooc_bases`, implement `Msm`, with exact buckets throughout? | 3 records in blocks of 2 (short last block); 3-bit scalars in 2-bit windows (partial top window); 2 threads; files of 2 to 4 records; two suspect records |
| `msm_zero_block` | *violation*: does a call with block 0 return? | |
| `tile_window` | does a term of a tile read the right row? do threads and tiles agree, and does the verifier's equation hold exactly for true statements? is an opening accepted exactly if all its claims are true? | *windows*: 16 rows, 2 per rotation, tiles of 5 (last has 1 row); seven circuits with halos 0 to 8, windows that wrap at either end, both, and more than once; files too short and too long. *arguments*: 16 rows of which 10 usable, modulo 193; extended domains of 32 and 64; tiles of 24 (last is short, windows longer than the domain), 3 threads; circuits with copies over two sets of columns and the instance, a two-column lookup with a shuffle, two instances with rotated instance queries; ten statements, of which three are true and the others break one gate, copy, lookup or shuffle each. *openings*: 16 coefficients; nine queries of five polynomials at three points, in three sets of points that do not come in ascending order, one of them a combination; claims that are all true, one evaluation off, a wrong combination, one query too many, the same query twice; two or three proofs together, errors that would cancel among them |
| `quotient` | is the answer the in-core one over crashes, restarts and leftovers, with terms in order? do two provers in one directory come to rest? | 3 rows in tiles of 2 (short last tile), one of each argument, 2 runs, leftover files with names in use and not. *two provers*: 2 rows, tiles of 1, so that one truncates what the other is reading |
| `quotient_instances` | *violation*: is the quotient exact with 2 instances? | |
| `quotient_same_dir` | *violation*: is it exact for 2 provers in one directory? | |
| `params_kzg` | is a commitment right or not returned, over any sequence of calls, failures and kills? | domains of 1 and 2 points, two secrets; a downsize, a torn file, a retry, and either SRS or either size over the other all occur, with every leftover of a replacement that was stopped; `Calls` empty. *keys*: of a circuit with two fixed columns and three with copies, and of one with none; every format, either raw one read as the other; files cut after every word, of another version or size; readers with one to four columns |
| `params_move_over` | *violation*: is every commitment right, those of parameters made from files of two SRS included? | |
| `params_move_again` | *violation*: are moved bases still on disk when `enable_streaming` is called twice? | |
| `scratch_files` | are both transforms, each stage of them, and the zcash evaluator exact over failures, repeats and interleavings? does halo2-zcash accept exactly what is true, and is what its threads compute together exact? | *transform*: 8 records (2 x 4), blocks 3 and 8, batches smaller than a row and of a row; 2 calls. *zcash*: 8 extended rows, 1 or 3 threads, so that the last chunk is shorter or is all; rotations -1, 1, 2; modulo 73. *proof*: 16 rows of which 10 usable, modulo 12097, coset of 16 to 64; 26 sessions: gates, copies over two sets with instance and fixed columns, a two-column lookup, two lookups of which one rotated, two proofs in one; true statements, also with zeros after the instances or copies in another order; each of a gate, a copy and a lookup broken; other instances or keys on the verifier's side; a proof cut or altered at every element; every refusal. *arithmetic*: up to 54 bases with two-byte scalars, FFTs of up to 8 modulo 17, 1 to 8 threads and 40, so that there are fewer elements than threads, a short last chunk, no work at all, and a transform split further than its size. *polynomials*: 4 and 8 rows modulo 97 and 13, extended once to eight times or too far; columns turned by less, by all and by more than the rows; expressions that vanish on the rows and that do not; chunks of 1 to 7 |
| `proving` | do the parties agree on every element and challenge, and is exactly the right proof accepted? | three circuits (two phases with a challenge between them, a lookup and copies; three permutation sets; a shuffle and a rotation of 8), proved once and twice at a time, with wrong instances too; 8 and 16 rows, so that rotations meet modulo 8; both schemes; 3 attempts at a phase |
| `synthesis` | does what is compiled (circuit, constraint system, expression) say what the source said? is a fraction worth what the operations on it say? does MockProver say what a proof would? does the circuit of an AIR accept the traces the AIR accepts? | *cells*: up to three regions of a catalogue of six, tables, both planners; 7 rows of which 6 usable, so that circuits also fail to fit. *expressions*: up to 3 leaves and a negation over gates, lookups and shuffles, modulo 5, two rows and a rotation. *constraint systems*: three advice columns in two phases, one unblinded, four selectors of which one complex, then any two of 21 calls or any three of five gates, with rows of selectors that meet, that do not and that are empty, packed or not, 16 rows, or 8 so that some do not fit; four allocations of columns and challenges in every order of phases. *fractions*: every fraction modulo 11 from every other in one operation. *mock*: some 150 circuits of 16 rows of which 10 usable, with gates on and off near the rows of blinding, cells left out, lookups, shuffles, copies, tables, two phases with a challenge, cells outside of the usable rows, short and long instances; three blindings; every kind of failure, both panics and every refusal occur. *AIRs*: twelve AIRs (first and last row, transitions, publics bound in either row or not at all), each in four shapes of trace and domain, with true and false traces and claims; modulo 11, 8 rows |

Deadlock is checked except in `scratch_files` (the caller really stops after `MaxCalls` calls, the
evaluator after its comparison, a session of `ZcashProof` with its verdict), `proving` (a session
ends with a verdict or a failure) and `synthesis` (a compiler ends).

**Bounds in guards**: `MaxCalls` (FourStep), `MaxRuns` (QuotientDisk), `MaxAttempts`
(Proving, calls of `commit_phase` that reach the transcript), `MaxLeaves` and
`MaxNegations` (Graph, the size of the expressions).

**Safety.** `ScatterExact` (`BucketsExact`: each bucket, at any moment of the scatter, is the
single-threaded list so far; `NoSharedBucket`: no two windows work on one), `PartialSums` (the
accumulator is the MSM of the top digits); `RotatedAccess`; `AcceptedIffSatisfied`, `TwinExact`,
`OpenedIffTrue`; `ScratchIntact` (`CosetsIntact` and `RowsStreamed`), `SweptClean`; `BasesKept`,
`CommitmentsRight` (`CommitmentsExact` where the bases are not of two SRS), `FilesReadBack` (of parameters, `WrittenReadsBack`, and of keys,
`KeysReadBack`); `TransformExact` (`StageExact`, the result, `ScratchRemoved`), `SharedWorkExact`
(`ChunksExact` of the evaluator, `WorkersExact` of `Arithmetic`, `VectorsExact` of `ZcashDomain`),
`VerdictRight`; `SlotsAgree`, `ChallengesFollowTheirPhase`, `ProvedMeansCommitted`,
`OpeningFailsOnlyOnWrap`; `WellPlaced`, `CircuitKept` (with `CyclesAreClasses`, the cycles of the
permutation), `GraphExact`; `BackendAgrees`; `AssignedExact`, `MockFaithful`, `AirKept`. One type
invariant per run. **Refinement**: `ImplementsMsm`, `ImplementsQuotient`,
`ImplementsProofSession`. **Liveness**: `Terminates`, `TilesTerminate`, `Settles`,
`SharedSettles` (`Settles` of two quotients in one directory), `BothReturn`.

`BackendAgrees` relates two programs that look at the same constraints at different times,
in two parts. `BackendFits` is about counts.
The frontend counts queries as they are asked for, with selectors, and from them decides
how many rows a circuit may use; the backend collects them again from the expressions
that are left. If it found one more, the prover would open a row that is not blind; if
packed selectors raised a degree, the quotient would not fit its domain. `SameConstraints`
compares values: a gate may be scaled by packing, so it must vanish on the same rows;
the inputs of lookups and shuffles must be equal, so complex selectors are never packed.
`shuffle`, unlike `lookup`, takes an expression with a simple selector and panics only
when the circuit is compiled; the model does the same.

`MockFaithful` has two parts. `PassesAgree`: the mock takes a circuit exactly if keygen and
the witness do, and then has their cells, selectors and copies, although it runs every
phase over all columns and they do not. `VerdictRight`: what it finds right is satisfied
under every blinding, and for each failure it reports there is a blinding that shows
it. The property names the exceptions, which are listed with the findings.

`AcceptedIffSatisfied` has two directions. *Complete*: for a true statement the
equation holds at every point asked. *Sound*: for a false one it fails at one of the
seven points. Soundness is a matter of probability, and a large one only in a large
field: the run shows it for one family of challenges, where a missing term or a wrong
row would make a false statement pass at all seven.

`VerdictRight` of `ZcashProof` relates a verdict to the session: a proof that arrives
unchanged is accepted if and only if the witness satisfies gates, copies and lookups of the
verifier's layout with the verifier's instances, up to zeros at the end of an instance
column, which are the same statement; one that does not is refused; and a refusal before
that (of the instances, a layout, a witness, a lookup's input) has its cause in the
session. It is sound in the sense below, and the draws matter: in a field of 12,097
elements some 48 values of the last challenge make a given false statement pass, and
the draws of the run are ones that do not. A run with other draws may meet one; that is
the soundness error of the argument and no fault of the code.

`OpenedIffTrue` is sound in the same sense: one family of challenges and one sequence of
random scales, in which no wrong claim slips through. The draws avoid what makes the code
panic on the inverse of zero (a challenge that is a queried point, a round challenge of
zero: the guards `z(1) # 0` and `u # 0`; TLC would report a deadlock), and no witness is
the point at infinity, which the transcript refuses. Without the scaling in `ProcessNext`
or `JoinChunks` the pair of proofs whose errors cancel is accepted; with one scale for
all joins instead of a new one for each, some orders of joining accept it too.

**Fairness.** Weak fairness of the steps of a thread that can run, and of the prover
and the verifier of `Proving`, each a program that goes on unless it returns: the code
never waits for another thread except rayon's join, and rayon's workers and the
operating system go on running tasks that are ready. Failures, kills, restarts, further
calls and what happens to a proof on its way carry no fairness, so no liveness property
relies on an error happening. `Settles` of `Proving` says that a session that is driven
ends in a proof or a failure and a delivered proof in a verdict. `Arguments`,
`Opening`, `Synthesis`, `Configure`, `Mock`, `AirFrontend`, `KeyFile`, `Arithmetic`,
`ZcashDomain`, `ZcashProof` and `Graph` state no liveness: their loops are over fixed lists.

## 4. Findings

1. *Block 0 never returns* (`msm_zero_block`). `block.min(n - done)` is 0, the loop
   reads nothing and repeats. The command line parses any number.
2. *Several instances* (`quotient_instances`). `evaluate_h_ooc_disk` starts each
   instance's tile accumulator at zero and overwrites the rows of the instance
   before, where `evaluate_h` folds all instances into one sum. With one instance,
   as in every demo, the two agree. `evaluate_h_ooc`, the twin in RAM, is right for
   any number: `TwinExact` covers two.
3. *Two provers in one directory* (`quotient_same_dir`). Scratch names are fixed and
   the default directory is `/var/tmp`: a prover may compute with another's cosets
   and report success.
4. *`enable_streaming` twice* (`params_move_again`). The second call writes the
   emptied vectors over the files.
5. *A replacement that is stopped* (`params_move_over`). `gen` notes `k` beside the files and
   `enable_streaming` then replaces them one after the other. Run with a smaller `k` over a
   directory in use and killed in between, it leaves the Lagrange file of the larger domain,
   which is long enough; `streaming_params` does not look at it, and `commit_lagrange` returns a
   commitment over the wrong basis without an error.

Further disagreements are reached by changing a constant of a passing run, not by a run
of their own:

- `ParamsKzg` with `Calls = {"write_moved"}` violates `FilesReadBack`:
  `write_custom` of parameters that stream writes no bases and succeeds.
- `FourStep` with two callers in one directory violates `TransformExact`: scratch
  names carry only the process number.
- `TileWindow` with `Tile = 0` (`SS_OOC_TILE=0`) violates `TilesTerminate`, and
  `FourStep` with 0 in `Blocks` violates `BothReturn`: neither loop advances.

- `Evaluator::evaluate` over coefficients panics on a linear term when chunks have length
  one: the comment (`poly/evaluator.rs:642`) says that the coefficient is then in the second
  chunk, where it is put, but the first chunk falls into the other branch and writes its
  second element, which it has not. Only tests evaluate in that basis. `VectorsExact` names
  this panic; without the exception TLC finds it violated.

Where MockProver and a proof differ, as `MockFaithful` states it:

- A lookup or a shuffle whose two sides both read rows of blinding is right for the mock,
  in which all poison is equal, and fails with random values. Without the exception
  (`ArgumentsPoisoned`), which the property makes for any argument that reads poison on a
  usable row, TLC finds `MockFaithful` violated.
- A cell nobody assigned differs from an assigned zero in a copy; a proof has 0 in both.
- A column that is not blinded has poison in the mock and 0 in a proof.
- An instance that is read past its end is zero for the mock; the witness fails.
- `verify` panics instead of reporting when a gate misses a cell in a region that has no
  assigned cell at all, or when a constraint that is not met reads a cell of poison.

## 5. Proofs

All theorems hold for every value of the constants that satisfies the named
`ASSUME`s of the modules (sizes are naturals, positive where the code divides by
them; `Block` and `Tile` may be 0). None is about liveness. Where a theorem has a
hypothesis besides, it is one of these, and each is needed:

| Hypothesis | Says | Why | Without it |
|---|---|---|---|
| `OwnDirectories` (`QuotientDisk`, `FourStep`) | no two provers, or callers, have one scratch directory | scratch names are fixed, or carry only the process number; nothing in the code locks them | `quotient_same_dir`, finding 3; `FourStep` with two callers |
| `OneInstance` (`QuotientDisk`) | `Instances = 1` | what every caller of the repository passes | `quotient_instances`, finding 2 |
| `"move_again" \notin Calls` (`ParamsKzg`, `BasesAlwaysKept` only) | `enable_streaming` is not called on parameters that stream | nothing in the repository does | `params_move_again`, finding 4 |
| `"write_moved" \notin Calls` (`ParamsKzg`, `AlwaysReadsBack` only) | `write_custom` is not called on parameters that stream | nothing in the repository does | below the findings |
| `Sized` (`FourStep`) | sizes are naturals, blocks are not 0, `extended_k` is at least `k` | an extended domain is never smaller than the domain (`poly/domain.rs`) | a block of 0 in `BothReturn`, below finding 4 |

**MsmOocProof**: `TypeCorrect`, `ScatterCorrect` (of `BucketsCorrect` and `NoLockNeeded`),
`ReadersLevel`, `PartialSumsCorrect`, and `StreamedMsmCorrect`, that `Spec` implements `Msm`. The
inductive invariant `IInv` is the checked properties with `Control`, which relates the program
counter to the rest: no window is busy outside the scatter, all records are routed once the
reduction starts, a busy window has an item left whose digit is not zero, the readers are within
the files, and no record routed so far is bad. It is needed because `BucketsExact` alone does not
say that a block is complete when it is left, and because a step of the reduction is only right
over all the records. The argument: a `StoreBucket` appends one base to one slot; `SlotInjective`
shows that no other window's bucket is that slot; `ListsAppend` that the specification's list
grows by the same base; in the reduction a window's buckets are summed downwards, and `2^c` times
the top digits plus the next digit are the longer top digits (`CommonLemmas`). The refinement
follows as every step but the last is a stutter of `Msm`, and the last returns the accumulator,
which `PartialSums` has made the full sum.

**TileWindowProof**: `TypeCorrect`, `WindowCorrect`, `TwoReadsSuffice`,
`TiledAccessIsDirectAccess`. `WindowPrefix`, that what has been read is a prefix of the
window `TileSpec::window` builds in RAM, is the heart of the inductive invariant;
`Progress` adds that after the first read the reader is done or stands at row 0, after
the second it is done unless the window is longer than the domain, and a window that
does not wrap is done after one. From it a run extends the window by the rows that
follow modulo `Size`; a second run starts at row 0, so a window no longer than the
domain needs no third. The rotated access then is arithmetic: the halo is at least any
rotation the circuit uses, hence the local index stays inside the window and its own
modulus never wraps it.

**CompilerProof**, of the expression compiler: `GraphInvariant`, `GraphTypeCorrect`,
`GraphIsExact`, from `FieldAssumption` (addition and multiplication commute, 0 and 1 are neutral,
0 absorbs, `a + a` is `2 a`: the shortcuts of the code need no more, neither associativity nor
inverses). The inductive invariant has four parts. *Faithful*: the source of every stack entry
evaluates, on every row, to what the entry's expression is worth, if each calculation is evaluated
after those before it. *Operands*: a calculation only reads those before it, so a row never sees
an intermediate of the row before; this is what makes the missing reset harmless. *Stages*: the
last calculation added is the Horner sum, which is always new because it holds an operand no
earlier calculation holds; without it the last intermediate, which `evaluate` returns, could be
one that was found again further up. *RowsRight*: the intermediates computed so far on the current
row are the values of their calculations. A Horner calculation is a loop, so its value is a
recursive function of the number of terms, and its step is proved by `SetInduction` (module
`CommonLemmas`), induction in a form without operator parameters.

**CompilerProof**, of the copy constraints: `CyclesCorrect`, for every finite set of cells
(`CellsAssumption`) and every list of copies: after each copy, and before any, the cycles of
`mapping` are the classes that the copies made so far generate, `aux` gives the cells of a class
one label and no other cell that label, and `sizes` has the size of each class under its label. It
is the part of `CircuitKept` about the permutation, of the copies of any circuit whatever; that
those `Synthesis` hands over are pairs of cells is in `AllTyped`. A class is a cycle if `mapping`
leads from it nowhere else and leaves no part of it but the whole (`OneCycle`); in this form
swapping two arrows of two classes makes one cycle by set reasoning alone (`CyclesMerge`), with no
word about lengths. The inductive invariant has besides what holds while a merge is under way,
when the code walks the smaller cycle and labels its cells one by one: `Merging`, the cells
relabelled so far are a walk along `mapping` from the first cell to the one before where the code
stands. As a cycle has no smaller closed part, the walk has met every cell when it is back at the
first, and only then, so no cell keeps the old label and the arrows are swapped over two whole
cycles. That the classes of a longer list of copies are those of the shorter with two joined is
`ClassesMore`; `Classes` is a recursive function, whose equations `RecursionExists` gives.

**QuotientDiskProof**: `TypeCorrect`, of any number of provers that share what they
like; with `OwnDirectories`, `CosetsAlwaysIntact` and `AlwaysSwept`; with `OneInstance`
too, `ScratchAlwaysIntact` (of `CosetsIntact` and `RowsStreamed`), `QuotientAlwaysExact`
and `DiskImplementsQuotient`, that `Spec` implements `Quotient` over crashes, restarts
and leftovers. The inductive invariants are layered, each hypothesis at the layer that
needs it. *TInv*, types and what the file system guarantees: a name or a handle leads to
an inode that exists, and that a run of a prover of this directory made or that was there
before. *DInv* adds `CosetsIntact` and `Sweeping` (what the sweep has not
removed yet is all that is left). With own directories a file that is opened for writing
is open nowhere else, which is where the argument of `CosetsIntact` lies: truncating an
inode would otherwise change what a reader holds. *QInv* adds `Computing` of each prover:
`Spilling`, every coset the tile loop will read has been opened or is still to be;
`Streaming`, the values file is open, has its length and holds exactly the in-core rows
below the tile, zero above; `Accumulating`, the tile's accumulator is the first terms of
a row; `Answered`, the value read back is the in-core one. `CosetsIntact`
alone says nothing of rows, and `RowsStreamed` nothing of a tile half evaluated. As
the steps of one prover leave the others' state alone, `StepsOf` reduces `Next` to the
steps of one, and the refinement follows: a prover that returns answers what `InCore` says,
one that stops answers an error, all other steps stutter.

**ParamsKzgProof**: of every sequence of calls, failures and kills, those of `Calls` and the
replacement of an SRS by another included, `TypeCorrect` and `CommitmentsAlwaysRight`;
without a second `enable_streaming`, `BasesAlwaysKept`; without `write_custom` of parameters that
stream, `AlwaysReadsBack`. A commitment is right although a generator may have been
killed between any two steps and another process started over its files, whatever SRS those
were of before, unless its parameters were made from files in which one SRS was about to replace
another: the exception that `mixed` names and `params_move_over` shows. The inductive
invariant says what is where, exactly if it is not mixed and up to the secret or domain if it is:
`Vectors`, in memory there are as many points as the domain has, of one secret each; `OnDisk`, a
file is a *prefix* of a basis, that of the SRS `meta` notes, so that a file that is long enough
is the right one; `Busy`, while the second file is written the first is complete; `Streaming`,
parameters that stream agree with the note, and those that have moved have both files whole;
`Buffered`, what was written is a prefix of one well-formed serialisation, so that a truncated
buffer is refused and a whole one is read back. Two facts carry `mixed` along: parameters are
not mixed if the files they streamed from or were read from are not (`Clean`), and files are
only called clean again by the last write of parameters that are.

**FourStepProof**: with `Sized`, `TypeCorrect`; with `OwnDirectories` too,
`TransformAlwaysExact` and `AlwaysRemoved`: for every power of two, block, batch and
number of coefficients, both transforms return the transform of their input, each
pass leaves what its closed form says, and a call that returns leaves no file but the
result. The first half of the proof is algebra: the five stages, each from the one before
(`StageOfTranspose`, `StageOfFirstPass` and the like). A transposition is a bijection of
records because `n1 * n2 = n`; the first pass folds the inputs of a class modulo `n1`;
the twiddle is what is missing between `w^(n1 j q)` and `w^(i e)`. The second half is the
inductive invariant `EInv`: *Owned*, every scratch name leads to an inode of its caller
and its slot, so a call truncates only what it made; *Truncated*, the first file is zero
until the input is written, so that an extension reads zeros above its coefficients;
*Passing*, inside a pass the records reached hold their new stage, and the source still
holds the old; *Passed*, *Returned*. `Passing` is the strengthening: what a tile writes
is right only if what it reads has not been overwritten by an earlier tile of the pass.

**ProvingProof**: `TypeCorrect`, `ChallengesFollow`, `NothingLeftOut`, `PartiesAgree`,
`AcceptedMeansIntact`, `ProvingImplementsSession` and `OpeningSucceeds`, for every circuit that `CircuitsAssumption`
types (phases are bytes, columns numbered from 1) and `ColumnsAssumption` closes (an expression
queries advice columns that the circuit has, which `ConstraintSystem` hands out itself), every set
of row counts (`RowsAssumption`), every scheme and number of calls. Transcript and proof are built
by concatenating a list per circuit, per phase and per argument, so the module starts with
flattened lists: `FlattenOf` says that what a list of lists gathers is exactly what its parts
hold, `ConcatPlace` where a place of a concatenation comes from. The inductive invariant `Inv` is
about the transcript of a session that is still under way, of which the properties say only how it
must end. *Ordered*: `Follows`, every challenge of a phase already squeezed stands after all
columns of its phase and of earlier ones, of every circuit, and after none of a later one; and
between calls `UpToPhase`, all columns of the phases already committed are in the transcript and
none above the phase that is next: without it a step could squeeze a challenge too early, or find
a column of a later phase before it. A call torn by a failing write leaves columns of its own
phase and no challenge, so it may be made again. *Kept*: `Held`, each column that is filled is in
the transcript at its present version, also one a repeated call has written again; from theta on
`Sealed`, it is there before theta; and `Committed` once `gen_advice_polys` has let the session
pass. What `create_proof` writes, block by block, is *plain*, it holds no challenge of a phase,
and a plain list keeps all of this (`FollowsMore`, `HeldMore`).

`PartiesAgree` compares two parties, so its invariant speaks of what each has still to do.
*Following*: a session no write of which failed follows one script, `Opened(next - 1)`
while calls of `commit_phase` arrive, then `Session` part by part, of which `Left(pc)` is
what is left; and `proof = Sent(tp)`. At the end nothing is left (`NothingLeft`: the phases
no call was made for have no column and no challenge), so the transcript fits `Whole`, and
the verifier starts from a wire of which a proof that was returned is a prefix. *Hears*: if
that proof is what arrives, what the verifier has absorbed followed by some rest that fits
`Unread(vpc)` is the prover's transcript. A step of the verifier cuts the front of that rest
(`FitsSplit`), and reading slots from the wire by their position yields what was written
there (`ReadFits`), which needs that a read takes no more than was sent (`VerifierInv`).
The two scripts are cut in other places, the prover's by block of `create_proof`, the
verifier's by read: `SessionIs` and `WholeIs` regroup them. The last place where they could
part is the number of opening points in the scheme of GWC, which each party counts in its
own list of claims; `ClaimsAskSame` shows that claims and openings are at the same points
one by one.

`AcceptedMeansIntact` is the soundness half of `ProofSession`: an accepting verdict means that
no call of `commit_phase` failed in the session, that what the verifier was given begins with
the proof that was returned, and that the instances are the prover's. It adds two parts to the
invariant. *Recorded*: what the prover's transcript says of its own session. A session without
a failed call has absorbed each column at the version it still has (`Recent`); one with a failed
call keeps the part that call had absorbed before it failed (`Torn`), whatever follows; and it
begins with the instances and their values (`Begins`, `Greeting`).
*Heard*: the verifier absorbs only what it reads or what both sides compute (`Spoken`), and
what it reads stands in the wire at its position (`Echoes`). At its last step the verifier
accepts only if the two transcripts are equal. Then other instances would show in the first
elements (`GreetingsDiffer`), a failed call in an element that the verifier never absorbs, and
the proof is the list of what the verifier's transcript echoes, so it is a prefix of the wire.

`ProvingImplementsSession` is the refinement of `ProofSession`: a verdict is right in both
directions. The other half, that a proof which arrives unchanged is accepted, needs that the
verifier gets to its last step and that every claim holds there. The last part of the invariant,
*Ready*, is about what an honest session has read: in each slot the element of that name at the
version the column has, and a slot for everything absorbed. From it no read of an honest session
fails (`GoesOn`): what comes next on the wire has the kind that is asked for. At the last step the
verifier's transcript is the prover's, which is the whole script, so every slot that some part of a
session asks for has been read (`AllSupplied`). Claim by claim, the commitment and the evaluation
of a column, an argument, the quotient or the key are among these slots (`ColumnsAsked`,
`LookupsAsked` and the like; that row 0 and row 1 are rows of their own follows from the minimum
number of rows, `FirstRows`). So each claim is the answer to the prover's query at the same place
(`ClaimsAnswer`), and the check passes (`HonestHolds`). The step simulation is by party
(`ProverPromised`, `CarryPromised`, `VerifierPromised`): a failing call is `Tear`, an error `GiveUp`,
a damaged or misdirected delivery `Deliver(FALSE)`, and the step that ends verification `Judge`.

`OpeningSucceeds` is `OpeningFailsOnlyOnWrap`: the multi-open, which refuses a polynomial queried
twice at one point, does so only when two rotations of one column meet modulo the number of rows,
and never at the verifier of an honest session. It is about the list of the prover's queries
(`QueriesDistinct`): two blocks of it share no query because they differ in a *label*, the kind of
polynomial or the circuit (`LabelsApart`); inside a block the queries are told apart by the column
and the rotation, for which there is the hypothesis, or by the row of an argument, for which there
is `minimum_rows`: rows 0 and 1 are two rows, the last usable row is
neither, and the row before row 0 is another (`FirstRows`, `LastRows`). The verifier's half needs one more part of the invariant, *WasOpened*, that
a proof only comes out of an opening which was not refused; in an honest session the verifier then
asks exactly what the prover asked (`AskedTheSame`).

**CommonLemmas** holds the lemmas about powers of two, digits and shifts, about lists (what
concatenation and flattening make of them, that no item stands in them twice) and about the
lists of queries the multi-open is given.

*Only model-checked*: `Settles` and the properties of `Arguments`, `Opening`,
`ZcashEvaluator`, `ZcashProof`, `Synthesis`, `Configure`, `Assigned`, `Mock`,
`AirFrontend`, `KeyFile`, `Arithmetic`, `ZcashDomain`. The properties of
`Synthesis` (of which only the part about the permutation is proved) and of `KeyFile` could be
proved and are the plan's next. `Settles` is liveness. `Arguments`, `Opening` and
`ZcashProof` state that an equation fails for false statements at points that are
drawn, which is true of the draws of a run and of no others in general. `Assigned`, `Configure`,
`Mock`, `AirFrontend`, `Arithmetic` and `ZcashDomain` compute by recursion over data (expressions,
traces, transforms), which would need induction with an operator as a parameter; the
prover cannot instantiate it. Nor can it do liveness or `ENABLED`.

## 6. Not modelled

- The elliptic curve, hashing and serialisation of points. In `Proving` a challenge is
  equal to another exactly if all before it is; in `Opening` a fixed function of a small
  field stands for Blake2b. `best_fft` on a row is its definition.
- The dumps of `dev/` (cost model, graphs, profilers) and where and how MockProver says
  what has failed (`FailureLocation`, `failure.rs`): they read the circuit and print.
  `verify_at_rows` with rows the caller chooses.
- The frontend of halo2-zcash (floor planners, MockProver), an older form of what is
  modelled from halo2-fork; its keygen, prover and verifier are in `ZcashProof`, which
  takes a layout as the calls that reach keygen.
- Types without state: `Value`, the middleware, the wrapper of field types in `fwrap.rs`;
  the lookups and shuffles of `check_witness`, which no AIR has; what `halo2_debug` prints.
- Multi-exponentiations of halo2-zcash of 55 bases or more, whose windows are wider.
- Formatting, timing, memory measurements of the demos; tests, examples, the book.

## 7. Plan

1. *CompilerProof*, further: that the copies of `Synthesis` are pairs of cells, so that
   `CyclesCorrect` becomes part of a theorem about its specification.
2. *KeyFileProof*: what was written whole reads back equal, in each format.
3. *Composition*: parameters that stream, through `MsmOoc`'s abstract specification,
   so that a commitment of the composed system is `Msm`'s answer.
