------------------------------ MODULE Arithmetic -----------------------------
(***************************************************************************)
(* arithmetic.rs of halo2-zcash: the Fourier transform over a pool of      *)
(* threads, in place; the multi-exponentiation by windows of bits; work    *)
(* dealt to threads in chunks; and the functions on polynomials that one   *)
(* thread computes.  A scalar has ScalarBytes bytes, little end first,     *)
(* where the code has 32; groups and fields are integers modulo a prime,   *)
(* which the job names; a polynomial's coefficients count from 1.          *)
(***************************************************************************)
EXTENDS Integers, Sequences, FiniteSets, SequencesExt

CONSTANTS
  ScalarBytes,
  ArithJobs   \* [kind, p, threads] and what that kind is called with

VARIABLES
  arithJob,
  slots,    \* the slice the threads share, from 0; a polynomial's is from 1
  finished, \* blocks, windows or chunks
  total,    \* of the windows
  arithStage

arithVars == <<arithJob, slots, finished, total, arithStage>>

Modulo(x)  == x % arithJob.p
Negated(x) == Modulo(0 - x)
SumOf(n, term(_)) == FoldLeft(LAMBDA acc, j : Modulo(acc + term(j)), 0, [j \in 1 .. n |-> j])
Power[x \in Nat, e \in Nat] == IF e = 0 THEN 1 ELSE Modulo(x * Power[x, e - 1])
LogFloor(num) == CHOOSE pow \in 0 .. num : 2 ^ pow <= num /\ num < 2 ^ (pow + 1)

Begins(kind) == arithJob.kind = kind /\ arithStage = "start"
Works(kind)  == arithJob.kind = kind /\ arithStage = "work"

-----------------------------------------------------------------------------
(* best_fft: n = 2^logN values, `omega` of order n. *)
FftSize == 2 ^ arithJob.logN
Twiddle(i) == Power[arithJob.omega, i]
Serial  == arithJob.logN <= LogFloor(arithJob.threads)

BitReverse(k) ==
  FoldLeft(LAMBDA r, bit : 2 * r + ((k \div 2 ^ bit) % 2), 0, [bit \in 1 .. arithJob.logN |-> bit - 1])

Permute ==
  /\ Begins("fft") /\ arithStage' = "work"
  /\ slots' = [k \in DOMAIN slots |-> slots[BitReverse(k)]]
  /\ UNCHANGED <<arithJob, finished, total>>

TwiddleOf(i, size) == Twiddle(i * (FftSize \div size))

(* The two halves of the block of `size` at `start` are transformed: combine. *)
Butterfly(a, start, size) ==
  LET half == size \div 2
      t(i) == Modulo(a[start + half + i] * TwiddleOf(i, size))
  IN  [k \in DOMAIN a |->
         IF k \in start .. start + half - 1 THEN Modulo(a[k] + t(k - start))
         ELSE IF k \in start + half .. start + size - 1 THEN Modulo(a[k - half] - t(k - start - half))
         ELSE a[k]]

(* One thread, chunk by chunk, chunks of 2, then 4, ... *)
FftLevel ==
  /\ Works("fft") /\ Serial /\ Cardinality(finished) < arithJob.logN
  /\ LET size == 2 ^ (Cardinality(finished) + 1)
     IN  /\ slots' = FoldLeft(LAMBDA a, c : Butterfly(a, (c - 1) * size, size), slots,
                              [c \in 1 .. FftSize \div size |-> c])
         /\ finished' = finished \cup {size}
  /\ UNCHANGED <<arithJob, total, arithStage>>

(* recursive_butterfly_arithmetic: a block is combined when both its halves
   are joined. *)
FftBlock ==
  /\ Works("fft") /\ ~Serial
  /\ \E size \in {2 ^ l : l \in 1 .. arithJob.logN} : \E start \in {k \in DOMAIN slots : k % size = 0} :
       LET half == size \div 2
       IN  /\ <<start, size>> \notin finished
           /\ half > 1 => {<<start, half>>, <<start + half, half>>} \subseteq finished
           /\ slots' = Butterfly(slots, start, size)
           /\ finished' = finished \cup {<<start, size>>}
  /\ UNCHANGED <<arithJob, total, arithStage>>

FftReturn ==
  /\ Works("fft") /\ arithStage' = "done"
  /\ IF Serial THEN Cardinality(finished) = arithJob.logN ELSE <<0, FftSize>> \in finished
  /\ UNCHANGED <<arithJob, slots, finished, total>>

-----------------------------------------------------------------------------
(* best_multiexp: from 32 bases on a window has ceil(ln n) bits, which is 4 up
   to 54; jobs have no more. *)
Bases  == arithJob.bases
Coeffs == arithJob.coeffs
WindowBits == IF Len(Bases) < 4 THEN 1 ELSE IF Len(Bases) < 32 THEN 3 ELSE 4
(* fault: as many windows as there are whole ones *)
SegmentsWhole == (8 * ScalarBytes) \div WindowBits
Segments      == (8 * ScalarBytes) \div WindowBits + 1

BytesOf(coeff) == [b \in 1 .. ScalarBytes |-> (coeff \div 256 ^ (b - 1)) % 256]

(* Bits segment * c onwards, c of them, of the bytes from skip_bytes on. *)
GetAt(segment, bytes) ==
  LET skipBits  == segment * WindowBits
      skipBytes == skipBits \div 8
      v == FoldRight(LAMBDA byte, acc : 256 * acc + byte, SubSeq(bytes, skipBytes + 1, Len(bytes)), 0)
  IN  IF skipBytes >= ScalarBytes THEN 0
      ELSE (v \div 2 ^ (skipBits - 8 * skipBytes)) % 2 ^ WindowBits

(* Buckets::sum: every base is added to the bucket of its digit, and the
   buckets are summed by parts from the last. *)
BucketSum(segment) ==
  LET digit  == [j \in DOMAIN Coeffs |-> GetAt(segment, BytesOf(Coeffs[j]))]
      bucket == [d \in 1 .. 2 ^ WindowBits - 1 |->
                   SumOf(Len(Bases), LAMBDA j : IF digit[j] = d THEN Bases[j] ELSE 0)]
  IN  FoldRight(LAMBDA b, s : LET sum == Modulo(b + s.sum) IN [sum |-> sum, acc |-> Modulo(s.acc + sum)],
                bucket, [sum |-> 0, acc |-> 0]).acc

Doubled(x, times) == Modulo(x * Power[2, times])

MultiexpBegin ==
  /\ Begins("multiexp") /\ arithStage' = IF Len(Coeffs) = Len(Bases) THEN "work" ELSE "panic"
  /\ UNCHANGED <<arithJob, slots, finished, total>>

(* More coefficients than threads: the windows are summed and doubled into
   place in any order, and so are they added up. *)
ParallelWindow ==
  /\ Works("multiexp") /\ Len(Coeffs) > arithJob.threads
  /\ \E i \in (0 .. Segments - 1) \ finished :
       /\ total' = Modulo(total + Doubled(BucketSum(i), WindowBits * i))
       /\ finished' = finished \cup {i}
  /\ UNCHANGED <<arithJob, slots, arithStage>>

(* Otherwise from the last window to the first, the sum doubled in between. *)
SerialWindow ==
  /\ Works("multiexp") /\ Len(Coeffs) <= arithJob.threads /\ Cardinality(finished) < Segments
  /\ LET i == Segments - 1 - Cardinality(finished)
     IN  total' = Modulo(Doubled(total, WindowBits) + BucketSum(i)) /\ finished' = finished \cup {i}
  /\ UNCHANGED <<arithJob, slots, arithStage>>

MultiexpReturn ==
  /\ Works("multiexp") /\ finished = 0 .. Segments - 1 /\ arithStage' = "done"
  /\ UNCHANGED <<arithJob, slots, finished, total>>

(* small_multiexp: double and add, bit by bit from the top. *)
SmallMultiexp(coeffs, bases) ==
  FoldRight(LAMBDA bit, acc :
              Modulo(2 * acc + SumOf(Len(coeffs), LAMBDA j : ((coeffs[j] \div 2 ^ bit) % 2) * bases[j])),
            [b \in 1 .. 8 * ScalarBytes |-> b - 1], 0)

-----------------------------------------------------------------------------
(* parallelize: the slice in chunks of n \div threads, the rest in one more. *)
ChunkLength ==
  LET chunk == arithJob.n \div arithJob.threads
  IN  IF chunk < arithJob.threads THEN arithJob.n ELSE chunk

Spawn ==
  /\ Begins("parallelize") /\ arithStage' = IF ChunkLength = 0 THEN "panic" ELSE "work"
  /\ UNCHANGED <<arithJob, slots, finished, total>>

(* The function of the job adds to an element omega^(its index). *)
RunChunk ==
  /\ Works("parallelize")
  /\ \E start \in {c * ChunkLength : c \in 0 .. arithJob.n} \cap DOMAIN slots :
       /\ start \notin finished /\ finished' = finished \cup {start}
       /\ slots' = [k \in DOMAIN slots |-> IF k \in start .. start + ChunkLength - 1
                                           THEN Modulo(slots[k] + Power[arithJob.omega, k]) ELSE slots[k]]
  /\ UNCHANGED <<arithJob, total, arithStage>>

JoinChunks ==
  /\ Works("parallelize") /\ arithStage' = "done"
  /\ {c * ChunkLength : c \in 0 .. arithJob.n} \cap DOMAIN slots \subseteq finished
  /\ UNCHANGED <<arithJob, slots, finished, total>>

-----------------------------------------------------------------------------
(* One thread. *)
EvalPolynomial(poly, x) == FoldRight(LAMBDA coeff, acc : Modulo(acc * x + coeff), poly, 0)

InnerProduct(a, b) == SumOf(Len(a), LAMBDA j : a[j] * b[j])

(* kate_division: from the leading coefficient down, by X - b. *)
KateDivision(a, b) ==
  FoldLeft(LAMBDA s, r :
             LET lead == Modulo(r - s.tmp)
             IN  [q |-> <<lead>> \o s.q, tmp |-> Modulo(lead * Negated(b))],
           [q |-> << >>, tmp |-> 0], SubSeq(Reverse(a), 1, Len(a) - 1)).q

Inverted(x) == CHOOSE y \in 0 .. arithJob.p - 1 : Modulo(x * y) = 1

(* lagrange_interpolate: for each point the product of (X - x_k) / (x_j - x_k). *)
LagrangeInterpolate(points, evals) ==
  LET others(j) == SelectSeq([k \in DOMAIN points |-> k], LAMBDA k : k # j)
      times(tmp, j, k) ==
        LET denom == Inverted(Modulo(points[j] - points[k]))
        IN  [c \in 1 .. Len(tmp) + 1 |->
               Modulo((IF c <= Len(tmp) THEN tmp[c] ELSE 0) * Negated(denom * points[k])
                      + (IF c > 1 THEN tmp[c - 1] ELSE 0) * denom)]
      basis(j) == FoldLeft(LAMBDA tmp, k : times(tmp, j, k), <<1>>, others(j))
  IN  IF Len(points) = 1 THEN <<evals[1]>>
      ELSE [c \in DOMAIN points |-> SumOf(Len(points), LAMBDA j : basis(j)[c] * evals[j])]

Compute ==
  /\ arithStage = "start" /\ arithStage' = "done"
  /\ CASE arithJob.kind = "eval"  -> slots' = EvalPolynomial(arithJob.poly, arithJob.x)
       [] arithJob.kind = "inner" -> slots' = InnerProduct(arithJob.poly, arithJob.evals)
       [] arithJob.kind = "kate"  -> slots' = KateDivision(arithJob.poly, arithJob.x)
       [] arithJob.kind = "lagrange" -> slots' = LagrangeInterpolate(arithJob.points, arithJob.evals)
       [] arithJob.kind = "small" -> slots' = SmallMultiexp(Coeffs, Bases)
       [] OTHER -> FALSE
  /\ UNCHANGED <<arithJob, finished, total>>

-----------------------------------------------------------------------------
ArithInit ==
  /\ arithJob \in ArithJobs /\ arithStage = "start" /\ finished = {} /\ total = 0
  /\ slots = CASE arithJob.kind = "fft"         -> [k \in 0 .. FftSize - 1 |-> arithJob.values[k + 1]]
               [] arithJob.kind = "parallelize" -> [k \in 0 .. arithJob.n - 1 |-> 1]
               [] OTHER                         -> << >>

ArithNext ==
  \/ Permute \/ FftLevel \/ FftBlock \/ FftReturn
  \/ MultiexpBegin \/ ParallelWindow \/ SerialWindow \/ MultiexpReturn
  \/ Spawn \/ RunChunk \/ JoinChunks \/ Compute

ArithSpec == ArithInit /\ [][ArithNext]_arithVars

-----------------------------------------------------------------------------
(* The definitions the code stands for. *)
PolyAt(poly, x) == SumOf(Len(poly), LAMBDA j : poly[j] * Power[x, j - 1])
LinearCombination == SumOf(Len(Bases), LAMBDA j : Modulo(Coeffs[j]) * Bases[j])

Exact ==
  CASE arithJob.kind = "fft" ->
         slots = [k \in 0 .. FftSize - 1 |-> PolyAt(arithJob.values, Twiddle(k))]
    [] arithJob.kind = "multiexp"    -> total = LinearCombination
    [] arithJob.kind = "small"       -> slots = LinearCombination
    [] arithJob.kind = "parallelize" -> slots = [k \in 0 .. arithJob.n - 1 |-> Modulo(1 + Power[arithJob.omega, k])]
    [] arithJob.kind = "eval"        -> slots = PolyAt(arithJob.poly, arithJob.x)
    [] arithJob.kind = "inner"       -> slots = SumOf(Len(arithJob.poly), LAMBDA j : arithJob.poly[j] * arithJob.evals[j])
    [] arithJob.kind = "kate" ->
         /\ Len(slots) = Len(arithJob.poly) - 1
         /\ \A x \in 0 .. arithJob.p - 1 :
              Modulo(PolyAt(slots, x) * (x - arithJob.x)) = Modulo(PolyAt(arithJob.poly, x) - PolyAt(arithJob.poly, arithJob.x))
    [] arithJob.kind = "lagrange" ->
         /\ Len(slots) = Len(arithJob.points)
         /\ \A j \in DOMAIN slots : PolyAt(slots, arithJob.points[j]) = arithJob.evals[j]

(* arithmetic.rs: whatever order the threads run in, the transform is the
   polynomial's values at the powers of omega and the multi-exponentiation the
   sum of the bases times their scalars, with windows that do not divide the
   bits of a scalar too; every element of a slice is given to one chunk, with
   its index; and quotients and interpolations are those polynomials. *)
WorkersExact == arithStage = "done" => Exact
=============================================================================
