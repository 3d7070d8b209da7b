--------------------------- MODULE ZcashEvaluator ----------------------------
(***************************************************************************)
(* The quotient of the halo2-zcash prover, computed twice when SS_CHECK_OOC *)
(* is set: Evaluator::evaluate over cosets in RAM, then evaluate_ooc, which *)
(* spills every registered coset to a file and reads back the window each  *)
(* leaf of the expression needs, chunk by chunk, one thread per chunk      *)
(* (poly/evaluator.rs, poly/domain.rs, poly.rs, plonk/vanishing/prover.rs). *)
(*                                                                         *)
(* An expression is the sequence of its operations in the order the two    *)
(* copies of recurse perform them, operands first: <<"poly", index,        *)
(* rotation>>, <<"add">>, <<"mul">>, <<"scale", s>>, <<"linear", s>>,      *)
(* <<"constant", s>> and, for DistributePowers, <<"constant", 0>> followed *)
(* by each term and <<"fold", base>>.  A thread is a stack machine.        *)
(***************************************************************************)
EXTENDS Integers, Sequences, SequencesExt

CONSTANTS
  Base,       \* 2^k, the rows of the circuit
  Extension,  \* 2^(extended_k - k)
  P,          \* the field: integers modulo a prime
  Omega, Zeta,\* a root of unity of order Base * Extension, and zeta
  Cosets,     \* the registered polynomials: index -> row -> value
  Asts,       \* the expressions evaluated
  ThreadCounts,\* values of current_num_threads
  PerThread   \* chunks per thread, 4 in the code

ExtLen == Base * Extension
AllRows == 0 .. ExtLen - 1
Polys == DOMAIN Cosets

(* What an instance of this module gives its constants. *)
EvaluatorAssumption ==
  /\ Base \in Nat \ {0} /\ Extension \in Nat \ {0} /\ P \in Nat \ {0}
  /\ PerThread \in Nat \ {0} /\ ThreadCounts \subseteq Nat \ {0}
  /\ Polys \subseteq Nat
  /\ \A i \in Polys : Cosets[i] \in [AllRows -> 0 .. P - 1]

VARIABLES
  call,    \* the expression and the number of threads
  pc,      \* the calling thread
  h,       \* what evaluate returned
  files,   \* what the handle opened at the spill reads: the records, or Unopened
  named,   \* the files whose name, zk_ooc_<i>.bin, is still in the directory
  spilled, \* polynomials written so far
  thread,  \* per chunk: next operation, stack, and the window being read
  out      \* the output polynomial of evaluate_ooc

vars == <<call, pc, h, files, named, spilled, thread, out>>

Unopened == << >>
Blank    == [row \in AllRows |-> 0]

-----------------------------------------------------------------------------
(* get_chunk_params *)
Ceil(a, b) == (a + b - 1) \div b
ChunkSize  == Ceil(ExtLen, call.threads * PerThread)
Chunks     == 0 .. Ceil(ExtLen, ChunkSize) - 1

ChunkStart(chunk) == ChunkSize * chunk
ChunkEnd(chunk)   == IF ChunkSize * (chunk + 1) < ExtLen THEN ChunkSize * (chunk + 1) ELSE ExtLen
ChunkLen(chunk)   == ChunkEnd(chunk) - ChunkStart(chunk)

(* Rows of the extended domain a rotation moves by. *)
Abs(r)   == IF r < 0 THEN -r ELSE r
Turn(r)  == Extension * Abs(r)

Mid(r) == IF r < 0 THEN ExtLen - Turn(r) ELSE Turn(r)

(* get_chunk_of_rotated_helper: the last rows of the coset, the first ones, *)
(* or both halves spliced.                                                 *)
RamWindow(values, r, chunk) ==
  LET mid   == Mid(r)
      k     == ExtLen - mid
      start == ChunkStart(chunk)
      end   == ChunkEnd(chunk)
      slice(a, b) == [x \in 1 .. b - a |-> values[a + x - 1]]
  IN  IF end < k THEN slice(mid + start, mid + end)
      ELSE IF start >= k THEN slice(start - k, end - k)
      ELSE slice(mid + start, ExtLen) \o slice(0, end - k)

-----------------------------------------------------------------------------
(* One operation on the stack; a poly pushes the window it was given.      *)
Power(b, e) == LET to[n \in 0 .. e] == IF n = 0 THEN 1 ELSE (b * to[n - 1]) % P IN to[e]

(* fault: every chunk takes the powers from the first row on *)
LinearTermFromZero(s, start, len) ==
  [x \in 1 .. len |-> (Power(Omega, x - 1) * Zeta * s) % P]

LinearTerm(s, start, len) == [x \in 1 .. len |-> (Power(Omega, start + x - 1) * Zeta * s) % P]
ConstantTerm(s, len)      == [x \in 1 .. len |-> s]

Operate(op, stack, window, start, len) ==
  LET top    == stack[Len(stack)]
      below  == stack[Len(stack) - 1]
      pop(n) == SubSeq(stack, 1, Len(stack) - n)
  IN  CASE op[1] = "poly"     -> Append(stack, window)
        [] op[1] = "add"      -> Append(pop(2), [x \in 1 .. len |-> (below[x] + top[x]) % P])
        [] op[1] = "mul"      -> Append(pop(2), [x \in 1 .. len |-> (below[x] * top[x]) % P])
        [] op[1] = "scale"    -> Append(pop(1), [x \in 1 .. len |-> (top[x] * op[2]) % P])
        [] op[1] = "fold"     -> Append(pop(2), [x \in 1 .. len |-> (below[x] * op[2] + top[x]) % P])
        [] op[1] = "linear"   -> Append(stack, LinearTerm(op[2], start, len))
        [] op[1] = "constant" -> Append(stack, ConstantTerm(op[2], len))

(* evaluate: the chunks are independent, their windows slices of vectors.  *)
InCoreChunk(chunk) ==
  LET step(stack, op) ==
        Operate(op, stack,
                IF op[1] = "poly" THEN RamWindow(Cosets[op[2]], op[3], chunk) ELSE << >>,
                ChunkStart(chunk), ChunkLen(chunk))
  IN  Head(FoldLeft(step, << >>, call.ast))

-----------------------------------------------------------------------------
Idle == [at |-> 1, stack |-> << >>, window |-> << >>, cur |-> 0, remaining |-> 0,
         reading |-> FALSE]

Init ==
  /\ call \in [ast : Asts, threads : ThreadCounts]
  /\ pc = "evaluate" /\ h = Blank /\ out = Blank
  /\ files = [i \in Polys |-> Unopened]
  /\ spilled = {} /\ named = {}
  /\ thread = [chunk \in Chunks |-> Idle]

Evaluate ==
  /\ pc = "evaluate" /\ pc' = "spill"
  /\ h' = [row \in AllRows |-> InCoreChunk(row \div ChunkSize)[(row % ChunkSize) + 1]]
  /\ UNCHANGED <<call, files, named, spilled, thread, out>>

(* Created, truncated and written before the next polynomial; the handle is *)
(* kept, and every window is read through it.                              *)
Spill(i) ==
  /\ pc = "spill" /\ i \notin spilled
  /\ \A j \in Polys : j < i => j \in spilled
  /\ files' = [files EXCEPT ![i] = Cosets[i]]
  /\ named' = named \cup {i}
  /\ spilled' = spilled \cup {i}
  /\ pc' = IF spilled' = Polys THEN "chunks" ELSE "spill"
  /\ UNCHANGED <<call, h, thread, out>>

Op(chunk) == call.ast[thread[chunk].at]
Working(chunk) == pc = "chunks" /\ thread[chunk].at <= Len(call.ast)

(* get_chunk_of_rotated_extended_from_file *)
StartWindow(chunk) ==
  /\ Working(chunk) /\ Op(chunk)[1] = "poly" /\ ~thread[chunk].reading
  /\ thread' = [thread EXCEPT ![chunk].reading = TRUE, ![chunk].window = << >>,
                  ![chunk].cur = (ChunkStart(chunk) + Mid(Op(chunk)[3])) % ExtLen,
                  ![chunk].remaining = ChunkLen(chunk)]
  /\ UNCHANGED <<call, pc, h, files, named, spilled, out>>

Run(t) == IF t.remaining < ExtLen - t.cur THEN t.remaining ELSE ExtLen - t.cur

(* fault: the next run goes on behind the last record *)
ReadRunNoWrap(chunk) ==
  LET t == thread[chunk] IN
  /\ Working(chunk) /\ t.reading /\ t.remaining > 0
  /\ thread' = [thread EXCEPT
       ![chunk].window = @ \o [x \in 1 .. Run(t) |-> files[Op(chunk)[2]][t.cur + x - 1]],
       ![chunk].remaining = @ - Run(t),
       ![chunk].cur = @ + Run(t)]
  /\ UNCHANGED <<call, pc, h, files, named, spilled, out>>

ReadRun(chunk) ==
  LET t == thread[chunk] IN
  /\ Working(chunk) /\ t.reading /\ t.remaining > 0
  /\ thread' = [thread EXCEPT
       ![chunk].window = @ \o [x \in 1 .. Run(t) |-> files[Op(chunk)[2]][t.cur + x - 1]],
       ![chunk].remaining = @ - Run(t),
       ![chunk].cur = IF @ + Run(t) = ExtLen THEN 0 ELSE @ + Run(t)]
  /\ UNCHANGED <<call, pc, h, files, named, spilled, out>>

(* The operation is applied; after the last the chunk is copied out.       *)
Apply(chunk) ==
  LET t     == thread[chunk]
      start == ChunkStart(chunk)
      stack == Operate(Op(chunk), t.stack, t.window, start, ChunkLen(chunk))
  IN
  /\ Working(chunk)
  /\ Op(chunk)[1] = "poly" => t.reading /\ t.remaining = 0
  /\ thread' = [thread EXCEPT ![chunk] = [Idle EXCEPT !.at = t.at + 1, !.stack = stack]]
  /\ out' = IF t.at < Len(call.ast) THEN out
            ELSE [row \in AllRows |-> IF row \in start .. ChunkEnd(chunk) - 1
                                        THEN stack[1][row - start + 1] ELSE out[row]]
  /\ UNCHANGED <<call, pc, h, files, named, spilled>>

(* The scope ends when every chunk has.                                    *)
Join ==
  /\ pc = "chunks" /\ \A chunk \in Chunks : thread[chunk].at > Len(call.ast)
  /\ pc' = "remove"
  /\ UNCHANGED <<call, h, files, named, spilled, thread, out>>

(* The names go in order, with no look at whether the removal succeeds; what *)
(* is behind the handles stays until they are dropped.                     *)
RemoveFile(i) ==
  /\ pc = "remove" /\ i \in named
  /\ \A j \in named : i <= j
  /\ named' = named \ {i}
  /\ UNCHANGED <<call, pc, h, files, spilled, thread, out>>

(* construct asserts that the two results are equal, and goes on. *)
Compare ==
  /\ pc = "remove" /\ named = {}
  /\ pc' = IF out = h THEN "equal" ELSE "panicked"
  /\ UNCHANGED <<call, h, files, named, spilled, thread, out>>

Chunk(chunk) == StartWindow(chunk) \/ ReadRun(chunk) \/ Apply(chunk)

Next ==
  \/ Evaluate \/ Join \/ Compare
  \/ \E i \in Polys : Spill(i) \/ RemoveFile(i)
  \/ \E chunk \in Chunks : Chunk(chunk)

Spec == Init /\ [][Next]_vars

(* The scope runs every chunk it was given. *)
FairSpec == Spec /\ WF_vars(Next)

-----------------------------------------------------------------------------
(* The value of the expression at a row, from the definition: every leaf   *)
(* is the polynomial at the rotated row, the i-th coset point is           *)
(* zeta * omega^i.                                                         *)
ValueAt(row) ==
  LET step(stack, op) ==
        Operate(op, stack,
                IF op[1] = "poly" THEN <<Cosets[op[2]][(row + op[3] * Extension) % ExtLen]>>
                                  ELSE << >>,
                row, 1)
  IN  Head(FoldLeft(step, << >>, call.ast))[1]

Threads == [at : Nat \ {0}, stack : Seq(Seq(0 .. P - 1)), window : Seq(0 .. P - 1),
            cur : AllRows, remaining : 0 .. ChunkSize, reading : BOOLEAN]

(* Types; what is behind every open handle, and which names are in the
   directory, at each stage. *)
TypeOK ==
  /\ call \in [ast : Asts, threads : ThreadCounts]
  /\ pc \in {"evaluate", "spill", "chunks", "remove", "equal", "panicked"}
  /\ h \in [AllRows -> 0 .. P - 1] /\ out \in [AllRows -> 0 .. P - 1]
  /\ named \subseteq spilled /\ spilled \subseteq Polys
  /\ files = [i \in Polys |-> IF i \in spilled THEN Cosets[i] ELSE Unopened]
  /\ pc \in {"spill", "chunks"} => named = spilled
  /\ pc = "chunks" => spilled = Polys
  /\ thread \in [Chunks -> Threads]

(* "Byte-for-byte identical to `evaluate`": whatever the order the threads
   take, wherever the chunks are cut and the windows wrap, every chunk that is
   finished holds the values of the expression at its rows, and so does the
   in-core result it is compared with. *)
ChunksExact ==
  /\ pc # "evaluate" => \A row \in AllRows : h[row] = ValueAt(row)
  /\ \A chunk \in Chunks :
       thread[chunk].at > Len(call.ast) =>
         \A row \in ChunkStart(chunk) .. ChunkEnd(chunk) - 1 : out[row] = ValueAt(row)

(* What a thread has read of a window is a prefix of the window the in-core
   evaluator slices out of the vector, splice included. *)
WindowPrefix ==
  \A chunk \in Chunks :
    thread[chunk].reading =>
      /\ Len(thread[chunk].window) + thread[chunk].remaining = ChunkLen(chunk)
      /\ IsPrefix(thread[chunk].window,
                  RamWindow(Cosets[Op(chunk)[2]], Op(chunk)[3], chunk))

(* The comparison is reached, it holds, and no scratch file is left. *)
Agrees == <>(pc = "equal" /\ named = {})
=============================================================================
