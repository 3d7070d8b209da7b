------------------------------ MODULE FourStep -------------------------------
(***************************************************************************)
(* The out-of-core Fourier transforms of halo2-stream/src/fft.rs:          *)
(* four_step_ooc and coeff_to_extended_ooc.  The N numbers are a matrix in *)
(* a file; three transposes, tile by tile, and two passes over its rows,   *)
(* batch by batch, move it through three scratch files.  Any step may fail *)
(* with an I/O error and leave the files behind; the caller may call       *)
(* again, and several callers of one process share the scratch names of a  *)
(* directory, which carry nothing but the process's number.                *)
(*                                                                         *)
(* A field element is the set of its terms x_i * omega^e * zeta^z, written *)
(* <<i, e, z>>: the transform of the input is a statement about which      *)
(* input meets which power of omega, whatever the field and the input are. *)
(* (A set would hide a term added twice; StageExact says of every sum that *)
(* its terms come from different inputs.)                                  *)
(***************************************************************************)
EXTENDS Integers, Sequences, PowersOfTwo

CONSTANTS
  Callers,    \* threads of one process that call the transform
  DirOf,      \* the scratch directory each is given
  LogN,       \* log_n, or extended_k
  LogCoeffs,  \* k: coeff_to_extended_ooc is given 2^k coefficients
  Kinds,      \* which transforms are called: "fft", "extend" or both
  Blocks,     \* the tile sizes a call may be given
  Batches,    \* elements in a batch of rows (2^18 in the code)
  MaxCalls    \* bound: calls of one caller

VARIABLES
  names, \* the directory: name -> inode
  disk,  \* inode -> records
  call   \* per caller: the number, kind, place, block, handles and result of its call

vars == <<names, disk, call>>

-----------------------------------------------------------------------------
N  == Pow2[LogN]
N1 == Pow2[LogN \div 2]
N2 == Pow2[LogN - (LogN \div 2)]

Slots == {"a", "b", "c"}

(* The scratch names of the two functions differ, and the extended
   transform's first file is its output, which the caller names. *)
Name(t, kind, slot) == IF kind = "extend" /\ slot = "a" THEN <<"out", t>>
                       ELSE <<DirOf[t], kind, slot>>
Names  == {Name(t, kind, slot) : t \in Callers, kind \in Kinds, slot \in Slots}
Inodes == Callers \X (1 .. MaxCalls) \X Slots
NoFile == << >>

Records == 0 .. N - 1
Zeros   == [x \in Records |-> {}]

Shift(elem, e) == {<<term[1], (term[2] + e) % N, term[3]>> : term \in elem}

(* distribute_powers_zeta: coefficient i is multiplied by zeta^(i % 3). *)
Coset(kind, i) == IF kind = "extend" THEN i % 3 ELSE 0
Coeffs(kind)   == 0 .. Pow2[IF kind = "extend" THEN LogCoeffs ELSE LogN] - 1
Input(kind, i) == {<<i, 0, Coset(kind, i)>>}

(* four_step_files: transpose(src, dst, rows, cols) and
   fft_rows(file, rows, cols, omega^root, twiddle). *)
Transpose(src, dst, rows, cols) ==
  [op |-> "transpose", src |-> src, dst |-> dst, rows |-> rows, cols |-> cols,
   root |-> 0, twiddle |-> FALSE]
FftRows(file, rows, cols, root, twiddle) ==
  [op |-> "fft", src |-> file, dst |-> file, rows |-> rows, cols |-> cols,
   root |-> root, twiddle |-> twiddle]

Steps ==
  << Transpose("a", "b", N2, N1), FftRows("b", N1, N2, N1, TRUE),
     Transpose("b", "c", N1, N2), FftRows("c", N2, N1, N2, FALSE),
     Transpose("c", "a", N2, N1) >>

(* fault: no clamp, so that a row longer than the batch makes it empty *)
BatchUnclamped(elems, s) == elems \div s.cols

Batch(elems, s) ==
  LET b == elems \div s.cols
  IN  IF b < 1 THEN 1 ELSE IF b > s.rows THEN s.rows ELSE b

Least(m, n) == IF m < n THEN m ELSE n

-----------------------------------------------------------------------------
NotCalled == [n |-> 0, kind |-> "fft", pc |-> "done", step |-> 1, i |-> 0, j |-> 0, block |-> 0, batch |-> 0,
              file |-> [slot \in Slots |-> NoFile], status |-> "none", out |-> Zeros]

Init ==
  /\ names = [nm \in Names |-> NoFile]
  /\ disk = [d \in Inodes |-> Zeros]
  /\ call = [t \in Callers |-> NotCalled]

Call(t) ==
  /\ call[t].pc = "done" /\ call[t].n < MaxCalls
  /\ \E kind \in Kinds, block \in Blocks, batch \in Batches :
       call' = [call EXCEPT ![t] =
                  [NotCalled EXCEPT !.n = call[t].n + 1, !.kind = kind, !.pc = "a",
                                    !.block = block, !.batch = batch]]
  /\ UNCHANGED <<names, disk>>

(* scratch: create or open, truncate, set the length. *)
AfterOpen(slot) == CASE slot = "a" -> "b" [] slot = "b" -> "c" [] OTHER -> "write"

(* fault: a file that exists is not truncated *)
ScratchKeep(t, slot, inode) ==
  /\ call[t].pc = slot
  /\ names' = [names EXCEPT ![Name(t, call[t].kind, slot)] = inode]
  /\ disk' = IF names[Name(t, call[t].kind, slot)] = NoFile
             THEN [disk EXCEPT ![inode] = Zeros] ELSE disk
  /\ call' = [call EXCEPT ![t] = [@ EXCEPT !.file[slot] = inode, !.pc = AfterOpen(slot)]]

Scratch(t, slot, inode) ==
  /\ call[t].pc = slot
  /\ names' = [names EXCEPT ![Name(t, call[t].kind, slot)] = inode]
  /\ disk' = [disk EXCEPT ![inode] = Zeros]
  /\ call' = [call EXCEPT ![t] = [@ EXCEPT !.file[slot] = inode, !.pc = AfterOpen(slot)]]

OpenScratch(t) ==
  \E slot \in Slots :
    LET there == names[Name(t, call[t].kind, slot)]
    IN  Scratch(t, slot, IF there = NoFile THEN <<t, call[t].n, slot>> ELSE there)

(* The coefficients go to the front of the first file. *)
WriteInput(t) ==
  /\ call[t].pc = "write"
  /\ disk' = [disk EXCEPT ![call[t].file["a"]] =
                [x \in Records |-> IF x \in Coeffs(call[t].kind)
                                     THEN Input(call[t].kind, x) ELSE @[x]]]
  /\ call' = [call EXCEPT ![t].pc = "run"]
  /\ UNCHANGED names

-----------------------------------------------------------------------------
(* The place after the one at row i and column j of step s. *)
Advance(t, i, j) ==
  LET s == Steps[call[t].step]
  IN  call' = [call EXCEPT ![t] =
        IF j < s.cols THEN [@ EXCEPT !.j = j]
        ELSE IF i < s.rows THEN [@ EXCEPT !.i = i, !.j = 0]
        ELSE [@ EXCEPT !.i = 0, !.j = 0, !.step = call[t].step + 1,
                !.pc = IF call[t].step = Len(Steps) THEN "finish" ELSE "run"]]

(* One tile: its rows are read from src and written as columns to dst. *)
TransposeTile(t) ==
  LET c   == call[t]
      s   == Steps[c.step]
      bi  == Least(c.block, s.rows - c.i)
      bj  == Least(c.block, s.cols - c.j)
      src == disk[c.file[s.src]]
      Moved(x) == LET row == x % s.rows
                      col == x \div s.rows
                  IN  IF row \in c.i .. c.i + bi - 1 /\ col \in c.j .. c.j + bj - 1
                        THEN src[row * s.cols + col]
                        ELSE disk[c.file[s.dst]][x]
  IN  /\ c.pc = "run" /\ s.op = "transpose"
      /\ disk' = [disk EXCEPT ![c.file[s.dst]] = [x \in Records |-> Moved(x)]]
      /\ Advance(t, c.i + bi, c.j + bj)
      /\ UNCHANGED names

(* One batch of rows: read, transformed each with omega^root and multiplied
   by omega^(row * column), written back. *)
RowBatch(t) ==
  LET c  == call[t]
      s  == Steps[c.step]
      rb == Least(Batch(c.batch, s), s.rows - c.i)
      f  == disk[c.file[s.src]]
      Transformed(row, j) ==
        UNION {Shift(f[row * s.cols + q],
                     s.root * j * q + (IF s.twiddle THEN row * j ELSE 0)) :
               q \in 0 .. s.cols - 1}
  IN  /\ c.pc = "run" /\ s.op = "fft"
      /\ disk' = [disk EXCEPT ![c.file[s.src]] =
                    [x \in Records |-> IF (x \div s.cols) \in c.i .. c.i + rb - 1
                                         THEN Transformed(x \div s.cols, x % s.cols)
                                         ELSE f[x]]]
      /\ Advance(t, c.i + rb, s.cols)
      /\ UNCHANGED names

(* What a call that succeeds removes, by name. *)
Removed(kind) == IF kind = "extend" THEN {"b", "c"} ELSE Slots

(* four_step_ooc reads the result into RAM, coeff_to_extended_ooc leaves it
   in the output file; a remove fails only if the name is gone. *)
Finish(t) ==
  /\ call[t].pc = "finish"
  /\ names' = [nm \in Names |-> IF \E slot \in Removed(call[t].kind) : 
                                       nm = Name(t, call[t].kind, slot)
                                  THEN NoFile ELSE names[nm]]
  /\ call' = [call EXCEPT ![t] =
                [@ EXCEPT !.pc = "done", !.status = "ok", !.step = 1,
                          !.out = IF call[t].kind = "extend" THEN Zeros
                                  ELSE disk[call[t].file["a"]]]]
  /\ UNCHANGED disk

(* The "?" of an open, a read or a write: no file is removed. *)
Fail(t) ==
  /\ call[t].pc # "done"
  /\ call' = [call EXCEPT ![t] =
                [@ EXCEPT !.pc = "done", !.status = "err", !.step = 1, !.i = 0, !.j = 0]]
  /\ UNCHANGED <<names, disk>>

Work(t) == OpenScratch(t) \/ WriteInput(t) \/ TransposeTile(t) \/ RowBatch(t) \/ Finish(t)

Next == \E t \in Callers : Call(t) \/ Work(t) \/ Fail(t)

Spec == Init /\ [][Next]_vars

(* A thread that runs goes on running; an error need not happen. *)
FairSpec == Spec /\ \A t \in Callers : WF_vars(Work(t))

-----------------------------------------------------------------------------
(* The terms of the inputs in S at the power k: Sum x_i * omega^(i*k). *)
Terms(kind, S, k) == {<<i, (i * k) % N, Coset(kind, i)>> : i \in S}

(* The transform: best_fft of the padded, shifted coefficients. *)
Transform(kind) == [x \in Records |-> Terms(kind, Coeffs(kind), x)]

(* What record x of the file a step writes must be once the step is over. *)
Stage(kind, step, x) ==
  LET C == Coeffs(kind)
  IN  CASE step = 0 -> Terms(kind, {i \in C : i = x}, 0)
        [] step = 1 -> Terms(kind, {i \in C : i = x \div N2 + N1 * (x % N2)}, 0)
        [] step = 2 -> Terms(kind, {i \in C : i % N1 = x \div N2}, x % N2)
        [] step = 3 -> Terms(kind, {i \in C : i % N1 = x % N1}, x \div N1)
        [] step = 4 -> Terms(kind, C, (x \div N1) + N2 * (x % N1))
        [] step = 5 -> Terms(kind, C, x)

TypeOK ==
  /\ names \in [Names -> Inodes \cup {NoFile}]
  /\ \A d \in Inodes : /\ DOMAIN disk[d] = Records
                       /\ \A x \in Records :
                            disk[d][x] \subseteq (Records \X Records \X (0 .. 2))
  /\ \A t \in Callers :
       /\ call[t].n \in 0 .. MaxCalls
       /\ call[t].pc \in Slots \cup {"write", "run", "finish", "done"}
       /\ call[t].status \in {"none", "ok", "err"}
       /\ call[t].pc = "run" => /\ call[t].step \in 1 .. Len(Steps)
                                /\ call[t].i \in 0 .. Steps[call[t].step].rows - 1
                                /\ call[t].j \in 0 .. Steps[call[t].step].cols - 1

(* In the middle of a pass: what the tiles and batches so far have produced
   is right, and what the pass has still to read is untouched, although the
   row pass works in place. *)
Reached(c, row, col) ==
  \/ row < c.i
  \/ Steps[c.step].op = "transpose" /\ row < c.i + c.block /\ col < c.j

(* One cell, given the contents of the file that is read and of the one that
   is written. *)
CellRight(c, src, dst, row, col) ==
  LET s    == Steps[c.step]
      from == row * s.cols + col
      to   == IF s.op = "transpose" THEN col * s.rows + row ELSE from
  IN  /\ Reached(c, row, col) => dst[to] = Stage(c.kind, c.step, to)
      /\ s.op = "transpose" \/ ~Reached(c, row, col) => src[from] = Stage(c.kind, c.step - 1, from)

Through(c, src, dst) ==
  \A row \in 0 .. Steps[c.step].rows - 1, col \in 0 .. Steps[c.step].cols - 1 :
    CellRight(c, src, dst, row, col)

Passing(t) ==
  call[t].pc = "run" =>
    Through(call[t], disk[call[t].file[Steps[call[t].step].src]],
                     disk[call[t].file[Steps[call[t].step].dst]])

StageExact == \A t \in Callers : Passing(t)

(* A call that reports success leaves no scratch file, not even one that a
   failed call of the same caller left behind. *)
ScratchRemoved ==
  \A t \in Callers : call[t].status = "ok" =>
    \A slot \in Slots :
      names[Name(t, call[t].kind, slot)] = NoFile <=> ~(call[t].kind = "extend" /\ slot = "a")

(* A call that reports success has computed the transform, whatever calls
   before it left in the files, and has removed what it made; on the way every
   pass turns one stage of the algorithm into the next. *)
Result(t) == IF call[t].kind = "extend" THEN disk[names[Name(t, call[t].kind, "a")]] ELSE call[t].out

TransformExact ==
  /\ StageExact
  /\ \A t \in Callers : call[t].status = "ok" => Result(t) = Transform(call[t].kind)
  /\ ScratchRemoved

(* Every call returns. *)
Terminates == \A t \in Callers : call[t].pc # "done" ~> call[t].pc = "done"
=============================================================================
