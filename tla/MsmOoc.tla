------------------------------- MODULE MsmOoc --------------------------------
(***************************************************************************)
(* The out-of-core multi-scalar multiplication: msm_ooc of src/msm.rs,     *)
(* whose scalars stream from a second file (input.onDisk), and             *)
(* msm_ooc_bases of halo2-stream/src/msm.rs, whose scalars are resident.   *)
(* kzg.rs's commit_ooc is a call of the first.                             *)
(*                                                                         *)
(* One action per step of the function: a block is read, decoded, and      *)
(* routed into the buckets of every window by a pool of threads, each      *)
(* window's scatter being a sequence of read-modify-writes on the shared   *)
(* bucket array; the buckets are then reduced window by window.            *)
(*                                                                         *)
(* A base is its index in the file, a point a member of the free abelian   *)
(* group on the bases (module Msm).  A bucket is the sequence of the bases *)
(* added to it, in the order they were added: projective coordinates       *)
(* depend on that order, and the code claims the single-threaded one.      *)
(***************************************************************************)
EXTENDS Integers, Sequences, FiniteSets, PowersOfTwo

CONSTANTS
  N,             \* n, the number of records asked for
  Block,         \* records per block
  C,             \* window_bits(n)
  Bits,          \* number of bits of a scalar
  Threads,       \* fill_threads()
  Modes,         \* the functions called: TRUE for msm_ooc, FALSE for msm_ooc_bases
  ScalarSet,     \* the scalar values considered
  FileLens,      \* the lengths, in records, a file may have
  Suspects       \* the records that may turn out not to decode

ASSUME SizesAssumption ==
  /\ N \in Nat /\ Block \in Nat /\ FileLens \subseteq Nat
  /\ C \in Nat \ {0} /\ Bits \in Nat \ {0} /\ Threads \in Nat \ {0}
  /\ Modes \subseteq BOOLEAN

ASSUME ScalarAssumption == ScalarSet \subseteq 0 .. Pow2[Bits] - 1

VARIABLES
  input,    \* the function and its files: scalars, number of records, undecodable records
  pc,       \* where the calling thread is
  done,     \* records routed by the finished blocks
  bpos,     \* records consumed by the reader of the bases file
  spos,     \* records consumed by the reader of the scalars file
  block,    \* the decoded block: base and scalar of every item
  pos,      \* items of the block each window has routed
  busy,     \* windows between the read and the write of a bucket
  reg,      \* the bucket value such a window has read
  buckets,  \* the flat bucket array
  win, dbl, dig, \* reduction: window, doublings left, buckets left
  running, sum, acc,
  result

vars == <<input, pc, done, bpos, spos, block, pos, busy, reg, buckets,
          win, dbl, dig, running, sum, acc, result>>

callVars   == <<input, result>>
readVars   == <<done, bpos, spos, block>>
fillVars   == <<pos, busy, reg, buckets>>
reduceVars == <<win, dbl, dig, running, sum, acc>>

-----------------------------------------------------------------------------
(* Definitions marked "fault" are variants a mutation run puts in the place
   of the definition that follows them. *)

(* fault: integer division in place of div_ceil *)
NumWindowsFloor == Bits \div C

(* num_windows = nbits.div_ceil(c), nbuckets = (1 << c) - 1 *)
NumWindows == (Bits + C - 1) \div C
NBuckets   == Pow2[C] - 1
Windows    == 0 .. NumWindows - 1
Items      == 0 .. N - 1
Slots      == 0 .. NumWindows * NBuckets - 1

(* fault: chunks that overlap by one element *)
SlotOverlapping(w, d) == w * (NBuckets - 1) + d - 1

(* Element d-1 of chunk w of buckets.par_chunks_mut(nbuckets). *)
Slot(w, d) == w * NBuckets + d - 1

Zero      == [i \in Items |-> 0]
Add(p, q) == [i \in Items |-> p[i] + q[i]]

(* The point a bucket holds: how often each base was added to it. *)
BucketPoint(b) == [i \in Items |-> Cardinality({k \in DOMAIN b : b[k] = i})]

(* block.min(n - done) *)
ThisBlock == IF Block < N - done THEN Block ELSE N - done

Ref == INSTANCE Msm WITH N <- N, input <- input, result <- result

-----------------------------------------------------------------------------
Inputs ==
  { in \in [onDisk : Modes, scalars : [Items -> ScalarSet], baseRecs : FileLens,
            scalarRecs : FileLens \cup {N}, bad : SUBSET Suspects] :
      ~in.onDisk => in.scalarRecs = N /\ in.bad = {} }

Init ==
  /\ input \in Inputs
  /\ pc = "start" /\ result = Ref!Pending
  /\ done = 0 /\ bpos = 0 /\ spos = 0 /\ block = << >>
  /\ pos = [w \in Windows |-> 0]
  /\ busy = {}
  /\ reg = [w \in Windows |-> << >>]
  /\ buckets = [s \in Slots |-> << >>]
  /\ win = NumWindows - 1 /\ dbl = 0 /\ dig = NBuckets
  /\ running = Zero /\ sum = Zero /\ acc = Zero

(* n = 0 returns the identity before any file is opened. *)
Start ==
  /\ pc = "start"
  /\ IF N = 0 THEN pc' = "done" /\ result' = Ref!Point(Zero)
              ELSE pc' = "read" /\ UNCHANGED result
  /\ UNCHANGED <<input, readVars, fillVars, reduceVars>>

Error ==
  /\ pc' = "failed" /\ result' = Ref!Failure
  /\ UNCHANGED <<input, done, bpos, spos, fillVars, reduceVars>>

(* read_exact on the bases, then (msm_ooc) on the scalars. *)
Readable == /\ bpos + ThisBlock <= input.baseRecs
            /\ input.onDisk => spos + ThisBlock <= input.scalarRecs

(* The k-th item: a base of the block with the scalar at the same place of *)
(* its own block, or at offset done + k of the resident vector.            *)
Item(k) == [base   |-> bpos + k - 1,
            scalar |-> input.scalars[(IF input.onDisk THEN spos ELSE done) + k - 1]]

ReadBlock ==
  /\ pc = "read" /\ Readable
  /\ block' = [k \in 1 .. ThisBlock |-> Item(k)]
  /\ bpos' = bpos + ThisBlock
  /\ spos' = IF input.onDisk THEN spos + ThisBlock ELSE spos
  /\ pc' = "decode"
  /\ UNCHANGED <<callVars, done, fillVars, reduceVars>>

ShortRead ==
  /\ pc = "read" /\ ~Readable
  /\ Error /\ UNCHANGED block

(* The parallel decode collects into one Result: any bad record fails it. *)
Decodable == \A k \in DOMAIN block : block[k].base \notin input.bad

Decode ==
  /\ pc = "decode" /\ Decodable
  /\ pc' = "fill"
  /\ UNCHANGED <<callVars, readVars, fillVars, reduceVars>>

DecodeError ==
  /\ pc = "decode" /\ ~Decodable
  /\ Error /\ UNCHANGED block

-----------------------------------------------------------------------------
(* The parallel scatter.  A thread takes a window and routes the whole     *)
(* block into it, so at most Threads windows are under way.                *)
UnderWay == {w \in Windows : w \in busy \/ pos[w] \in 1 .. Len(block) - 1}

CanRoute(w) == /\ pc = "fill"
               /\ w \notin busy /\ pos[w] < Len(block)
               /\ w \in UnderWay \/ Cardinality(UnderWay) < Threads

NextDigit(w) == Digit(block[pos[w] + 1].scalar, w, C)

SkipZero(w) ==
  /\ CanRoute(w) /\ NextDigit(w) = 0
  /\ pos' = [pos EXCEPT ![w] = @ + 1]
  /\ UNCHANGED <<callVars, pc, readVars, busy, reg, buckets, reduceVars>>

LoadBucket(w) ==
  /\ CanRoute(w) /\ NextDigit(w) # 0
  /\ busy' = busy \cup {w}
  /\ reg' = [reg EXCEPT ![w] = buckets[Slot(w, NextDigit(w))]]
  /\ UNCHANGED <<callVars, pc, readVars, pos, buckets, reduceVars>>

StoreBucket(w) ==
  /\ pc = "fill" /\ w \in busy
  /\ buckets' = [buckets EXCEPT ![Slot(w, NextDigit(w))] =
                   Append(reg[w], block[pos[w] + 1].base)]
  /\ pos' = [pos EXCEPT ![w] = @ + 1]
  /\ busy' = busy \ {w}
  /\ UNCHANGED <<callVars, pc, readVars, reg, reduceVars>>

(* fault: one more round when everything has been read *)
BlockDoneAgain ==
  /\ pc = "fill"
  /\ busy = {} /\ \A w \in Windows : pos[w] = Len(block)
  /\ done' = done + Len(block)
  /\ pos' = [w \in Windows |-> 0]
  /\ block' = << >>
  /\ pc' = IF done' <= N THEN "read" ELSE "double"
  /\ UNCHANGED <<callVars, bpos, spos, busy, reg, buckets, reduceVars>>

(* pool.install returns: done += this, and the loop goes round or ends. *)
BlockDone ==
  /\ pc = "fill"
  /\ busy = {} /\ \A w \in Windows : pos[w] = Len(block)
  /\ done' = done + Len(block)
  /\ pos' = [w \in Windows |-> 0]
  /\ block' = << >>
  /\ pc' = IF done' < N THEN "read" ELSE "double"
  /\ UNCHANGED <<callVars, bpos, spos, busy, reg, buckets, reduceVars>>

-----------------------------------------------------------------------------
(* The reduction.  The top window is not preceded by doublings (Init sets  *)
(* dbl to 0), every other one by C of them.                                *)
(* fault: the doubling loop has no bound *)
DoubleForever ==
  /\ pc = "double"
  /\ acc' = Add(acc, acc)
  /\ dbl' = dbl - 1
  /\ UNCHANGED <<callVars, pc, readVars, fillVars, win, dig, running, sum>>

Double ==
  /\ pc = "double" /\ dbl > 0
  /\ acc' = Add(acc, acc)
  /\ dbl' = dbl - 1
  /\ UNCHANGED <<callVars, pc, readVars, fillVars, win, dig, running, sum>>

(* fault: the running sum of the window above is kept *)
StartSumKeepRunning ==
  /\ pc = "double" /\ dbl = 0
  /\ pc' = "sum"
  /\ dig' = NBuckets /\ sum' = Zero
  /\ UNCHANGED <<callVars, readVars, fillVars, win, dbl, acc, running>>

StartSum ==
  /\ pc = "double" /\ dbl = 0
  /\ pc' = "sum"
  /\ dig' = NBuckets /\ running' = Zero /\ sum' = Zero
  /\ UNCHANGED <<callVars, readVars, fillVars, win, dbl, acc>>

(* running += bucket; window_sum += running, from the top bucket down. *)
AddBucket ==
  /\ pc = "sum" /\ dig > 0
  /\ running' = Add(running, BucketPoint(buckets[Slot(win, dig)]))
  /\ sum' = Add(sum, running')
  /\ dig' = dig - 1
  /\ UNCHANGED <<callVars, pc, readVars, fillVars, win, dbl, acc>>

AddWindow ==
  /\ pc = "sum" /\ dig = 0
  /\ acc' = Add(acc, sum)
  /\ IF win = 0
       THEN /\ pc' = "done" /\ result' = Ref!Point(acc')
            /\ UNCHANGED <<win, dbl>>
       ELSE /\ win' = win - 1 /\ dbl' = C /\ pc' = "double"
            /\ UNCHANGED result
  /\ UNCHANGED <<input, readVars, fillVars, dig, running, sum>>

-----------------------------------------------------------------------------
Caller == Start \/ ReadBlock \/ ShortRead \/ Decode \/ DecodeError \/ BlockDone
          \/ Double \/ StartSum \/ AddBucket \/ AddWindow

Thread(w) == SkipZero(w) \/ LoadBucket(w) \/ StoreBucket(w)

Returned == pc \in {"done", "failed"}

(* The call has returned; nothing happens any more. *)
Stopped == Returned /\ UNCHANGED vars

Next == Caller \/ (\E w \in Windows : Thread(w)) \/ Stopped

Spec == Init /\ [][Next]_vars

(* The calling thread is scheduled by the operating system and the pool     *)
(* runs every window's closure to its end.                                  *)
FairSpec == Spec /\ WF_vars(Caller) /\ \A w \in Windows : WF_vars(Thread(w))

-----------------------------------------------------------------------------
(***************************************************************************)
(* Properties.                                                             *)
(***************************************************************************)
Points == [Items -> Nat]

(* Every variable has its type: buckets hold base indices, a window is never
   past the end of the block, the reduction counters stay in range. *)
TypeOK ==
  /\ input \in Inputs
  /\ pc \in {"start", "read", "decode", "fill", "double", "sum", "done", "failed"}
  /\ done \in 0 .. N /\ bpos \in Nat /\ spos \in Nat
  /\ block \in Seq([base : Items, scalar : ScalarSet])
  /\ pos \in [Windows -> Nat]
  /\ busy \subseteq Windows
  /\ reg \in [Windows -> Seq(Items)]
  /\ buckets \in [Slots -> Seq(Items)]
  /\ win \in Windows /\ dbl \in 0 .. C /\ dig \in 0 .. NBuckets
  /\ running \in Points /\ sum \in Points /\ acc \in Points
  /\ result \in [status : {"pending", "ok", "err"}, point : Points]

(* What a bucket must hold when window w has routed the first m records of
   the file: the bases whose digit is d, each once, in file order. *)
Lists(b, w, d, m) ==
  /\ \A k, l \in DOMAIN b : k < l => b[k] < b[l]
  /\ \A i \in Items :
       (\E k \in DOMAIN b : b[k] = i)
          <=> i < m /\ Digit(input.scalars[i], w, C) = d

(* At every moment of the parallel fill every bucket holds exactly the bases
   routed so far whose digit selects it, in file order, as if one thread had
   added them: msm.rs's "the per-bucket addition order is still the file
   order, so the result is byte-for-byte the single-threaded one". *)
BucketsExact ==
  \A w \in Windows, d \in 1 .. NBuckets :
    Lists(buckets[Slot(w, d)], w, d, done + pos[w])

(* "The threads never touch the same bucket and no locking is needed": two
   windows that are both between the read and the write of a bucket are at
   different buckets, and what either has read is still there. *)
NoSharedBucket ==
  \A v \in busy :
    /\ reg[v] = buckets[Slot(v, NextDigit(v))]
    /\ \A w \in busy :
         v # w => Slot(v, NextDigit(v)) # Slot(w, NextDigit(w))

(* The scatter is the single-threaded one, although nothing is locked. *)
ScatterExact == BucketsExact /\ NoSharedBucket

(* Every base is routed with its own scalar: the block holds the records that
   follow those already routed, in both files, and neither reader ever goes
   past record N, however long the file is. *)
BaseMeetsItsScalar ==
  /\ bpos = done + Len(block) /\ bpos <= N
  /\ spos = IF input.onDisk THEN bpos ELSE 0
  /\ \A k \in DOMAIN block :
       /\ block[k].base = done + k - 1
       /\ block[k].scalar = input.scalars[done + k - 1]

(* Between windows acc is the multi-scalar multiplication by the scalars
   shifted right to the windows already reduced; inside a window running and
   sum are the two partial sums over the buckets above dig. *)
PartialSums ==
  /\ pc = "double" =>
       \A i \in Items :
         acc[i] = Shr(input.scalars[i], (win + 1) * C) * Pow2[C - dbl]
  /\ pc = "sum" =>
       \A i \in Items :
         LET e == Digit(input.scalars[i], win, C)
         IN  /\ acc[i] = Shr(input.scalars[i], (win + 1) * C) * Pow2[C]
             /\ running[i] = IF e > dig THEN 1 ELSE 0
             /\ sum[i] = IF e > dig THEN e - dig ELSE 0

(* The call returns at most once; it returns Sum_i scalar_i * P_i when the
   first N records of the files are intact and an error when they are not:
   the oracle tests' claim, for every block size and every interleaving. *)
ImplementsMsm == Ref!Init /\ [][Ref!Next]_(Ref!vars)

(* The call returns, if Block is not 0. *)
Terminates == <>Returned
=============================================================================
