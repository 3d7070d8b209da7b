---------------------------- MODULE FourStepProof -----------------------------
(***************************************************************************)
(* The out-of-core transforms of fft.rs compute the transform: for every   *)
(* log_n, tile and batch, any number of callers with directories of their  *)
(* own, and whatever calls that failed before have left in the files.      *)
(*                                                                         *)
(* The algebra comes first: a transpose or a row pass turns one stage of   *)
(* the four-step algorithm into the next.  The inductive invariant then    *)
(* follows the tiles and batches through the files.                        *)
(***************************************************************************)
EXTENDS FourStep, CommonLemmas

(* What the callers pass: coeff_to_extended_ooc is given an extended_k of at
   least k, a block of 0 would not get past the first tile. *)
Sized ==
  /\ LogN \in Nat /\ LogCoeffs \in 0 .. LogN /\ MaxCalls \in Nat
  /\ Blocks \subseteq Nat \ {0} /\ Batches \subseteq Nat
  /\ Kinds \subseteq {"fft", "extend"}

(* No two callers share scratch names: fft.rs builds them from the directory
   and the number of the process. *)
OwnDirectories == \A t, u \in Callers : DirOf[t] = DirOf[u] => t = u

-----------------------------------------------------------------------------
Elements == SUBSET (Records \X Records \X (0 .. 2))
Contents == [Records -> Elements]

Running == Slots \cup {"write", "run", "finish"}

CallType ==
  [n : 0 .. MaxCalls, kind : {"fft", "extend"}, pc : Running \cup {"done"},
   step : 1 .. 6, i : Nat, j : Nat, block : Nat, batch : Nat,
   file : [Slots -> Inodes \cup {NoFile}], status : {"none", "ok", "err"}, out : Contents]

Opened(pc) == {slot \in Slots : \/ pc \in {"write", "run", "finish"}
                                \/ slot = "a" /\ pc \in {"b", "c"}
                                \/ slot = "b" /\ pc = "c"}

(* The place in the pass, and the files that are open. *)
Placed(c) ==
  /\ c.pc \in Running => c.n # 0 /\ c.kind \in Kinds /\ c.block # 0
  /\ \A slot \in Opened(c.pc) : c.file[slot] \in Inodes
  /\ c.pc \in Slots \cup {"write"} => c.step = 1 /\ c.i = 0 /\ c.j = 0
  /\ c.pc = "run" => /\ c.step \in 1 .. 5
                     /\ c.i < Steps[c.step].rows /\ c.j < Steps[c.step].cols

TInv ==
  /\ names \in [Names -> Inodes \cup {NoFile}]
  /\ disk \in [Inodes -> Contents]
  /\ call \in [Callers -> CallType]
  /\ \A t \in Callers : Placed(call[t])

-----------------------------------------------------------------------------
InodesOf(t, slot) == {t} \X (1 .. MaxCalls) \X {slot}

(* A scratch name leads to an inode of its caller and its slot, and an open
   file is the one the name leads to. *)
Owned(t) ==
  /\ \A kind \in Kinds, slot \in Slots :
       names[Name(t, kind, slot)] \in InodesOf(t, slot) \cup {NoFile}
  /\ \A slot \in Opened(call[t].pc) :
       /\ call[t].file[slot] = names[Name(t, call[t].kind, slot)]
       /\ call[t].file[slot] \in InodesOf(t, slot)

(* Until the input is written the first file is zero. *)
Truncated(t) == call[t].pc \in {"b", "c", "write"} => disk[call[t].file["a"]] = Zeros

Passed(t) ==
  call[t].pc = "finish" =>
    \A x \in Records : disk[call[t].file["a"]][x] = Stage(call[t].kind, 5, x)

Returned(t) ==
  call[t].status = "ok" =>
    /\ call[t].pc = "done" /\ call[t].kind \in Kinds
    /\ Result(t) = Transform(call[t].kind)
    /\ \A slot \in Slots :
         names[Name(t, call[t].kind, slot)] = NoFile
           <=> ~(call[t].kind = "extend" /\ slot = "a")

Exact(t) == Owned(t) /\ Truncated(t) /\ Passing(t) /\ Passed(t) /\ Returned(t)

EInv == TInv /\ \A t \in Callers : Exact(t)

-----------------------------------------------------------------------------
(***************************************************************************)
(* The algebra.                                                            *)
(***************************************************************************)
LEMMA Matrix ==
  ASSUME Sized
  PROVE  /\ N \in Nat \ {0} /\ N1 \in Nat \ {0} /\ N2 \in Nat \ {0}
         /\ N1 * N2 = N /\ N2 * N1 = N
<1>1. LogN \in Nat /\ LogN \div 2 \in Nat /\ LogN - (LogN \div 2) \in Nat
  BY DEF Sized
<1>2. (LogN \div 2) + (LogN - (LogN \div 2)) = LogN
  BY <1>1
<1>3. Pow2[LogN] = Pow2[LogN \div 2] * Pow2[LogN - (LogN \div 2)]
  BY <1>1, <1>2, Pow2Sum
<1>4. N \in Nat \ {0} /\ N1 \in Nat \ {0} /\ N2 \in Nat \ {0}
  BY <1>1, Pow2Positive DEF N, N1, N2
<1>5. N1 * N2 = N
  BY <1>3 DEF N, N1, N2
<1> QED BY <1>4, <1>5

(* The coefficients fit in the matrix. *)
LEMMA CoeffsInRecords ==
  ASSUME Sized, NEW kind \in {"fft", "extend"}
  PROVE  Coeffs(kind) \subseteq Records
<1>1. Pow2[LogCoeffs] <= Pow2[LogN] /\ Pow2[LogCoeffs] \in Nat /\ Pow2[LogN] \in Nat
  BY Pow2Monotone, Pow2Positive DEF Sized
<1> QED BY <1>1 DEF Coeffs, Records, N

(* Row and column of a record, and back. *)
LEMMA RowAndColumn ==
  ASSUME NEW a \in Nat, NEW p \in Nat \ {0}, NEW r \in 0 .. p - 1
  PROVE  (a * p + r) \div p = a /\ (a * p + r) % p = r /\ a * p + r \in Nat
OBVIOUS

LEMMA CellInRecords ==
  ASSUME Sized, NEW rows \in Nat \ {0}, NEW cols \in Nat \ {0}, rows * cols = N,
         NEW row \in 0 .. rows - 1, NEW col \in 0 .. cols - 1
  PROVE  row * cols + col \in Records
<1>1. row * cols + col \in Nat /\ (row + 1) * cols = row * cols + cols
  OBVIOUS
<1>2. (row + 1) * cols <= rows * cols
  OBVIOUS
<1>3. N \in Nat
  BY Matrix
<1> QED BY <1>1, <1>2, <1>3 DEF Records

LEMMA RecordIsCell ==
  ASSUME Sized, NEW rows \in Nat \ {0}, NEW cols \in Nat \ {0}, rows * cols = N,
         NEW x \in Records
  PROVE  /\ x \div cols \in 0 .. rows - 1 /\ x % cols \in 0 .. cols - 1
         /\ (x \div cols) * cols + (x % cols) = x
<1>1. x \in Nat /\ x < N /\ N \in Nat
  BY Matrix DEF Records
<1>2. x = (x \div cols) * cols + (x % cols) /\ x % cols \in 0 .. cols - 1 /\ x \div cols \in Nat
  BY <1>1, DivMod
<1>3. PICK q \in Nat : q = x \div cols
  BY <1>2
<1>4. q * cols < rows * cols
  BY <1>1, <1>2, <1>3
<1>5. q < rows
  <2>1. SUFFICES ASSUME q >= rows PROVE FALSE
    BY <1>3
  <2>2. q * cols >= rows * cols
    BY <2>1, <1>3
  <2> QED BY <1>3, <1>4, <2>2
<1> QED BY <1>2, <1>3, <1>5

(* Remainders: a multiple of the modulus may go, a remainder may be taken
   before a sum. *)
LEMMA ModMultiple ==
  ASSUME NEW a \in Nat, NEW m \in Nat, NEW n \in Nat \ {0}
  PROVE  (a + n * m) % n = a % n
<1>1. a = (a \div n) * n + (a % n) /\ a % n \in 0 .. n - 1 /\ a \div n \in Nat
  BY DivMod
<1>2. PICK q \in Nat, r \in 0 .. n - 1 : q = a \div n /\ r = a % n
  BY <1>1
<1>3. a + n * m = (q + m) * n + r
  BY <1>1, <1>2
<1>4. q + m \in Nat
  BY <1>2
<1>5. ((q + m) * n + r) % n = r
  BY <1>2, <1>4, RowAndColumn
<1> QED BY <1>2, <1>3, <1>5

LEMMA ModSum ==
  ASSUME NEW a \in Nat, NEW e \in Nat, NEW n \in Nat \ {0}
  PROVE  ((a % n) + e) % n = (a + e) % n
<1>1. a = (a \div n) * n + (a % n) /\ a % n \in 0 .. n - 1 /\ a \div n \in Nat
  BY DivMod
<1>2. PICK q \in Nat, r \in Nat : q = a \div n /\ r = a % n
  BY <1>1
<1>3. a + e = (r + e) + n * q
  BY <1>1, <1>2
<1>4. PICK s \in Nat : s = r + e
  OBVIOUS
<1>5. (s + n * q) % n = s % n
  BY ZenonT(60), <1>2, <1>4, ModMultiple
<1> QED BY <1>2, <1>3, <1>4, <1>5

LEMMA ShiftedTerms ==
  ASSUME Sized, NEW kind, NEW S, S \subseteq Nat, NEW k \in Nat, NEW e \in Nat
  PROVE  Shift(Terms(kind, S, k), e) = {<<i, (i * k + e) % N, Coset(kind, i)>> : i \in S}
<1>1. N \in Nat \ {0}
  BY Matrix
<1>2. \A i \in S : i * k \in Nat /\ (((i * k) % N) + e) % N = (i * k + e) % N
  <2> TAKE i \in S
  <2>1. i * k \in Nat
    OBVIOUS
  <2> QED BY <1>1, <2>1, ModSum
<1>3. ASSUME NEW x \in Shift(Terms(kind, S, k), e)
      PROVE  x \in {<<i, (i * k + e) % N, Coset(kind, i)>> : i \in S}
  <2>1. PICK term \in Terms(kind, S, k) : x = <<term[1], (term[2] + e) % N, term[3]>>
    BY <1>3 DEF Shift
  <2>2. PICK i \in S : term = <<i, (i * k) % N, Coset(kind, i)>>
    BY DEF Terms
  <2>3. x = <<i, (((i * k) % N) + e) % N, Coset(kind, i)>>
    BY <2>1, <2>2
  <2> QED BY <1>2, <2>2, <2>3
<1>4. ASSUME NEW i \in S
      PROVE  <<i, (i * k + e) % N, Coset(kind, i)>> \in Shift(Terms(kind, S, k), e)
  <2>1. PICK term : term = <<i, (i * k) % N, Coset(kind, i)>>
    OBVIOUS
  <2>2. term \in Terms(kind, S, k)
    BY <2>1 DEF Terms
  <2>3. <<term[1], (term[2] + e) % N, term[3]>> = <<i, (i * k + e) % N, Coset(kind, i)>>
    BY <1>2, <2>1
  <2> QED BY <2>2, <2>3 DEF Shift
<1> QED BY <1>3, <1>4

(* The five passes. *)
LEMMA StepFacts ==
  ASSUME Sized, NEW st \in 1 .. 5
  PROVE  /\ Steps[st].rows \in Nat \ {0} /\ Steps[st].cols \in Nat \ {0}
         /\ Steps[st].rows * Steps[st].cols = N /\ Steps[st].cols * Steps[st].rows = N
         /\ Steps[st].src \in Slots /\ Steps[st].dst \in Slots /\ Steps[st].root \in Nat
         /\ Steps[st].op = "transpose" => Steps[st].src # Steps[st].dst
         /\ Steps[st].op # "transpose" => Steps[st].op = "fft" /\ Steps[st].src = Steps[st].dst
         /\ st < 5 => Steps[st + 1].src = Steps[st].dst
         /\ st = 1 => Steps[st].src = "a"
         /\ st = 5 => Steps[st].dst = "a"
         /\ Steps[st].op = "transpose" <=> st \in {1, 3, 5}
<1>1. st = 1 \/ st = 2 \/ st = 3 \/ st = 4 \/ st = 5
  OBVIOUS
<1> QED BY <1>1, Matrix DEF Steps, Transpose, FftRows, Slots

LEMMA StepsCount == Len(Steps) = 5
BY DEF Steps

(* Three stages, of a record whose row and column are known. *)
LEMMA FirstStage ==
  ASSUME NEW kind, NEW x, NEW y, x \div N2 + N1 * (x % N2) = y
  PROVE  Stage(kind, 1, x) = Terms(kind, {i \in Coeffs(kind) : i = y}, 0)
<1>1. Stage(kind, 1, x) = Terms(kind, {i \in Coeffs(kind) : i = x \div N2 + N1 * (x % N2)}, 0)
  BY DEF Stage
<1> QED BY <1>1

LEMMA ThirdStage ==
  ASSUME NEW kind, NEW x, NEW r, NEW k, x % N1 = r, x \div N1 = k
  PROVE  Stage(kind, 3, x) = Terms(kind, {i \in Coeffs(kind) : i % N1 = r}, k)
<1>1. Stage(kind, 3, x) = Terms(kind, {i \in Coeffs(kind) : i % N1 = x % N1}, x \div N1)
  BY DEF Stage
<1> QED BY <1>1

LEMMA SecondStage ==
  ASSUME NEW kind, NEW x, NEW r, NEW k, x \div N2 = r, x % N2 = k
  PROVE  Stage(kind, 2, x) = Terms(kind, {i \in Coeffs(kind) : i % N1 = r}, k)
<1>1. Stage(kind, 2, x) = Terms(kind, {i \in Coeffs(kind) : i % N1 = x \div N2}, x % N2)
  BY DEF Stage
<1> QED BY <1>1

(* A transpose moves the elements to where the next stage wants them. *)
MovesOn(kind, st, row, col) ==
  Stage(kind, st, col * Steps[st].rows + row) = Stage(kind, st - 1, row * Steps[st].cols + col)

LEMMA StageOfTranspose ==
  ASSUME Sized, NEW st, NEW kind, NEW row, NEW col, st \in {1, 3, 5},
         row \in 0 .. Steps[st].rows - 1, col \in 0 .. Steps[st].cols - 1
  PROVE  MovesOn(kind, st, row, col)
<1> SUFFICES Stage(kind, st, col * Steps[st].rows + row)
               = Stage(kind, st - 1, row * Steps[st].cols + col)
  BY DEF MovesOn
<1>1. N1 \in Nat \ {0} /\ N2 \in Nat \ {0}
  BY Matrix
<1>2. CASE st = 1
  <2>1. row \in 0 .. N2 - 1 /\ col \in 0 .. N1 - 1 /\ row \in Nat /\ col \in Nat /\ Steps[st].rows = N2 /\ Steps[st].cols = N1
    BY <1>1, <1>2 DEF Steps, Transpose
  <2>2. (col * N2 + row) \div N2 = col /\ (col * N2 + row) % N2 = row
    BY <1>1, <2>1, RowAndColumn
  <2>3. col + N1 * row = row * N1 + col
    BY <1>1, <2>1
  <2>4. PICK x, y : x = col * N2 + row /\ y = row * N1 + col
    OBVIOUS
  <2>5. x \div N2 + N1 * (x % N2) = y
    BY <2>2, <2>3, <2>4
  <2>6. Stage(kind, 1, x) = Terms(kind, {i \in Coeffs(kind) : i = y}, 0)
    BY <2>5, FirstStage
  <2>7. Stage(kind, 0, y) = Terms(kind, {i \in Coeffs(kind) : i = y}, 0)
    BY DEF Stage
  <2> QED BY <1>2, <2>1, <2>4, <2>6, <2>7
<1>3. CASE st = 3
  <2>1. row \in 0 .. N1 - 1 /\ col \in 0 .. N2 - 1 /\ row \in Nat /\ col \in Nat /\ Steps[st].rows = N1 /\ Steps[st].cols = N2
    BY <1>1, <1>3 DEF Steps, Transpose
  <2>2. (col * N1 + row) \div N1 = col /\ (col * N1 + row) % N1 = row
    BY <1>1, <2>1, RowAndColumn
  <2>3. (row * N2 + col) \div N2 = row /\ (row * N2 + col) % N2 = col
    BY <1>1, <2>1, RowAndColumn
  <2>4. Stage(kind, 3, col * N1 + row) = Terms(kind, {i \in Coeffs(kind) : i % N1 = row}, col)
    BY <2>2, ThirdStage
  <2>5. Stage(kind, 2, row * N2 + col) = Terms(kind, {i \in Coeffs(kind) : i % N1 = row}, col)
    <3>1. PICK x : x = row * N2 + col
      OBVIOUS
    <3>2. x \div N2 = row /\ x % N2 = col
      BY <2>3, <3>1
    <3>3. Stage(kind, 2, x) = Terms(kind, {i \in Coeffs(kind) : i % N1 = row}, col)
      BY <3>2, SecondStage
    <3> QED BY <3>1, <3>3
  <2> QED BY <1>3, <2>1, <2>4, <2>5
<1>4. CASE st = 5
  <2>1. row \in 0 .. N2 - 1 /\ col \in 0 .. N1 - 1 /\ row \in Nat /\ col \in Nat /\ Steps[st].rows = N2 /\ Steps[st].cols = N1
    BY <1>1, <1>4 DEF Steps, Transpose
  <2>2. (row * N1 + col) \div N1 = row /\ (row * N1 + col) % N1 = col
    BY <1>1, <2>1, RowAndColumn
  <2>3. row + N2 * col = col * N2 + row
    BY <1>1, <2>1
  <2>4. Stage(kind, 4, row * N1 + col) = Terms(kind, Coeffs(kind), row + N2 * col)
    BY <2>2 DEF Stage
  <2>5. Stage(kind, 5, col * N2 + row) = Terms(kind, Coeffs(kind), col * N2 + row)
    BY DEF Stage
  <2> QED BY <1>4, <2>1, <2>3, <2>4, <2>5
<1> QED BY <1>2, <1>3, <1>4

(* The transform of a row, with its twiddles. *)
Folded(kind, st, row, j) ==
  UNION {Shift(Stage(kind, st - 1, row * Steps[st].cols + q),
               Steps[st].root * j * q + (IF Steps[st].twiddle THEN row * j ELSE 0)) :
         q \in 0 .. Steps[st].cols - 1}

LEMMA StageOfFirstPass ==
  ASSUME Sized, NEW kind \in {"fft", "extend"}, NEW row \in 0 .. N1 - 1, NEW j \in 0 .. N2 - 1
  PROVE  Stage(kind, 2, row * N2 + j) = Folded(kind, 2, row, j)
<1> DEFINE S(q) == {i \in Coeffs(kind) : i = row + N1 * q}
           U == {i \in Coeffs(kind) : i % N1 = row}
           T(i) == <<i, (i * j) % N, Coset(kind, i)>>
<1>1. /\ N1 \in Nat \ {0} /\ N2 \in Nat \ {0} /\ N \in Nat \ {0} /\ N2 * N1 = N
      /\ Coeffs(kind) \subseteq Records /\ Records \subseteq Nat
  BY Matrix, CoeffsInRecords DEF Records
<1>2. Stage(kind, 2, row * N2 + j) = {T(i) : i \in U}
  <2>1. (row * N2 + j) \div N2 = row /\ (row * N2 + j) % N2 = j
    BY <1>1, RowAndColumn
  <2> QED BY <2>1 DEF Stage, Terms
<1>3. ASSUME NEW q \in 0 .. N2 - 1
      PROVE  Shift(Stage(kind, 1, row * N2 + q), N1 * j * q + row * j) = {T(i) : i \in S(q)}
  <2>1. (row * N2 + q) \div N2 = row /\ (row * N2 + q) % N2 = q
    BY <1>1, RowAndColumn
  <2>2. Stage(kind, 1, row * N2 + q) = Terms(kind, S(q), 0)
    <3>1. PICK x, y : x = row * N2 + q /\ y = row + N1 * q
      OBVIOUS
    <3>2. x \div N2 + N1 * (x % N2) = y
      BY <2>1, <3>1
    <3>3. Stage(kind, 1, x) = Terms(kind, {i \in Coeffs(kind) : i = y}, 0)
      BY <3>2, FirstStage
    <3> QED BY <3>1, <3>3
  <2>3. PICK e \in Nat : e = N1 * j * q + row * j
    BY <1>1
  <2>4. S(q) \subseteq Nat
    BY <1>1
  <2>5. Shift(Terms(kind, S(q), 0), e) = {<<i, (i * 0 + e) % N, Coset(kind, i)>> : i \in S(q)}
    <3> HIDE DEF S
    <3> QED BY <2>3, <2>4, ShiftedTerms
  <2>6. \A i \in S(q) : i * 0 + e = i * j
    <3> TAKE i \in S(q)
    <3>1. i = row + N1 * q /\ i \in Nat
      BY <1>1
    <3>2. (row + N1 * q) * j = row * j + N1 * j * q
      BY <1>1
    <3>3. i * 0 + e = e
      BY <2>3, <3>1
    <3>4. i * j = (row + N1 * q) * j
      BY <3>1
    <3>5. PICK a, b : a = N1 * j * q /\ b = row * j
      OBVIOUS
    <3>6. a \in Nat /\ b \in Nat
      BY <1>1, <3>5
    <3> QED BY <2>3, <3>2, <3>3, <3>4, <3>5, <3>6
  <2> QED BY <2>2, <2>3, <2>5, <2>6
<1>4. Folded(kind, 2, row, j) = UNION {{T(i) : i \in S(q)} : q \in 0 .. N2 - 1}
  <2>1. Folded(kind, 2, row, j) =
          UNION {Shift(Stage(kind, 1, row * N2 + q), N1 * j * q + row * j) : q \in 0 .. N2 - 1}
    BY DEF Folded, Steps, FftRows
  <2> HIDE DEF T, S
  <2> QED BY <1>3, <2>1
<1>5. \A q \in 0 .. N2 - 1 : S(q) \subseteq U
  <2> TAKE q \in 0 .. N2 - 1
  <2>1. (q * N1 + row) % N1 = row /\ q * N1 + row = row + N1 * q
    BY <1>1, RowAndColumn
  <2> QED BY <2>1
<1>6. \A i \in U : \E q \in 0 .. N2 - 1 : i \in S(q)
  <2> TAKE i \in U
  <2>1. i \in Records
    BY <1>1
  <2>2. /\ i \div N1 \in 0 .. N2 - 1 /\ (i \div N1) * N1 + (i % N1) = i
    BY <1>1, <2>1, RecordIsCell
  <2>3. PICK q \in 0 .. N2 - 1 : q = i \div N1
    BY <2>2
  <2>4. i = row + N1 * q
    BY <1>1, <2>2, <2>3
  <2> QED BY <2>4
<1> HIDE DEF S, U, T
<1>7. ASSUME NEW x \in {T(i) : i \in U} PROVE x \in UNION {{T(i) : i \in S(q)} : q \in 0 .. N2 - 1}
  <2>1. PICK i \in U : x = T(i)
    OBVIOUS
  <2>2. PICK q \in 0 .. N2 - 1 : i \in S(q)
    BY <1>6
  <2> QED BY <2>1, <2>2
<1>8. ASSUME NEW x \in UNION {{T(i) : i \in S(q)} : q \in 0 .. N2 - 1} PROVE x \in {T(i) : i \in U}
  <2>1. PICK q \in 0 .. N2 - 1 : x \in {T(i) : i \in S(q)}
    OBVIOUS
  <2>2. PICK i \in S(q) : x = T(i)
    BY <2>1
  <2>3. i \in U
    BY <1>5
  <2> QED BY <2>2, <2>3
<1>9. {T(i) : i \in U} = UNION {{T(i) : i \in S(q)} : q \in 0 .. N2 - 1}
  BY <1>7, <1>8
<1> QED BY <1>2, <1>4, <1>9

LEMMA StageOfSecondPass ==
  ASSUME Sized, NEW kind \in {"fft", "extend"}, NEW row \in 0 .. N2 - 1, NEW j \in 0 .. N1 - 1
  PROVE  Stage(kind, 4, row * N1 + j) = Folded(kind, 4, row, j)
<1> DEFINE S(q) == {i \in Coeffs(kind) : i % N1 = q}
           T(i) == <<i, (i * (row + N2 * j)) % N, Coset(kind, i)>>
<1>1. /\ N1 \in Nat \ {0} /\ N2 \in Nat \ {0} /\ N \in Nat \ {0} /\ N1 * N2 = N
      /\ Coeffs(kind) \subseteq Records /\ Records \subseteq Nat
  BY Matrix, CoeffsInRecords DEF Records
<1>2. Stage(kind, 4, row * N1 + j) = {T(i) : i \in Coeffs(kind)}
  <2>1. (row * N1 + j) \div N1 = row /\ (row * N1 + j) % N1 = j
    BY <1>1, RowAndColumn
  <2> QED BY <2>1 DEF Stage, Terms
<1>3. ASSUME NEW q \in 0 .. N1 - 1
      PROVE  Shift(Stage(kind, 3, row * N1 + q), N2 * j * q + 0) = {T(i) : i \in S(q)}
  <2>1. (row * N1 + q) \div N1 = row /\ (row * N1 + q) % N1 = q
    BY <1>1, RowAndColumn
  <2>2. Stage(kind, 3, row * N1 + q) = Terms(kind, S(q), row)
    BY <2>1, ThirdStage
  <2>3. PICK e \in Nat : e = N2 * j * q + 0
    BY <1>1
  <2>4. S(q) \subseteq Nat
    BY <1>1
  <2>5. row \in Nat
    BY <1>1
  <2>6. Shift(Terms(kind, S(q), row), e) = {<<i, (i * row + e) % N, Coset(kind, i)>> : i \in S(q)}
    <3> HIDE DEF S
    <3> QED BY <2>3, <2>4, <2>5, ShiftedTerms
  <2>7. \A i \in S(q) : (i * row + e) % N = (i * (row + N2 * j)) % N
    <3> TAKE i \in S(q)
    <3>1. i \in Nat /\ i % N1 = q
      BY <1>1
    <3>2. i = (i \div N1) * N1 + q /\ i \div N1 \in Nat
      BY <1>1, <3>1, DivMod
    <3>3. PICK m \in Nat : m = i \div N1
      BY <3>2
    <3>4. i * (row + N2 * j) = i * row + N2 * j * i
      BY <1>1, <3>1
    <3>5. N2 * j * i = N2 * j * q + N * (j * m)
      <4>1. i = m * N1 + q
        BY <3>2, <3>3
      <4>2. N2 * j * (m * N1 + q) = N2 * j * q + (N1 * N2) * (j * m)
        BY <1>1
      <4> QED BY <1>1, <4>1, <4>2
    <3>6. i * row + e \in Nat /\ j * m \in Nat
      BY <2>3, <3>1, <3>3
    <3>7. i * (row + N2 * j) = (i * row + e) + N * (j * m)
      BY <1>1, <2>3, <3>4, <3>5, <3>1, <3>3
    <3>8. ((i * row + e) + N * (j * m)) % N = (i * row + e) % N
      BY ZenonT(60), <1>1, <3>6, ModMultiple
    <3> QED BY <3>7, <3>8
  <2> QED BY <2>2, <2>3, <2>6, <2>7
<1>4. Folded(kind, 4, row, j) = UNION {{T(i) : i \in S(q)} : q \in 0 .. N1 - 1}
  <2>1. Folded(kind, 4, row, j) =
          UNION {Shift(Stage(kind, 3, row * N1 + q), N2 * j * q + 0) : q \in 0 .. N1 - 1}
    BY DEF Folded, Steps, FftRows
  <2> HIDE DEF T, S
  <2> QED BY <1>3, <2>1
<1>5. \A q \in 0 .. N1 - 1 : S(q) \subseteq Coeffs(kind)
  OBVIOUS
<1>6. \A i \in Coeffs(kind) : \E q \in 0 .. N1 - 1 : i \in S(q)
  <2> TAKE i \in Coeffs(kind)
  <2>1. i % N1 \in 0 .. N1 - 1
    BY <1>1, DivMod
  <2> QED BY <2>1
<1> HIDE DEF S, T
<1>7. ASSUME NEW x \in {T(i) : i \in Coeffs(kind)} PROVE x \in UNION {{T(i) : i \in S(q)} : q \in 0 .. N1 - 1}
  <2>1. PICK i \in Coeffs(kind) : x = T(i)
    OBVIOUS
  <2>2. PICK q \in 0 .. N1 - 1 : i \in S(q)
    BY <1>6
  <2> QED BY <2>1, <2>2
<1>8. ASSUME NEW x \in UNION {{T(i) : i \in S(q)} : q \in 0 .. N1 - 1} PROVE x \in {T(i) : i \in Coeffs(kind)}
  <2>1. PICK q \in 0 .. N1 - 1 : x \in {T(i) : i \in S(q)}
    OBVIOUS
  <2>2. PICK i \in S(q) : x = T(i)
    BY <2>1
  <2>3. i \in Coeffs(kind)
    BY <1>5
  <2> QED BY <2>2, <2>3
<1>9. {T(i) : i \in Coeffs(kind)} = UNION {{T(i) : i \in S(q)} : q \in 0 .. N1 - 1}
  BY <1>7, <1>8
<1> QED BY <1>2, <1>4, <1>9

LEMMA StageOfPass ==
  ASSUME Sized, NEW st, NEW kind, NEW row, NEW j, st \in {2, 4}, kind \in {"fft", "extend"},
         row \in 0 .. Steps[st].rows - 1, j \in 0 .. Steps[st].cols - 1
  PROVE  Stage(kind, st, row * Steps[st].cols + j) = Folded(kind, st, row, j)
<1>1. CASE st = 2
  <2>1. Steps[2].rows = N1 /\ Steps[2].cols = N2
    BY DEF Steps, FftRows
  <2> QED BY <1>1, <2>1, StageOfFirstPass
<1>2. CASE st = 4
  <2>1. Steps[4].rows = N2 /\ Steps[4].cols = N1
    BY DEF Steps, FftRows
  <2> QED BY <1>2, <2>1, StageOfSecondPass
<1> QED BY <1>1, <1>2

-----------------------------------------------------------------------------
(***************************************************************************)
(* Types.                                                                  *)
(***************************************************************************)
LEMMA OpenedFacts ==
  /\ Opened("a") = {} /\ Opened("b") = {"a"} /\ Opened("c") = {"a", "b"}
  /\ Opened("write") = Slots /\ Opened("run") = Slots /\ Opened("finish") = Slots
  /\ Opened("done") = {}
BY DEF Opened, Slots

LEMMA AfterOpenFacts == AfterOpen("a") = "b" /\ AfterOpen("b") = "c" /\ AfterOpen("c") = "write"
BY DEF AfterOpen

LEMMA ZerosTyped == ASSUME Sized PROVE Zeros \in Contents
BY DEF Zeros, Contents, Elements

LEMMA NotNoFile == ASSUME NEW d \in Inodes PROVE d # NoFile
BY DEF Inodes, NoFile

LEMMA InodesOfTyped ==
  ASSUME NEW t \in Callers, NEW slot \in Slots PROVE InodesOf(t, slot) \subseteq Inodes
BY DEF InodesOf, Inodes

LEMMA NameTyped ==
  ASSUME NEW t \in Callers, NEW kind \in Kinds, NEW slot \in Slots
  PROVE  Name(t, kind, slot) \in Names
BY DEF Names

LEMMA InputTyped ==
  ASSUME Sized, NEW kind \in {"fft", "extend"}, NEW x \in Records
  PROVE  Input(kind, x) \in Elements
<1>1. N \in Nat \ {0} /\ x \in Nat
  BY Matrix DEF Records
<1>2. 0 \in Records /\ Coset(kind, x) \in 0 .. 2
  BY <1>1 DEF Records, Coset
<1> QED BY <1>2 DEF Input, Elements

LEMMA ShiftTyped ==
  ASSUME Sized, NEW elem \in Elements, NEW e \in Nat
  PROVE  Shift(elem, e) \in Elements
<1>1. N \in Nat \ {0} /\ Records \subseteq Nat
  BY Matrix DEF Records
<1>2. ASSUME NEW term \in elem
      PROVE  <<term[1], (term[2] + e) % N, term[3]>> \in Records \X Records \X (0 .. 2)
  <2>1. term \in Records \X Records \X (0 .. 2)
    BY DEF Elements
  <2>2. term[1] \in Records /\ term[2] \in Records /\ term[3] \in 0 .. 2
    BY <2>1
  <2>3. term[2] \in Nat
    BY <1>1, <2>2
  <2>4. PICK s \in Nat : s = term[2] + e
    BY <2>3
  <2>5. s % N \in Records
    BY <1>1, DivMod DEF Records
  <2> QED BY <2>2, <2>4, <2>5
<1> QED BY <1>2 DEF Shift, Elements

LEMMA CallChanged ==
  ASSUME NEW t \in Callers, call \in [Callers -> CallType], NEW c \in CallType,
         call' = [call EXCEPT ![t] = c]
  PROVE  /\ call' \in [Callers -> CallType] /\ call'[t] = c
         /\ \A u \in Callers : u # t => call'[u] = call[u]
OBVIOUS

LEMMA PlacedElsewhere ==
  ASSUME NEW t \in Callers, TInv, call' \in [Callers -> CallType], Placed(call'[t]),
         \A u \in Callers : u # t => call'[u] = call[u]
  PROVE  \A u \in Callers : Placed(call'[u])
BY DEF TInv

(* The place after a tile or a batch. *)
Advanced(c, i, j) ==
  LET s == Steps[c.step]
  IN  IF j < s.cols THEN [c EXCEPT !.j = j]
      ELSE IF i < s.rows THEN [c EXCEPT !.i = i, !.j = 0]
      ELSE [c EXCEPT !.i = 0, !.j = 0, !.step = c.step + 1,
                     !.pc = IF c.step = 5 THEN "finish" ELSE "run"]

LEMMA CallFields ==
  ASSUME NEW c \in CallType
  PROVE  /\ c.n \in 0 .. MaxCalls /\ c.kind \in {"fft", "extend"} /\ c.pc \in Running \cup {"done"}
         /\ c.step \in 1 .. 6 /\ c.i \in Nat /\ c.j \in Nat /\ c.block \in Nat /\ c.batch \in Nat
         /\ c.file \in [Slots -> Inodes \cup {NoFile}] /\ c.status \in {"none", "ok", "err"}
         /\ c.out \in Contents
BY DEF CallType

(* All but the place. *)
SameCall(c, d) ==
  /\ d.n = c.n /\ d.kind = c.kind /\ d.block = c.block /\ d.batch = c.batch
  /\ d.file = c.file /\ d.status = c.status /\ d.out = c.out

(* A call moves to another place, or to another stage. *)
At(c, i, j, step, pc) == [c EXCEPT !.i = i, !.j = j, !.step = step, !.pc = pc]

LEMMA AtPlace ==
  ASSUME NEW c, NEW i, NEW j, NEW step, NEW pc, c \in CallType, i \in Nat, j \in Nat,
         step \in 1 .. 6, pc \in Running \cup {"done"}
  PROVE  /\ At(c, i, j, step, pc) \in CallType
         /\ At(c, i, j, step, pc).i = i /\ At(c, i, j, step, pc).j = j
         /\ At(c, i, j, step, pc).step = step /\ At(c, i, j, step, pc).pc = pc
         /\ SameCall(c, At(c, i, j, step, pc))
<1> DEFINE d == At(c, i, j, step, pc)
<1>1. PICK c1 : c1 = [c EXCEPT !.i = i]
  OBVIOUS
<1>2. PICK c2 : c2 = [c1 EXCEPT !.j = j]
  OBVIOUS
<1>3. PICK c3 : c3 = [c2 EXCEPT !.step = step]
  OBVIOUS
<1>4. d = [c3 EXCEPT !.pc = pc]
  BY <1>1, <1>2, <1>3 DEF At
<1>5. c1 \in CallType
  BY <1>1 DEF CallType
<1>6. c2 \in CallType
  BY <1>2, <1>5 DEF CallType
<1>7. c3 \in CallType
  BY <1>3, <1>6 DEF CallType
<1>8. d \in CallType
  BY <1>4, <1>7 DEF CallType
<1>9. c1.i = i /\ c2.i = i /\ c3.i = i /\ d.i = i
  BY <1>1, <1>2, <1>3, <1>4, <1>5, <1>6, <1>7 DEF CallType
<1>10. c2.j = j /\ c3.j = j /\ d.j = j /\ c3.step = step /\ d.step = step /\ d.pc = pc
  BY <1>2, <1>3, <1>4, <1>5, <1>6, <1>7 DEF CallType
<1>11. /\ c1.n = c.n /\ c1.kind = c.kind /\ c1.block = c.block /\ c1.batch = c.batch
       /\ c1.file = c.file /\ c1.status = c.status /\ c1.out = c.out
  BY <1>1 DEF CallType
<1>12. /\ c2.n = c1.n /\ c2.kind = c1.kind /\ c2.block = c1.block /\ c2.batch = c1.batch
       /\ c2.file = c1.file /\ c2.status = c1.status /\ c2.out = c1.out
  BY <1>2, <1>5 DEF CallType
<1>13. /\ c3.n = c2.n /\ c3.kind = c2.kind /\ c3.block = c2.block /\ c3.batch = c2.batch
       /\ c3.file = c2.file /\ c3.status = c2.status /\ c3.out = c2.out
  BY <1>3, <1>6 DEF CallType
<1>14. /\ d.n = c3.n /\ d.kind = c3.kind /\ d.block = c3.block /\ d.batch = c3.batch
       /\ d.file = c3.file /\ d.status = c3.status /\ d.out = c3.out
  BY <1>4, <1>7 DEF CallType
<1> QED BY <1>8, <1>9, <1>10, <1>11, <1>12, <1>13, <1>14 DEF SameCall

LEMMA RunPlaced ==
  ASSUME NEW d, d.pc = "run", d.n # 0, d.kind \in Kinds, d.block # 0,
         \A slot \in Slots : d.file[slot] \in Inodes,
         d.step \in 1 .. 5, d.i < Steps[d.step].rows, d.j < Steps[d.step].cols
  PROVE  Placed(d)
<1>1. Opened(d.pc) = Slots /\ d.pc \notin Slots \cup {"write"}
  BY OpenedFacts DEF Slots
<1> QED BY <1>1 DEF Placed

(* What an advance leaves as it is, and where it goes. *)
LEMMA AdvancedFields ==
  ASSUME Sized, NEW c \in CallType, Placed(c), c.pc = "run",
         NEW i \in Nat, NEW j \in Nat, NEW d, d = Advanced(c, i, j)
  PROVE  /\ d \in CallType
         /\ SameCall(c, d)
         /\ j < Steps[c.step].cols =>
              d.pc = "run" /\ d.step = c.step /\ d.i = c.i /\ d.j = j
         /\ ~(j < Steps[c.step].cols) /\ i < Steps[c.step].rows =>
              d.pc = "run" /\ d.step = c.step /\ d.i = i /\ d.j = 0
         /\ ~(j < Steps[c.step].cols) /\ ~(i < Steps[c.step].rows) =>
              /\ d.pc = (IF c.step = 5 THEN "finish" ELSE "run")
              /\ d.step = c.step + 1 /\ d.i = 0 /\ d.j = 0
<1>1. c.step \in 1 .. 5 /\ c.step \in 1 .. 6 /\ c.step + 1 \in 1 .. 6
  BY DEF Placed
<1>2. /\ "run" \in Running \cup {"done"} /\ "finish" \in Running \cup {"done"}
      /\ c.i \in Nat /\ c.j \in Nat /\ 0 \in Nat
  BY CallFields DEF Running
<1>3. CASE j < Steps[c.step].cols
  <2>1. d = [c EXCEPT !.j = j]
    BY <1>3 DEF Advanced
  <2>2. d = [c EXCEPT !.i = c.i, !.j = j, !.step = c.step, !.pc = "run"]
    BY <2>1 DEF CallType
  <2>3. PICK i0, j0, st, p0 : i0 = c.i /\ j0 = j /\ st = c.step /\ p0 = "run"
    OBVIOUS
  <2>4. d = At(c, i0, j0, st, p0)
    BY <2>2, <2>3 DEF At
  <2>5. i0 \in Nat /\ j0 \in Nat /\ st \in 1 .. 6 /\ p0 \in Running \cup {"done"}
    BY <1>1, <1>2, <2>3
  <2>6. /\ d \in CallType
        /\ d.i = i0 /\ d.j = j0 /\ d.step = st /\ d.pc = p0
        /\ SameCall(c, d)
    BY <2>4, <2>5, AtPlace
  <2> QED BY <1>3, <2>3, <2>6
<1>4. CASE ~(j < Steps[c.step].cols) /\ i < Steps[c.step].rows
  <2>1. d = [c EXCEPT !.i = i, !.j = 0]
    BY <1>4 DEF Advanced
  <2>2. d = [c EXCEPT !.i = i, !.j = 0, !.step = c.step, !.pc = "run"]
    BY <2>1 DEF CallType
  <2>3. PICK i0, j0, st, p0 : i0 = i /\ j0 = 0 /\ st = c.step /\ p0 = "run"
    OBVIOUS
  <2>4. d = At(c, i0, j0, st, p0)
    BY <2>2, <2>3 DEF At
  <2>5. i0 \in Nat /\ j0 \in Nat /\ st \in 1 .. 6 /\ p0 \in Running \cup {"done"}
    BY <1>1, <1>2, <2>3
  <2>6. /\ d \in CallType
        /\ d.i = i0 /\ d.j = j0 /\ d.step = st /\ d.pc = p0
        /\ SameCall(c, d)
    BY <2>4, <2>5, AtPlace
  <2> QED BY <1>4, <2>3, <2>6
<1>5. CASE ~(j < Steps[c.step].cols) /\ ~(i < Steps[c.step].rows)
  <2>1. PICK pc \in Running \cup {"done"} : pc = IF c.step = 5 THEN "finish" ELSE "run"
    BY <1>2
  <2>2. d = [c EXCEPT !.i = 0, !.j = 0, !.step = c.step + 1, !.pc = pc]
    BY <1>5, <2>1 DEF Advanced
  <2>3. PICK i0, j0, st, p0 : i0 = 0 /\ j0 = 0 /\ st = c.step + 1 /\ p0 = pc
    OBVIOUS
  <2>4. d = At(c, i0, j0, st, p0)
    BY <2>2, <2>3 DEF At
  <2>5. i0 \in Nat /\ j0 \in Nat /\ st \in 1 .. 6 /\ p0 \in Running \cup {"done"}
    BY <1>1, <1>2, <2>3
  <2>6. /\ d \in CallType
        /\ d.i = i0 /\ d.j = j0 /\ d.step = st /\ d.pc = p0
        /\ SameCall(c, d)
    BY <2>4, <2>5, AtPlace
  <2> QED BY <1>5, <2>1, <2>3, <2>6
<1> QED BY <1>3, <1>4, <1>5

LEMMA AdvancedPlaced ==
  ASSUME Sized, NEW c \in CallType, Placed(c), c.pc = "run",
         NEW i \in Nat, NEW j \in Nat, NEW d, d = Advanced(c, i, j)
  PROVE  Placed(d)
<1>1. c.step \in 1 .. 5 /\ c.i < Steps[c.step].rows /\ c.j < Steps[c.step].cols
  BY DEF Placed
<1>2. 0 < Steps[c.step].rows /\ 0 < Steps[c.step].cols
  BY <1>1, StepFacts
<1>3. /\ c.n # 0 /\ c.kind \in Kinds /\ c.block # 0
      /\ \A slot \in Slots : c.file[slot] \in Inodes
  BY OpenedFacts DEF Placed, Running
<1>4. /\ SameCall(c, d)
      /\ j < Steps[c.step].cols =>
           d.pc = "run" /\ d.step = c.step /\ d.i = c.i /\ d.j = j
      /\ ~(j < Steps[c.step].cols) /\ i < Steps[c.step].rows =>
           d.pc = "run" /\ d.step = c.step /\ d.i = i /\ d.j = 0
      /\ ~(j < Steps[c.step].cols) /\ ~(i < Steps[c.step].rows) =>
           /\ d.pc = (IF c.step = 5 THEN "finish" ELSE "run")
           /\ d.step = c.step + 1 /\ d.i = 0 /\ d.j = 0
  BY AdvancedFields
<1>5. /\ d.n # 0 /\ d.kind \in Kinds /\ d.block # 0
      /\ \A slot \in Slots : d.file[slot] \in Inodes
  BY <1>3, <1>4 DEF SameCall
<1>6. CASE j < Steps[c.step].cols
  <2>1. d.pc = "run" /\ d.step = c.step /\ d.i = c.i /\ d.j = j
    BY <1>4, <1>6
  <2> QED BY <1>1, <1>5, <1>6, <2>1, RunPlaced
<1>7. CASE ~(j < Steps[c.step].cols) /\ i < Steps[c.step].rows
  <2>1. d.pc = "run" /\ d.step = c.step /\ d.i = i /\ d.j = 0
    BY <1>4, <1>7
  <2> QED BY <1>1, <1>2, <1>5, <1>7, <2>1, RunPlaced
<1>8. CASE ~(j < Steps[c.step].cols) /\ ~(i < Steps[c.step].rows)
  <2>1. /\ d.pc = (IF c.step = 5 THEN "finish" ELSE "run")
        /\ d.step = c.step + 1 /\ d.i = 0 /\ d.j = 0
    BY <1>4, <1>8
  <2>2. CASE c.step = 5
    <3>1. d.pc = "finish" /\ Opened(d.pc) = Slots /\ d.pc \notin Slots \cup {"write"} /\ d.pc # "run"
      BY <2>1, <2>2, OpenedFacts DEF Slots
    <3> QED BY <1>5, <3>1 DEF Placed
  <2>3. CASE c.step # 5
    <3>1. PICK st \in 1 .. 5 : st = c.step + 1
      BY <1>1, <2>3
    <3>2. 0 < Steps[st].rows /\ 0 < Steps[st].cols
      BY StepFacts
    <3>3. d.pc = "run" /\ d.step = st /\ d.i = 0 /\ d.j = 0
      BY <2>1, <2>3, <3>1
    <3> QED BY <1>5, <3>2, <3>3, RunPlaced
  <2> QED BY <2>2, <2>3
<1> QED BY <1>6, <1>7, <1>8

LEMMA AdvanceIs ==
  ASSUME NEW t \in Callers, call \in [Callers -> CallType], NEW i, NEW j, Advance(t, i, j)
  PROVE  call' = [call EXCEPT ![t] = Advanced(call[t], i, j)]
<1>1. PICK c : c = call[t]
  OBVIOUS
<1>2. Advanced(c, i, j) =
        (IF j < Steps[c.step].cols THEN [c EXCEPT !.j = j]
         ELSE IF i < Steps[c.step].rows THEN [c EXCEPT !.i = i, !.j = 0]
         ELSE [c EXCEPT !.i = 0, !.j = 0, !.step = @ + 1,
                        !.pc = IF c.step = Len(Steps) THEN "finish" ELSE "run"])
  BY StepsCount DEF Advanced
<1> QED BY <1>1, <1>2 DEF Advance

LEMMA TypesAtFirst == Sized /\ Init => TInv
<1> SUFFICES ASSUME Sized, Init PROVE TInv
  OBVIOUS
<1>1. Zeros \in Contents
  BY ZerosTyped
<1>2. names \in [Names -> Inodes \cup {NoFile}] /\ disk \in [Inodes -> Contents]
  BY <1>1 DEF Init
<1>3. NotCalled \in CallType
  BY <1>1 DEF NotCalled, CallType, Sized
<1>4. NotCalled.pc = "done"
  BY DEF NotCalled
<1>5. Placed(NotCalled)
  BY <1>4, OpenedFacts DEF Placed, Running, Slots
<1>6. call \in [Callers -> CallType] /\ \A t \in Callers : call[t] = NotCalled
  BY <1>3 DEF Init
<1> QED BY <1>2, <1>5, <1>6 DEF TInv

(* What every step of a call keeps: the types, and the other calls. *)
Stepped(t) ==
  /\ names' \in [Names -> Inodes \cup {NoFile}]
  /\ disk' \in [Inodes -> Contents]
  /\ call' \in [Callers -> CallType]
  /\ Placed(call'[t])
  /\ \A u \in Callers : u # t => call'[u] = call[u]

LEMMA SteppedTyped ==
  ASSUME NEW t \in Callers, TInv, Stepped(t) PROVE TInv'
BY DEF TInv, Stepped, Placed

LEMMA OfTInv ==
  ASSUME NEW t \in Callers, TInv
  PROVE  /\ names \in [Names -> Inodes \cup {NoFile}] /\ disk \in [Inodes -> Contents]
         /\ call \in [Callers -> CallType] /\ call[t] \in CallType /\ Placed(call[t])
BY DEF TInv

(* A call begins. *)
Begun(n, kind, block, batch) ==
  [NotCalled EXCEPT !.n = n, !.kind = kind, !.pc = "a", !.block = block, !.batch = batch]

LEMMA BegunTyped ==
  ASSUME Sized, NEW n, NEW kind, NEW block, NEW batch, NEW d, d = Begun(n, kind, block, batch),
         n \in 1 .. MaxCalls, kind \in Kinds, block \in Blocks, batch \in Batches
  PROVE  /\ d \in CallType /\ Placed(d)
         /\ d.pc = "a" /\ d.kind = kind /\ d.n = n /\ d.status = "none"
<1>1. d = [n |-> n, kind |-> kind, pc |-> "a", step |-> 1, i |-> 0, j |-> 0, block |-> block,
           batch |-> batch, file |-> [slot \in Slots |-> NoFile], status |-> "none", out |-> Zeros]
  BY DEF Begun, NotCalled
<1>2. /\ n \in 0 .. MaxCalls /\ n # 0 /\ kind \in {"fft", "extend"} /\ block \in Nat /\ block # 0
      /\ batch \in Nat /\ "a" \in Running \cup {"done"}
  BY DEF Sized, Running, Slots
<1>3. Zeros \in Contents /\ [slot \in Slots |-> NoFile] \in [Slots -> Inodes \cup {NoFile}]
  BY ZerosTyped
<1>4. d \in CallType
  BY <1>1, <1>2, <1>3 DEF CallType
<1>5. /\ d.pc = "a" /\ d.kind = kind /\ d.n = n /\ d.status = "none" /\ d.block = block
      /\ d.step = 1 /\ d.i = 0 /\ d.j = 0
  BY <1>1
<1>6. Placed(d)
  BY <1>2, <1>5, OpenedFacts DEF Placed
<1> QED BY <1>4, <1>5, <1>6

LEMMA CallDoes ==
  ASSUME Sized, TInv, NEW t \in Callers, Call(t)
  PROVE  /\ Stepped(t) /\ UNCHANGED <<names, disk>>
         /\ call'[t].pc = "a" /\ call'[t].status = "none"
<1>1. call[t].n < MaxCalls /\ UNCHANGED <<names, disk>> /\ call[t].n \in 0 .. MaxCalls
  BY OfTInv, CallFields DEF Call
<1>2. PICK kind \in Kinds, block \in Blocks, batch \in Batches :
        call' = [call EXCEPT ![t] = Begun(call[t].n + 1, kind, block, batch)]
  BY DEF Call, Begun
<1>3. PICK d : d = Begun(call[t].n + 1, kind, block, batch)
  OBVIOUS
<1>4. call[t].n + 1 \in 1 .. MaxCalls
  BY <1>1 DEF Sized
<1>5. d \in CallType /\ Placed(d) /\ d.pc = "a" /\ d.status = "none"
  BY <1>2, <1>3, <1>4, BegunTyped
<1>6. /\ call' \in [Callers -> CallType] /\ call'[t] = d
      /\ \A u \in Callers : u # t => call'[u] = call[u]
  BY <1>2, <1>3, <1>5, OfTInv, CallChanged
<1> QED BY <1>1, <1>5, <1>6, OfTInv DEF Stepped

(* A scratch file is opened. *)
LEMMA ScratchDoes ==
  ASSUME Sized, TInv, NEW t \in Callers, NEW slot \in Slots, NEW inode \in Inodes,
         Scratch(t, slot, inode)
  PROVE  /\ Stepped(t)
         /\ call[t].pc = slot /\ call'[t].pc = AfterOpen(slot) /\ call'[t].kind = call[t].kind
         /\ call'[t].file = [call[t].file EXCEPT ![slot] = inode] /\ call'[t].n = call[t].n
         /\ call'[t].status = call[t].status
         /\ call[t].kind \in Kinds
         /\ names' = [names EXCEPT ![Name(t, call[t].kind, slot)] = inode]
         /\ disk' = [disk EXCEPT ![inode] = Zeros]
<1>1. /\ call[t].pc = slot
      /\ names' = [names EXCEPT ![Name(t, call[t].kind, slot)] = inode]
      /\ disk' = [disk EXCEPT ![inode] = Zeros]
  BY DEF Scratch
<1>2. PICK c : c = call[t]
  OBVIOUS
<1>3. c \in CallType /\ Placed(c) /\ c.pc = slot
  BY <1>1, <1>2, OfTInv
<1>4. /\ c.n # 0 /\ c.kind \in Kinds /\ c.block # 0 /\ c.step = 1 /\ c.i = 0 /\ c.j = 0
      /\ \A s \in Opened(slot) : c.file[s] \in Inodes
  BY <1>3 DEF Placed, Running
<1>5. PICK d : d = [c EXCEPT !.file[slot] = inode, !.pc = AfterOpen(slot)]
  OBVIOUS
<1>6. PICK e : e = [c EXCEPT !.file[slot] = inode]
  OBVIOUS
<1>7. d = [e EXCEPT !.pc = AfterOpen(slot)]
  BY <1>5, <1>6
<1>8. e \in CallType
  BY <1>3, <1>6 DEF CallType
<1>9. AfterOpen(slot) \in {"b", "c", "write"}
  BY AfterOpenFacts DEF Slots
<1>10. d \in CallType
  BY <1>7, <1>8, <1>9 DEF CallType, Running, Slots
<1>11. e.n = c.n /\ e.kind = c.kind /\ e.block = c.block /\ e.step = c.step /\ e.i = c.i
       /\ e.j = c.j /\ e.status = c.status /\ e.file = [c.file EXCEPT ![slot] = inode]
  BY <1>3, <1>6 DEF CallType
<1>12. d.n = e.n /\ d.kind = e.kind /\ d.block = e.block /\ d.step = e.step /\ d.i = e.i
       /\ d.j = e.j /\ d.status = e.status /\ d.file = e.file /\ d.pc = AfterOpen(slot)
  BY <1>7, <1>8 DEF CallType
<1>13. \A s \in Opened(d.pc) : d.file[s] \in Inodes
  <2>1. d.file = [c.file EXCEPT ![slot] = inode] /\ c.file \in [Slots -> Inodes \cup {NoFile}]
    BY <1>3, <1>11, <1>12, CallFields
  <2>2. \A s \in Opened(d.pc) : s = slot \/ s \in Opened(slot)
    BY <1>12, OpenedFacts, AfterOpenFacts DEF Slots
  <2>3. Opened(d.pc) \subseteq Slots
    BY DEF Opened
  <2> QED BY <1>4, <2>1, <2>2, <2>3
<1>14. Placed(d)
  BY <1>4, <1>9, <1>11, <1>12, <1>13 DEF Placed
<1>15. call' = [call EXCEPT ![t] = d]
  BY <1>2, <1>5 DEF Scratch
<1>16. /\ call' \in [Callers -> CallType] /\ call'[t] = d
       /\ \A u \in Callers : u # t => call'[u] = call[u]
  BY <1>10, <1>15, OfTInv, CallChanged
<1>17. names' \in [Names -> Inodes \cup {NoFile}] /\ disk' \in [Inodes -> Contents]
  BY <1>1, OfTInv, ZerosTyped
<1>18. Stepped(t)
  BY <1>14, <1>16, <1>17 DEF Stepped
<1> QED BY <1>1, <1>2, <1>4, <1>11, <1>12, <1>16, <1>18

LEMMA OpenScratchDoes ==
  ASSUME Sized, TInv, NEW t \in Callers, OpenScratch(t)
  PROVE  \E slot \in Slots, inode \in Inodes :
           /\ Scratch(t, slot, inode)
           /\ inode = IF names[Name(t, call[t].kind, slot)] = NoFile THEN <<t, call[t].n, slot>>
                      ELSE names[Name(t, call[t].kind, slot)]
<1>1. PICK slot \in Slots :
        Scratch(t, slot, IF names[Name(t, call[t].kind, slot)] = NoFile THEN <<t, call[t].n, slot>>
                         ELSE names[Name(t, call[t].kind, slot)])
  BY DEF OpenScratch
<1>2. call[t].pc = slot
  BY <1>1 DEF Scratch
<1>3. call[t].n # 0 /\ call[t].n \in 0 .. MaxCalls /\ call[t].kind \in Kinds
  BY <1>2, OfTInv, CallFields DEF Placed, Running
<1>4. <<t, call[t].n, slot>> \in Inodes
  BY <1>3 DEF Inodes
<1>5. names[Name(t, call[t].kind, slot)] \in Inodes \cup {NoFile}
  BY <1>3, OfTInv, NameTyped
<1> QED BY <1>1, <1>4, <1>5

(* A call moves on. *)
LEMMA WriteInputDoes ==
  ASSUME Sized, TInv, NEW t \in Callers, WriteInput(t)
  PROVE  /\ Stepped(t) /\ UNCHANGED names
         /\ call[t].pc = "write" /\ call'[t].pc = "run" /\ SameCall(call[t], call'[t])
         /\ call'[t].step = 1 /\ call'[t].i = 0 /\ call'[t].j = 0
         /\ call[t].kind \in Kinds /\ call[t].file["a"] \in Inodes
         /\ disk' = [disk EXCEPT ![call[t].file["a"]] =
                       [x \in Records |-> IF x \in Coeffs(call[t].kind) THEN Input(call[t].kind, x)
                                          ELSE disk[call[t].file["a"]][x]]]
<1>1. PICK c : c = call[t]
  OBVIOUS
<1>2. c \in CallType /\ Placed(c) /\ c.pc = "write"
  BY <1>1, OfTInv DEF WriteInput
<1>3. /\ c.n # 0 /\ c.kind \in Kinds /\ c.block # 0 /\ c.step = 1 /\ c.i = 0 /\ c.j = 0
      /\ \A s \in Slots : c.file[s] \in Inodes
  BY <1>2, OpenedFacts DEF Placed, Running
<1>4. PICK d : d = [c EXCEPT !.pc = "run"]
  OBVIOUS
<1>5. d \in CallType
  BY <1>2, <1>4 DEF CallType, Running
<1>6. d.step = c.step /\ d.i = c.i /\ d.j = c.j /\ d.pc = "run" /\ SameCall(c, d)
  BY <1>2, <1>4 DEF CallType, SameCall
<1>7. 0 < Steps[1].rows /\ 0 < Steps[1].cols
  BY StepFacts
<1>8. /\ d.n # 0 /\ d.kind \in Kinds /\ d.block # 0 /\ \A s \in Slots : d.file[s] \in Inodes
      /\ d.step \in 1 .. 5 /\ d.i < Steps[d.step].rows /\ d.j < Steps[d.step].cols
  BY <1>3, <1>6, <1>7 DEF SameCall
<1>9. Placed(d)
  BY <1>6, <1>8, RunPlaced
<1>10. call' = [call EXCEPT ![t] = d]
  BY <1>1, <1>4, OfTInv DEF WriteInput
<1>11. /\ call' \in [Callers -> CallType] /\ call'[t] = d
       /\ \A u \in Callers : u # t => call'[u] = call[u]
  BY <1>5, <1>10, OfTInv, CallChanged
<1>12. PICK g : g = [x \in Records |-> IF x \in Coeffs(c.kind) THEN Input(c.kind, x)
                                       ELSE disk[c.file["a"]][x]]
  OBVIOUS
<1>13. disk' = [disk EXCEPT ![c.file["a"]] = g] /\ UNCHANGED names
  BY <1>1, <1>12 DEF WriteInput
<1>14. c.file["a"] \in Inodes /\ c.kind \in {"fft", "extend"}
  BY <1>2, <1>3, CallFields DEF Slots
<1>15. g \in Contents
  <2>1. disk[c.file["a"]] \in Contents
    BY <1>14, OfTInv
  <2>2. \A x \in Records : disk[c.file["a"]][x] \in Elements /\ Input(c.kind, x) \in Elements
    BY <1>14, <2>1, InputTyped DEF Contents
  <2> QED BY <1>12, <2>2 DEF Contents
<1>16. disk' \in [Inodes -> Contents]
  BY <1>13, <1>14, <1>15, OfTInv
<1>17. Stepped(t)
  BY <1>9, <1>11, <1>13, <1>16, OfTInv DEF Stepped
<1> QED BY <1>1, <1>2, <1>3, <1>6, <1>11, <1>12, <1>13, <1>14, <1>17

LEMMA RunFacts ==
  ASSUME Sized, NEW c, c \in CallType, Placed(c), c.pc = "run"
  PROVE  /\ c.n # 0 /\ c.kind \in Kinds /\ c.kind \in {"fft", "extend"}
         /\ c.block \in Nat \ {0} /\ c.batch \in Nat
         /\ \A s \in Slots : c.file[s] \in Inodes
         /\ c.step \in 1 .. 5 /\ c.i \in Nat /\ c.j \in Nat
         /\ c.i < Steps[c.step].rows /\ c.j < Steps[c.step].cols
         /\ c.file[Steps[c.step].src] \in Inodes /\ c.file[Steps[c.step].dst] \in Inodes
<1>1. /\ c.n # 0 /\ c.kind \in Kinds /\ c.block # 0 /\ c.step \in 1 .. 5
      /\ c.i < Steps[c.step].rows /\ c.j < Steps[c.step].cols
      /\ \A s \in Slots : c.file[s] \in Inodes
  BY OpenedFacts DEF Placed, Running
<1>2. /\ c.kind \in {"fft", "extend"} /\ c.block \in Nat /\ c.batch \in Nat
      /\ c.i \in Nat /\ c.j \in Nat
  BY CallFields
<1>3. Steps[c.step].src \in Slots /\ Steps[c.step].dst \in Slots
  BY <1>1, StepFacts
<1> QED BY <1>1, <1>2, <1>3

(* The tile at (c.i, c.j): its rows and columns. *)
TileRows(c) == Least(c.block, Steps[c.step].rows - c.i)
TileCols(c) == Least(c.block, Steps[c.step].cols - c.j)

InTile(c, row, col) == row \in c.i .. c.i + TileRows(c) - 1 /\ col \in c.j .. c.j + TileCols(c) - 1

(* Record x of dst after the tile. *)
TileMoves(c, dk, x) ==
  LET s == Steps[c.step]
  IN  IF InTile(c, x % s.rows, x \div s.rows)
        THEN dk[c.file[s.src]][(x % s.rows) * s.cols + (x \div s.rows)]
        ELSE dk[c.file[s.dst]][x]

TileFile(c, dk) == [x \in Records |-> TileMoves(c, dk, x)]

(* The same, from the contents of the two files. *)
Tiled(c, src, dst) ==
  [x \in Records |->
     IF InTile(c, x % Steps[c.step].rows, x \div Steps[c.step].rows)
       THEN src[(x % Steps[c.step].rows) * Steps[c.step].cols + (x \div Steps[c.step].rows)]
       ELSE dst[x]]

LEMMA LeastFacts ==
  ASSUME NEW m, NEW n, m \in Nat \ {0}, n \in Nat \ {0}
  PROVE  /\ Least(m, n) \in Nat \ {0} /\ Least(m, n) <= m /\ Least(m, n) <= n
         /\ Least(m, n) < n => Least(m, n) = m
BY DEF Least

LEMMA TileFacts ==
  ASSUME Sized, NEW c, c \in CallType, Placed(c), c.pc = "run"
  PROVE  /\ TileRows(c) \in Nat \ {0} /\ TileCols(c) \in Nat \ {0}
         /\ c.i + TileRows(c) <= Steps[c.step].rows /\ c.j + TileCols(c) <= Steps[c.step].cols
         /\ TileRows(c) <= c.block /\ TileCols(c) <= c.block
         /\ c.i + TileRows(c) < Steps[c.step].rows => TileRows(c) = c.block
         /\ c.j + TileCols(c) < Steps[c.step].cols => TileCols(c) = c.block
         /\ c.i + TileRows(c) \in Nat /\ c.j + TileCols(c) \in Nat
<1>1. /\ c.block \in Nat \ {0} /\ c.step \in 1 .. 5 /\ c.i \in Nat /\ c.j \in Nat
      /\ c.i < Steps[c.step].rows /\ c.j < Steps[c.step].cols
  BY RunFacts
<1>2. Steps[c.step].rows \in Nat /\ Steps[c.step].cols \in Nat
  BY <1>1, StepFacts
<1>3. PICK b, i, j, rows, cols : b = c.block /\ i = c.i /\ j = c.j
                                 /\ rows = Steps[c.step].rows /\ cols = Steps[c.step].cols
  OBVIOUS
<1>4. b \in Nat \ {0} /\ i \in Nat /\ j \in Nat /\ rows \in Nat /\ cols \in Nat /\ i < rows /\ j < cols
  BY <1>1, <1>2, <1>3
<1>5. PICK m, n : m = rows - i /\ n = cols - j
  OBVIOUS
<1>6. m \in Nat \ {0} /\ n \in Nat \ {0}
  BY <1>4, <1>5
<1>7. PICK bi, bj : bi = Least(b, m) /\ bj = Least(b, n)
  OBVIOUS
<1>8. bi \in Nat \ {0} /\ bi <= b /\ bi <= m /\ (bi < m => bi = b)
  BY <1>4, <1>6, <1>7, LeastFacts
<1>9. bj \in Nat \ {0} /\ bj <= b /\ bj <= n /\ (bj < n => bj = b)
  BY <1>4, <1>6, <1>7, LeastFacts
<1>10. TileRows(c) = bi /\ TileCols(c) = bj
  BY <1>3, <1>5, <1>7 DEF TileRows, TileCols
<1> QED BY <1>3, <1>4, <1>5, <1>8, <1>9, <1>10

LEMMA TransposeTileDoes ==
  ASSUME Sized, TInv, NEW t \in Callers, TransposeTile(t)
  PROVE  /\ Stepped(t) /\ UNCHANGED names
         /\ call[t].pc = "run" /\ Steps[call[t].step].op = "transpose"
         /\ call'[t] = Advanced(call[t], call[t].i + TileRows(call[t]), call[t].j + TileCols(call[t]))
         /\ disk' = [disk EXCEPT ![call[t].file[Steps[call[t].step].dst]] = TileFile(call[t], disk)]
<1>1. PICK c : c = call[t]
  OBVIOUS
<1>2. PICK s : s = Steps[c.step]
  OBVIOUS
<1>3. c \in CallType /\ Placed(c) /\ c.pc = "run" /\ s.op = "transpose" /\ UNCHANGED names
  BY <1>1, <1>2, OfTInv DEF TransposeTile
<1>4. /\ c.step \in 1 .. 5 /\ c.file[s.src] \in Inodes /\ c.file[s.dst] \in Inodes
  BY <1>2, <1>3, RunFacts
<1>5. PICK i, j : i = c.i + TileRows(c) /\ j = c.j + TileCols(c)
  OBVIOUS
<1>6. i \in Nat /\ j \in Nat
  BY <1>3, <1>5, TileFacts
<1>7. Advance(t, i, j)
  BY <1>1, <1>5 DEF TransposeTile, TileRows, TileCols
<1>8. PICK d : d = Advanced(c, i, j)
  OBVIOUS
<1>9. call' = [call EXCEPT ![t] = d]
  BY <1>1, <1>7, <1>8, OfTInv, AdvanceIs
<1>10. d \in CallType /\ Placed(d)
  BY <1>3, <1>6, <1>8, AdvancedFields, AdvancedPlaced
<1>11. /\ call' \in [Callers -> CallType] /\ call'[t] = d
       /\ \A u \in Callers : u # t => call'[u] = call[u]
  BY <1>9, <1>10, OfTInv, CallChanged
<1>12. PICK g : g = TileFile(c, disk)
  OBVIOUS
<1>13. disk' = [disk EXCEPT ![c.file[s.dst]] = g]
  BY <1>1, <1>2, <1>12 DEF TransposeTile, TileFile, TileMoves, TileRows, TileCols, InTile
<1>14. g \in Contents
  <2>1. disk[c.file[s.src]] \in Contents /\ disk[c.file[s.dst]] \in Contents
    BY <1>4, OfTInv
  <2>2. ASSUME NEW x \in Records PROVE TileMoves(c, disk, x) \in Elements
    <3>1. /\ s.rows \in Nat \ {0} /\ s.cols \in Nat \ {0}
          /\ s.rows * s.cols = N /\ s.cols * s.rows = N
      BY <1>2, <1>4, StepFacts
    <3>2. x \div s.rows \in 0 .. s.cols - 1 /\ x % s.rows \in 0 .. s.rows - 1
      BY <3>1, RecordIsCell
    <3>3. (x % s.rows) * s.cols + (x \div s.rows) \in Records
      BY <3>1, <3>2, CellInRecords
    <3>4. /\ disk[c.file[s.src]][(x % s.rows) * s.cols + (x \div s.rows)] \in Elements
          /\ disk[c.file[s.dst]][x] \in Elements
      BY <2>1, <3>3 DEF Contents
    <3> QED BY <1>2, <3>4 DEF TileMoves
  <2> QED BY <1>12, <2>2 DEF Contents, TileFile
<1>15. disk' \in [Inodes -> Contents]
  BY <1>4, <1>13, <1>14, OfTInv
<1>16. Stepped(t)
  BY <1>3, <1>10, <1>11, <1>15, OfTInv DEF Stepped
<1> QED BY <1>1, <1>2, <1>3, <1>5, <1>8, <1>11, <1>12, <1>13, <1>16

(* The rows of a batch. *)
BatchRows(c) == Least(Batch(c.batch, Steps[c.step]), Steps[c.step].rows - c.i)

RowTransforms(c, dk, x) ==
  LET s == Steps[c.step]
  IN  UNION {Shift(dk[c.file[s.src]][(x \div s.cols) * s.cols + q],
                   s.root * (x % s.cols) * q
                     + (IF s.twiddle THEN (x \div s.cols) * (x % s.cols) ELSE 0)) :
             q \in 0 .. s.cols - 1}

(* Record x of the file after the batch. *)
BatchMoves(c, dk, x) ==
  LET s == Steps[c.step]
  IN  IF (x \div s.cols) \in c.i .. c.i + BatchRows(c) - 1
        THEN RowTransforms(c, dk, x) ELSE dk[c.file[s.src]][x]

BatchFile(c, dk) == [x \in Records |-> BatchMoves(c, dk, x)]

(* What the pass reads. *)
Source(c, dk) == dk[c.file[Steps[c.step].src]]

LEMMA BatchFacts ==
  ASSUME Sized, NEW c, c \in CallType, Placed(c), c.pc = "run"
  PROVE  /\ BatchRows(c) \in Nat \ {0} /\ c.i + BatchRows(c) <= Steps[c.step].rows
         /\ c.i + BatchRows(c) \in Nat
<1>1. /\ c.batch \in Nat /\ c.step \in 1 .. 5 /\ c.i \in Nat /\ c.i < Steps[c.step].rows
  BY RunFacts
<1>2. Steps[c.step].rows \in Nat \ {0} /\ Steps[c.step].cols \in Nat \ {0}
  BY <1>1, StepFacts
<1>3. c.batch \div Steps[c.step].cols \in Nat
  BY <1>1, <1>2, DivMod
<1>4. Batch(c.batch, Steps[c.step]) \in Nat \ {0}
  BY <1>2, <1>3 DEF Batch
<1>5. PICK b, i, rows, m : /\ b = Batch(c.batch, Steps[c.step]) /\ i = c.i
                           /\ rows = Steps[c.step].rows /\ m = rows - i
  OBVIOUS
<1>6. b \in Nat \ {0} /\ i \in Nat /\ rows \in Nat /\ m \in Nat \ {0}
  BY <1>1, <1>2, <1>4, <1>5
<1>7. PICK rb : rb = Least(b, m)
  OBVIOUS
<1>8. rb \in Nat \ {0} /\ rb <= m
  BY <1>6, <1>7, LeastFacts
<1>9. BatchRows(c) = rb
  BY <1>5, <1>7 DEF BatchRows
<1> QED BY <1>5, <1>6, <1>8, <1>9

LEMMA RowBatchDoes ==
  ASSUME Sized, TInv, NEW t \in Callers, RowBatch(t)
  PROVE  /\ Stepped(t) /\ UNCHANGED names
         /\ call[t].pc = "run" /\ Steps[call[t].step].op = "fft"
         /\ call'[t] = Advanced(call[t], call[t].i + BatchRows(call[t]), Steps[call[t].step].cols)
         /\ disk' = [disk EXCEPT ![call[t].file[Steps[call[t].step].src]] =
                       BatchFile(call[t], disk)]
<1>1. PICK c : c = call[t]
  OBVIOUS
<1>2. PICK s : s = Steps[c.step]
  OBVIOUS
<1>3. c \in CallType /\ Placed(c) /\ c.pc = "run" /\ s.op = "fft" /\ UNCHANGED names
  BY <1>1, <1>2, OfTInv DEF RowBatch
<1>4. /\ c.step \in 1 .. 5 /\ c.file[s.src] \in Inodes
  BY <1>2, <1>3, RunFacts
<1>5. PICK i, j : i = c.i + BatchRows(c) /\ j = s.cols
  OBVIOUS
<1>6. i \in Nat /\ j \in Nat
  BY <1>2, <1>3, <1>4, <1>5, BatchFacts, StepFacts
<1>7. Advance(t, i, j)
  BY <1>1, <1>2, <1>5 DEF RowBatch, BatchRows
<1>8. PICK d : d = Advanced(c, i, j)
  OBVIOUS
<1>9. call' = [call EXCEPT ![t] = d]
  BY <1>1, <1>7, <1>8, OfTInv, AdvanceIs
<1>10. d \in CallType /\ Placed(d)
  BY <1>3, <1>6, <1>8, AdvancedFields, AdvancedPlaced
<1>11. /\ call' \in [Callers -> CallType] /\ call'[t] = d
       /\ \A u \in Callers : u # t => call'[u] = call[u]
  BY <1>9, <1>10, OfTInv, CallChanged
<1>12. PICK g : g = BatchFile(c, disk)
  OBVIOUS
<1>13. disk' = [disk EXCEPT ![c.file[s.src]] = g]
  <2>1. disk' = [disk EXCEPT ![call[t].file[Steps[call[t].step].src]] =
                   BatchFile(call[t], disk)]
    BY DEF RowBatch, BatchFile, BatchMoves, RowTransforms, BatchRows
  <2> QED BY <1>1, <1>2, <1>12, <2>1
<1>14. g \in Contents
  <2>1. disk[c.file[s.src]] \in Contents
    BY <1>4, OfTInv
  <2>2. ASSUME NEW x \in Records PROVE BatchMoves(c, disk, x) \in Elements
    <3>1. /\ s.rows \in Nat \ {0} /\ s.cols \in Nat \ {0} /\ s.root \in Nat
          /\ s.rows * s.cols = N /\ s.cols * s.rows = N
      BY <1>2, <1>4, StepFacts
    <3>2. x \div s.cols \in 0 .. s.rows - 1 /\ x % s.cols \in 0 .. s.cols - 1
      BY <3>1, RecordIsCell
    <3>3. ASSUME NEW q \in 0 .. s.cols - 1
          PROVE  Shift(disk[c.file[s.src]][(x \div s.cols) * s.cols + q],
                       s.root * (x % s.cols) * q
                         + (IF s.twiddle THEN (x \div s.cols) * (x % s.cols) ELSE 0)) \in Elements
      <4>1. (x \div s.cols) * s.cols + q \in Records
        BY <3>1, <3>2, CellInRecords
      <4>2. disk[c.file[s.src]][(x \div s.cols) * s.cols + q] \in Elements
        BY <2>1, <4>1 DEF Contents
      <4>3. PICK r, m, root : r = x \div s.cols /\ m = x % s.cols /\ root = s.root
        OBVIOUS
      <4>4. r \in Nat /\ m \in Nat /\ root \in Nat /\ q \in Nat
        BY <3>1, <3>2, <4>3
      <4>5. root * m * q \in Nat /\ r * m \in Nat
        BY <4>4
      <4>6. root * m * q + (IF s.twiddle THEN r * m ELSE 0) \in Nat
        BY <4>5
      <4> QED BY <4>2, <4>3, <4>6, ShiftTyped
    <3>4. RowTransforms(c, disk, x) \in Elements
      BY <1>2, <3>3 DEF RowTransforms, Elements
    <3>5. disk[c.file[s.src]][x] \in Elements
      BY <2>1 DEF Contents
    <3> QED BY <1>2, <3>4, <3>5 DEF BatchMoves
  <2> QED BY <1>12, <2>2 DEF Contents, BatchFile
<1>15. disk' \in [Inodes -> Contents]
  BY <1>4, <1>13, <1>14, OfTInv
<1>16. Stepped(t)
  BY <1>3, <1>10, <1>11, <1>15, OfTInv DEF Stepped
<1> QED BY <1>1, <1>2, <1>3, <1>5, <1>8, <1>11, <1>12, <1>13, <1>16

(* A call returns. *)
LEMMA FinishDoes ==
  ASSUME Sized, TInv, NEW t \in Callers, Finish(t)
  PROVE  /\ Stepped(t) /\ UNCHANGED disk
         /\ call[t].pc = "finish" /\ call'[t].pc = "done" /\ call'[t].status = "ok"
         /\ call'[t].kind = call[t].kind /\ call[t].kind \in Kinds
         /\ call[t].file["a"] \in Inodes
         /\ call'[t].out = IF call[t].kind = "extend" THEN Zeros ELSE disk[call[t].file["a"]]
         /\ names' = [nm \in Names |->
                        IF \E slot \in Removed(call[t].kind) : nm = Name(t, call[t].kind, slot)
                          THEN NoFile ELSE names[nm]]
<1>1. PICK c : c = call[t]
  OBVIOUS
<1>2. c \in CallType /\ Placed(c) /\ c.pc = "finish" /\ UNCHANGED disk
  BY <1>1, OfTInv DEF Finish
<1>3. c.kind \in Kinds /\ c.file["a"] \in Inodes
  BY <1>2, OpenedFacts DEF Placed, Running, Slots
<1>4. PICK out : out = IF c.kind = "extend" THEN Zeros ELSE disk[c.file["a"]]
  OBVIOUS
<1>5. out \in Contents
  BY <1>3, <1>4, ZerosTyped, OfTInv
<1>6. PICK c1 : c1 = [c EXCEPT !.pc = "done"]
  OBVIOUS
<1>7. PICK c2 : c2 = [c1 EXCEPT !.status = "ok"]
  OBVIOUS
<1>8. PICK c3 : c3 = [c2 EXCEPT !.step = 1]
  OBVIOUS
<1>9. PICK d : d = [c3 EXCEPT !.out = out]
  OBVIOUS
<1>10. c1 \in CallType /\ c1.pc = "done" /\ c1.kind = c.kind
  BY <1>2, <1>6 DEF CallType
<1>11. c2 \in CallType /\ c2.pc = "done" /\ c2.kind = c.kind /\ c2.status = "ok"
  BY <1>7, <1>10 DEF CallType
<1>12. c3 \in CallType /\ c3.pc = "done" /\ c3.kind = c.kind /\ c3.status = "ok"
  BY <1>8, <1>11 DEF CallType
<1>13. d \in CallType /\ d.pc = "done" /\ d.kind = c.kind /\ d.status = "ok" /\ d.out = out
  BY <1>5, <1>9, <1>12 DEF CallType
<1>14. d = [c EXCEPT !.pc = "done", !.status = "ok", !.step = 1, !.out = out]
  BY <1>6, <1>7, <1>8, <1>9
<1>15. call' = [call EXCEPT ![t] = d]
  BY <1>1, <1>4, <1>14 DEF Finish
<1>16. /\ call' \in [Callers -> CallType] /\ call'[t] = d
       /\ \A u \in Callers : u # t => call'[u] = call[u]
  BY <1>13, <1>15, OfTInv, CallChanged
<1>17. Placed(d)
  BY <1>13, OpenedFacts DEF Placed, Running, Slots
<1>18. names' = [nm \in Names |->
                   IF \E slot \in Removed(c.kind) : nm = Name(t, c.kind, slot)
                     THEN NoFile ELSE names[nm]]
  BY <1>1 DEF Finish
<1>19. names' \in [Names -> Inodes \cup {NoFile}]
  BY <1>18, OfTInv
<1>20. Stepped(t)
  BY <1>2, <1>16, <1>17, <1>19, OfTInv DEF Stepped
<1> QED BY <1>1, <1>2, <1>3, <1>4, <1>13, <1>16, <1>18, <1>20

LEMMA FailDoes ==
  ASSUME Sized, TInv, NEW t \in Callers, Fail(t)
  PROVE  /\ Stepped(t) /\ UNCHANGED <<names, disk>>
         /\ call'[t].pc = "done" /\ call'[t].status = "err"
<1>1. PICK c : c = call[t]
  OBVIOUS
<1>2. c \in CallType /\ UNCHANGED <<names, disk>>
  BY <1>1, OfTInv DEF Fail
<1>3. PICK c1 : c1 = [c EXCEPT !.pc = "done"]
  OBVIOUS
<1>4. PICK c2 : c2 = [c1 EXCEPT !.status = "err"]
  OBVIOUS
<1>5. PICK c3 : c3 = [c2 EXCEPT !.step = 1]
  OBVIOUS
<1>6. PICK c4 : c4 = [c3 EXCEPT !.i = 0]
  OBVIOUS
<1>7. PICK d : d = [c4 EXCEPT !.j = 0]
  OBVIOUS
<1>8. c1 \in CallType /\ c1.pc = "done"
  BY <1>2, <1>3 DEF CallType
<1>9. c2 \in CallType /\ c2.pc = "done" /\ c2.status = "err"
  BY <1>4, <1>8 DEF CallType
<1>10. c3 \in CallType /\ c3.pc = "done" /\ c3.status = "err"
  BY <1>5, <1>9 DEF CallType
<1>11. c4 \in CallType /\ c4.pc = "done" /\ c4.status = "err"
  BY <1>6, <1>10 DEF CallType
<1>12. d \in CallType /\ d.pc = "done" /\ d.status = "err"
  BY <1>7, <1>11 DEF CallType
<1>13. d = [c EXCEPT !.pc = "done", !.status = "err", !.step = 1, !.i = 0, !.j = 0]
  BY <1>3, <1>4, <1>5, <1>6, <1>7
<1>14. call' = [call EXCEPT ![t] = d]
  BY <1>1, <1>13 DEF Fail
<1>15. /\ call' \in [Callers -> CallType] /\ call'[t] = d
       /\ \A u \in Callers : u # t => call'[u] = call[u]
  BY <1>12, <1>14, OfTInv, CallChanged
<1>16. Placed(d)
  BY <1>12, OpenedFacts DEF Placed, Running, Slots
<1>17. Stepped(t)
  BY <1>2, <1>15, <1>16, OfTInv DEF Stepped
<1> QED BY <1>2, <1>12, <1>15, <1>17

LEMMA TypesKept == Sized /\ TInv /\ [Next]_vars => TInv'
<1> SUFFICES ASSUME Sized, TInv, [Next]_vars PROVE TInv'
  OBVIOUS
<1>1. CASE UNCHANGED vars
  BY <1>1 DEF TInv, vars, Placed
<1>2. ASSUME NEW t \in Callers, Call(t) \/ Work(t) \/ Fail(t) PROVE TInv'
  <2>1. CASE Call(t)
    BY <2>1, CallDoes, SteppedTyped
  <2>2. CASE OpenScratch(t)
    BY <2>2, OpenScratchDoes, ScratchDoes, SteppedTyped
  <2>3. CASE WriteInput(t)
    BY <2>3, WriteInputDoes, SteppedTyped
  <2>4. CASE TransposeTile(t)
    BY <2>4, TransposeTileDoes, SteppedTyped
  <2>5. CASE RowBatch(t)
    BY <2>5, RowBatchDoes, SteppedTyped
  <2>6. CASE Finish(t)
    BY <2>6, FinishDoes, SteppedTyped
  <2>7. CASE Fail(t)
    BY <2>7, FailDoes, SteppedTyped
  <2> QED BY <1>2, <2>1, <2>2, <2>3, <2>4, <2>5, <2>6, <2>7 DEF Work
<1> QED BY <1>1, <1>2 DEF Next

LEMMA TypesImplied == Sized /\ TInv => TypeOK
<1> SUFFICES ASSUME Sized, TInv PROVE TypeOK
  OBVIOUS
<1>1. ASSUME NEW d \in Inodes
      PROVE  /\ DOMAIN disk[d] = Records
             /\ \A x \in Records : disk[d][x] \subseteq (Records \X Records \X (0 .. 2))
  <2>1. disk[d] \in Contents
    BY DEF TInv
  <2> QED BY <2>1 DEF Contents, Elements
<1>2. ASSUME NEW t \in Callers
      PROVE  /\ call[t].n \in 0 .. MaxCalls
             /\ call[t].pc \in Slots \cup {"write", "run", "finish", "done"}
             /\ call[t].status \in {"none", "ok", "err"}
             /\ call[t].pc = "run" => /\ call[t].step \in 1 .. Len(Steps)
                                      /\ call[t].i \in 0 .. Steps[call[t].step].rows - 1
                                      /\ call[t].j \in 0 .. Steps[call[t].step].cols - 1
  <2>1. PICK c : c = call[t]
    OBVIOUS
  <2>2. c \in CallType /\ Placed(c)
    BY <2>1, OfTInv
  <2>3. c.n \in 0 .. MaxCalls /\ c.status \in {"none", "ok", "err"} /\ c.pc \in Running \cup {"done"}
    BY <2>2, CallFields
  <2>4. ASSUME c.pc = "run"
        PROVE  /\ c.step \in 1 .. 5 /\ c.i \in 0 .. Steps[c.step].rows - 1
               /\ c.j \in 0 .. Steps[c.step].cols - 1
    <3>1. /\ c.step \in 1 .. 5 /\ c.i \in Nat /\ c.j \in Nat
          /\ c.i < Steps[c.step].rows /\ c.j < Steps[c.step].cols
      BY <2>2, <2>4, RunFacts
    <3>2. Steps[c.step].rows \in Nat /\ Steps[c.step].cols \in Nat
      BY <3>1, StepFacts
    <3>3. PICK i, j, rows, cols : /\ i = c.i /\ j = c.j
                                  /\ rows = Steps[c.step].rows /\ cols = Steps[c.step].cols
      OBVIOUS
    <3>4. i \in 0 .. rows - 1 /\ j \in 0 .. cols - 1
      BY <3>1, <3>2, <3>3
    <3> QED BY <3>1, <3>3, <3>4
  <2> QED BY <2>1, <2>3, <2>4, StepsCount DEF Running
<1> QED BY <1>1, <1>2 DEF TInv, TypeOK

-----------------------------------------------------------------------------
(***************************************************************************)
(* Files: who can reach which.                                             *)
(***************************************************************************)
LEMMA NameInjective ==
  ASSUME OwnDirectories, NEW t \in Callers, NEW u \in Callers,
         NEW kind, NEW other, NEW slot, NEW place,
         Name(t, kind, slot) = Name(u, other, place)
  PROVE  t = u /\ slot = place
<1>1. CASE kind = "extend" /\ slot = "a" /\ other = "extend" /\ place = "a"
  BY <1>1 DEF Name
<1>2. CASE ~(kind = "extend" /\ slot = "a") /\ ~(other = "extend" /\ place = "a")
  BY <1>2 DEF Name, OwnDirectories
<1>3. CASE kind = "extend" /\ slot = "a" /\ ~(other = "extend" /\ place = "a")
  BY <1>3 DEF Name
<1>4. CASE ~(kind = "extend" /\ slot = "a") /\ other = "extend" /\ place = "a"
  BY <1>4 DEF Name
<1> QED BY <1>1, <1>2, <1>3, <1>4

LEMMA InodesDiffer ==
  ASSUME NEW t, NEW u, NEW slot, NEW place, NEW d, NEW e,
         d \in InodesOf(t, slot), e \in InodesOf(u, place), t # u \/ slot # place
  PROVE  d # e
BY DEF InodesOf

(* A step of one caller does not touch the files of another. *)
LeftAlone(u) ==
  /\ call'[u] = call[u]
  /\ \A kind \in Kinds, slot \in Slots : names'[Name(u, kind, slot)] = names[Name(u, kind, slot)]
  /\ \A slot \in Slots : \A d \in InodesOf(u, slot) : disk'[d] = disk[d]

LEMMA Untouched ==
  ASSUME Sized, TInv, NEW u \in Callers, Exact(u), LeftAlone(u)
  PROVE  Exact(u)'
<1>1. PICK c : c = call[u]
  OBVIOUS
<1>2. c \in CallType /\ Placed(c) /\ call'[u] = c
  BY <1>1, OfTInv DEF LeftAlone
<1>3. Opened(c.pc) # {} => c.kind \in Kinds
  <2>1. c.pc \in Running \cup {"done"}
    BY <1>2, CallFields
  <2> QED BY <1>2, <2>1, OpenedFacts DEF Placed, Running
<1>4. Opened(c.pc) \subseteq Slots
  BY DEF Opened
<1>5. \A slot \in Opened(c.pc) :
        /\ names'[Name(u, c.kind, slot)] = names[Name(u, c.kind, slot)]
        /\ c.file[slot] = names[Name(u, c.kind, slot)]
        /\ c.file[slot] \in InodesOf(u, slot)
        /\ disk'[c.file[slot]] = disk[c.file[slot]]
  BY <1>1, <1>3, <1>4 DEF LeftAlone, Exact, Owned
<1>6. Owned(u)'
  BY <1>1, <1>2, <1>5 DEF Owned, LeftAlone, Exact
<1>7. Truncated(u)'
  <2>1. c.pc \in {"b", "c", "write"} => "a" \in Opened(c.pc)
    BY OpenedFacts DEF Slots
  <2> QED BY <1>1, <1>2, <1>5, <2>1 DEF Truncated, Exact
<1>8. Passing(u)'
  <2> SUFFICES ASSUME c.pc = "run" PROVE Passing(u)'
    BY <1>2 DEF Passing
  <2>1. c.step \in 1 .. 5 /\ Opened(c.pc) = Slots
    BY <1>2, RunFacts, OpenedFacts
  <2>2. Steps[c.step].src \in Slots /\ Steps[c.step].dst \in Slots
    BY <2>1, StepFacts
  <2>3. /\ disk'[c.file[Steps[c.step].src]] = disk[c.file[Steps[c.step].src]]
        /\ disk'[c.file[Steps[c.step].dst]] = disk[c.file[Steps[c.step].dst]]
    BY <1>5, <2>1, <2>2
  <2> QED BY <1>1, <1>2, <2>3 DEF Passing, Exact
<1>9. Passed(u)'
  <2>1. c.pc = "finish" => "a" \in Opened(c.pc)
    BY OpenedFacts DEF Slots
  <2> QED BY <1>1, <1>2, <1>5, <2>1 DEF Passed, Exact
<1>10. Returned(u)'
  <2> SUFFICES ASSUME c.status = "ok" PROVE Returned(u)'
    BY <1>2 DEF Returned
  <2>1. /\ c.pc = "done" /\ c.kind \in Kinds
        /\ Result(u) = Transform(c.kind)
        /\ \A slot \in Slots :
             names[Name(u, c.kind, slot)] = NoFile <=> ~(c.kind = "extend" /\ slot = "a")
    BY <1>1 DEF Exact, Returned
  <2>2. \A slot \in Slots : names'[Name(u, c.kind, slot)] = names[Name(u, c.kind, slot)]
    BY <2>1 DEF LeftAlone
  <2>3. Result(u)' = Result(u)
    <3>1. CASE c.kind = "extend"
      <4>1. names[Name(u, c.kind, "a")] # NoFile
        BY <2>1, <3>1 DEF Slots
      <4>2. names[Name(u, c.kind, "a")] \in InodesOf(u, "a") \cup {NoFile}
        BY <2>1 DEF Exact, Owned, Slots
      <4>3. disk'[names[Name(u, c.kind, "a")]] = disk[names[Name(u, c.kind, "a")]]
        BY <4>1, <4>2 DEF LeftAlone, Slots
      <4>4. names'[Name(u, c.kind, "a")] = names[Name(u, c.kind, "a")]
        BY <2>2 DEF Slots
      <4> QED BY <1>1, <1>2, <3>1, <4>3, <4>4 DEF Result
    <3>2. CASE c.kind # "extend"
      BY <1>1, <1>2, <3>2 DEF Result
    <3> QED BY <3>1, <3>2
  <2> QED BY <1>2, <2>1, <2>2, <2>3 DEF Returned
<1> QED BY <1>6, <1>7, <1>8, <1>9, <1>10 DEF Exact

-----------------------------------------------------------------------------
(***************************************************************************)
(* The caller's own files.                                                 *)
(***************************************************************************)

(* Names stay, and no file is opened that was not. *)
LEMMA OwnedKept ==
  ASSUME NEW t \in Callers, Owned(t), UNCHANGED names,
         \/ Opened(call'[t].pc) = {}
         \/ /\ Opened(call'[t].pc) \subseteq Opened(call[t].pc)
            /\ call'[t].kind = call[t].kind /\ call'[t].file = call[t].file
  PROVE  Owned(t)'
BY DEF Owned

LEMMA CoeffOrNot ==
  ASSUME Sized, NEW kind, NEW x \in Records
  PROVE  Stage(kind, 0, x) = IF x \in Coeffs(kind) THEN Input(kind, x) ELSE {}
<1>1. N \in Nat \ {0} /\ x \in Nat
  BY Matrix DEF Records
<1>2. (x * 0) % N = 0
  BY <1>1
<1>3. Stage(kind, 0, x) = Terms(kind, {i \in Coeffs(kind) : i = x}, 0)
  BY DEF Stage
<1>4. CASE x \in Coeffs(kind)
  <2>1. {i \in Coeffs(kind) : i = x} = {x}
    BY <1>4
  <2>2. Terms(kind, {x}, 0) = {<<x, (x * 0) % N, Coset(kind, x)>>}
    BY DEF Terms
  <2> QED BY <1>2, <1>3, <1>4, <2>1, <2>2 DEF Input
<1>5. CASE x \notin Coeffs(kind)
  <2>1. {i \in Coeffs(kind) : i = x} = {}
    BY <1>5
  <2>2. Terms(kind, {}, 0) = {}
    BY DEF Terms
  <2> QED BY <1>3, <1>5, <2>1, <2>2
<1> QED BY <1>4, <1>5

(* A pass is over: what it wrote is what the next one reads. *)
HandedOn(d, dk) ==
  /\ d.pc = "run" => Through(d, dk[d.file[Steps[d.step].src]], dk[d.file[Steps[d.step].dst]])
  /\ d.pc = "finish" => \A x \in Records : dk[d.file["a"]][x] = Stage(d.kind, 5, x)

LEMMA PassOver ==
  ASSUME Sized, NEW c, NEW d, c \in CallType, Placed(c), c.pc = "run", SameCall(c, d),
         d.pc = (IF c.step = 5 THEN "finish" ELSE "run"), d.step = c.step + 1, d.i = 0, d.j = 0,
         NEW dst, NEW dk, dk[c.file[Steps[c.step].dst]] = dst,
         \A x \in Records : dst[x] = Stage(c.kind, c.step, x)
  PROVE  HandedOn(d, dk)
<1>1. c.step \in 1 .. 5
  BY RunFacts
<1>2. CASE c.step = 5
  <2>1. Steps[c.step].dst = "a"
    BY <1>1, <1>2, StepFacts
  <2> QED BY <1>2, <2>1 DEF SameCall, HandedOn
<1>3. CASE c.step # 5
  <2>1. PICK st : st = c.step + 1
    OBVIOUS
  <2>2. st \in 1 .. 5 /\ st - 1 = c.step
    BY <1>1, <1>3, <2>1
  <2>3. d.pc = "run" /\ d.step = st /\ d.file = c.file /\ d.kind = c.kind /\ d.i = 0 /\ d.j = 0
        /\ d.block = c.block
    BY <1>3, <2>1 DEF SameCall
  <2>4. Steps[st].src = Steps[c.step].dst
    BY <1>1, <1>3, <2>1, StepFacts
  <2>5. PICK dst2 : dst2 = dk[d.file[Steps[d.step].dst]]
    OBVIOUS
  <2>6. ASSUME NEW row \in 0 .. Steps[st].rows - 1, NEW col \in 0 .. Steps[st].cols - 1
        PROVE  CellRight(d, dst, dst2, row, col)
    <3>1. /\ Steps[st].rows \in Nat \ {0} /\ Steps[st].cols \in Nat \ {0}
          /\ Steps[st].rows * Steps[st].cols = N
      BY <2>2, StepFacts
    <3>2. row * Steps[st].cols + col \in Records
      BY <3>1, CellInRecords
    <3>3. ~(row < 0) /\ ~(col < 0)
      BY <3>1
    <3>4. ~Reached(d, row, col)
      BY <2>3, <3>3 DEF Reached
    <3> QED BY <2>2, <2>3, <3>2, <3>4 DEF CellRight
  <2> QED BY <2>3, <2>4, <2>5, <2>6 DEF Through, HandedOn
<1> QED BY <1>2, <1>3

-----------------------------------------------------------------------------
(***************************************************************************)
(* A tile.                                                                 *)
(***************************************************************************)

(* A record of dst is the other end of a cell. *)
LEMMA CellOfRecord ==
  ASSUME Sized, NEW st \in 1 .. 5, NEW x \in Records
  PROVE  /\ x \div Steps[st].rows \in 0 .. Steps[st].cols - 1
         /\ x % Steps[st].rows \in 0 .. Steps[st].rows - 1
         /\ (x \div Steps[st].rows) * Steps[st].rows + (x % Steps[st].rows) = x
<1>1. PICK rows, cols : rows = Steps[st].rows /\ cols = Steps[st].cols
  OBVIOUS
<1>2. rows \in Nat \ {0} /\ cols \in Nat \ {0} /\ cols * rows = N
  BY <1>1, StepFacts
<1>3. /\ x \div rows \in 0 .. cols - 1 /\ x % rows \in 0 .. rows - 1
      /\ (x \div rows) * rows + (x % rows) = x
  BY <1>2, RecordIsCell
<1> QED BY <1>1, <1>3

LEMMA TileWrites ==
  ASSUME Sized, NEW c, c \in CallType, Placed(c), c.pc = "run", Steps[c.step].op = "transpose",
         NEW src, NEW dst, NEW new, Through(c, src, dst),
         new = Tiled(c, src, dst),
         NEW row, NEW col, row \in 0 .. Steps[c.step].rows - 1, col \in 0 .. Steps[c.step].cols - 1,
         Reached(c, row, col) \/ InTile(c, row, col)
  PROVE  new[col * Steps[c.step].rows + row] = Stage(c.kind, c.step, col * Steps[c.step].rows + row)
<1>1. c.step \in 1 .. 5
  BY RunFacts
<1>2. PICK rows, cols : rows = Steps[c.step].rows /\ cols = Steps[c.step].cols
  OBVIOUS
<1>3. /\ rows \in Nat \ {0} /\ cols \in Nat \ {0} /\ cols * rows = N /\ c.step \in {1, 3, 5}
  BY <1>1, <1>2, StepFacts
<1>4. row \in 0 .. rows - 1 /\ col \in 0 .. cols - 1 /\ row \in Nat /\ col \in Nat
  BY <1>2, <1>3
<1>5. PICK to : to = col * rows + row
  OBVIOUS
<1>6. to \div rows = col /\ to % rows = row
  BY <1>3, <1>4, <1>5, RowAndColumn
<1>7. to \in Records
  BY <1>3, <1>4, <1>5, CellInRecords
<1>8. new[to] = IF InTile(c, row, col) THEN src[row * cols + col] ELSE dst[to]
  BY <1>2, <1>6, <1>7 DEF Tiled
<1>9. CellRight(c, src, dst, row, col)
  BY DEF Through
<1>10. CASE InTile(c, row, col)
  <2>1. src[row * cols + col] = Stage(c.kind, c.step - 1, row * cols + col)
    BY <1>2, <1>9 DEF CellRight
  <2>2. Stage(c.kind, c.step, to) = Stage(c.kind, c.step - 1, row * cols + col)
    <3>1. MovesOn(c.kind, c.step, row, col)
      BY <1>3, StageOfTranspose
    <3> QED BY <1>2, <1>5, <3>1 DEF MovesOn
  <2> QED BY <1>2, <1>5, <1>8, <1>10, <2>1, <2>2
<1>11. CASE ~InTile(c, row, col)
  <2>1. dst[to] = Stage(c.kind, c.step, to)
    BY <1>2, <1>5, <1>9, <1>11 DEF CellRight
  <2> QED BY <1>2, <1>5, <1>8, <1>11, <2>1
<1> QED BY <1>10, <1>11

LEMMA NextTile ==
  ASSUME Sized, NEW c, c \in CallType, Placed(c), c.pc = "run", Steps[c.step].op = "transpose",
         NEW src, NEW dst, NEW new, Through(c, src, dst),
         new = Tiled(c, src, dst),
         NEW d, d = Advanced(c, c.i + TileRows(c), c.j + TileCols(c)), d.step = c.step
  PROVE  Through(d, src, new)
<1>1. PICK rows, cols, bi, bj :
        /\ rows = Steps[c.step].rows /\ cols = Steps[c.step].cols
        /\ bi = TileRows(c) /\ bj = TileCols(c)
  OBVIOUS
<1>2. /\ c.step \in 1 .. 5 /\ c.i \in Nat /\ c.j \in Nat /\ c.block \in Nat
  BY RunFacts
<1>3. /\ bi \in Nat /\ bj \in Nat /\ c.i + bi <= rows /\ c.j + bj <= cols
      /\ c.i + bi < rows => bi = c.block
      /\ c.i + bi \in Nat /\ c.j + bj \in Nat
  BY <1>1, TileFacts
<1>4. rows \in Nat /\ cols \in Nat
  BY <1>1, <1>2, StepFacts
<1>5. /\ SameCall(c, d)
      /\ c.j + bj < cols => d.i = c.i /\ d.j = c.j + bj
      /\ ~(c.j + bj < cols) /\ c.i + bi < rows => d.i = c.i + bi /\ d.j = 0
      /\ ~(c.j + bj < cols) /\ ~(c.i + bi < rows) => d.step = c.step + 1
  BY <1>1, <1>3, AdvancedFields
<1>6. d.kind = c.kind /\ d.block = c.block
  BY <1>5 DEF SameCall
<1>7. ASSUME NEW row \in 0 .. rows - 1, NEW col \in 0 .. cols - 1 PROVE CellRight(d, src, new, row, col)
  <2>1. Reached(d, row, col) => Reached(c, row, col) \/ InTile(c, row, col)
    <3> SUFFICES ASSUME Reached(d, row, col) PROVE Reached(c, row, col) \/ InTile(c, row, col)
      OBVIOUS
    <3>1. PICK i, j, di, dj, b : i = c.i /\ j = c.j /\ di = d.i /\ dj = d.j /\ b = c.block
      OBVIOUS
    <3>2. /\ i \in Nat /\ j \in Nat /\ b \in Nat /\ i + bi <= rows /\ j + bj <= cols
          /\ i + bi < rows => bi = b
          /\ row \in Nat /\ col \in Nat /\ row < rows /\ col < cols
          /\ bi \in Nat /\ bj \in Nat /\ rows \in Nat /\ cols \in Nat
      BY <1>2, <1>3, <1>4, <3>1
    <3>3. \/ j + bj < cols /\ di = i /\ dj = j + bj
          \/ ~(j + bj < cols) /\ i + bi < rows /\ di = i + bi /\ dj = 0
      <4>1. ~(c.step = c.step + 1)
        BY <1>2
      <4> QED BY <1>5, <3>1, <4>1
    <3>4. row < di \/ (row < di + b /\ col < dj)
      BY <1>6, <3>1 DEF Reached
    <3>5. \/ row < i
          \/ row < i + b /\ col < j
          \/ row \in i .. i + bi - 1 /\ col \in j .. j + bj - 1
      <4>1. CASE j + bj < cols /\ di = i /\ dj = j + bj
        BY <3>2, <3>4, <4>1
      <4>2. CASE ~(j + bj < cols) /\ i + bi < rows /\ di = i + bi /\ dj = 0
        BY <3>2, <3>4, <4>2
      <4> QED BY <3>3, <4>1, <4>2
    <3> QED BY <1>1, <3>1, <3>5 DEF Reached, InTile
  <2>2. Reached(d, row, col) =>
          new[col * rows + row] = Stage(c.kind, c.step, col * rows + row)
    BY <1>1, <2>1, TileWrites
  <2>3. src[row * cols + col] = Stage(c.kind, c.step - 1, row * cols + col)
    BY <1>1 DEF Through, CellRight
  <2> QED BY <1>1, <1>6, <2>2, <2>3 DEF CellRight
<1> QED BY <1>1, <1>7 DEF Through

LEMMA LastTile ==
  ASSUME Sized, NEW c, c \in CallType, Placed(c), c.pc = "run", Steps[c.step].op = "transpose",
         NEW src, NEW dst, NEW new, Through(c, src, dst),
         new = Tiled(c, src, dst),
         ~(c.j + TileCols(c) < Steps[c.step].cols), ~(c.i + TileRows(c) < Steps[c.step].rows)
  PROVE  \A x \in Records : new[x] = Stage(c.kind, c.step, x)
<1> TAKE x \in Records
<1>1. PICK rows, cols, bi, bj, i, j, b :
        /\ rows = Steps[c.step].rows /\ cols = Steps[c.step].cols
        /\ bi = TileRows(c) /\ bj = TileCols(c) /\ i = c.i /\ j = c.j /\ b = c.block
  OBVIOUS
<1>2. c.step \in 1 .. 5 /\ i \in Nat /\ j \in Nat /\ b \in Nat
  BY <1>1, RunFacts
<1>3. /\ bi \in Nat /\ bj \in Nat /\ i + bi <= rows /\ j + bj <= cols
      /\ ~(j + bj < cols) /\ ~(i + bi < rows) /\ bi <= b
  BY <1>1, TileFacts
<1>4. rows \in Nat /\ cols \in Nat
  BY <1>1, <1>2, StepFacts
<1>5. PICK row, col : row = x % rows /\ col = x \div rows
  OBVIOUS
<1>6. row \in 0 .. rows - 1 /\ col \in 0 .. cols - 1 /\ col * rows + row = x
  BY <1>1, <1>2, <1>5, CellOfRecord
<1>7. row < i \/ (row < i + b /\ col < j) \/ (row \in i .. i + bi - 1 /\ col \in j .. j + bj - 1)
  BY <1>2, <1>3, <1>4, <1>6
<1>8. Reached(c, row, col) \/ InTile(c, row, col)
  BY <1>1, <1>7 DEF Reached, InTile
<1>9. new[col * rows + row] = Stage(c.kind, c.step, col * rows + row)
  BY <1>1, <1>6, <1>8, TileWrites
<1> QED BY <1>6, <1>9

-----------------------------------------------------------------------------
(***************************************************************************)
(* A batch of rows.                                                        *)
(***************************************************************************)
AfterBatch(c, new, row, col) ==
  new[row * Steps[c.step].cols + col] =
    Stage(c.kind, IF row < c.i + BatchRows(c) THEN c.step ELSE c.step - 1,
          row * Steps[c.step].cols + col)

LEMMA BatchWrites ==
  ASSUME Sized, NEW c, c \in CallType, Placed(c), c.pc = "run", Steps[c.step].op = "fft",
         NEW dk, NEW f, f = Source(c, dk), Through(c, f, f),
         NEW new, new = BatchFile(c, dk),
         NEW row, NEW col, row \in 0 .. Steps[c.step].rows - 1, col \in 0 .. Steps[c.step].cols - 1
  PROVE  AfterBatch(c, new, row, col)
<1> SUFFICES new[row * Steps[c.step].cols + col] =
               Stage(c.kind, IF row < c.i + BatchRows(c) THEN c.step ELSE c.step - 1,
                     row * Steps[c.step].cols + col)
  BY DEF AfterBatch
<1>1. c.step \in 1 .. 5 /\ c.kind \in {"fft", "extend"} /\ c.i \in Nat
  BY RunFacts
<1>2. PICK rows, cols, i, rb : /\ rows = Steps[c.step].rows /\ cols = Steps[c.step].cols
                               /\ i = c.i /\ rb = BatchRows(c)
  OBVIOUS
<1>3. /\ rows \in Nat \ {0} /\ cols \in Nat \ {0} /\ rows * cols = N
  BY <1>1, <1>2, StepFacts
<1>4. c.step \in {2, 4}
  <2>1. c.step \notin {1, 3, 5}
    BY <1>1, StepFacts
  <2> QED BY <1>1, <2>1
<1>5. row \in 0 .. rows - 1 /\ col \in 0 .. cols - 1 /\ row \in Nat /\ col \in Nat
  BY <1>2, <1>3
<1>6. PICK x : x = row * cols + col
  OBVIOUS
<1>7. x \div cols = row /\ x % cols = col
  BY <1>3, <1>5, <1>6, RowAndColumn
<1>8. x \in Records
  BY <1>3, <1>5, <1>6, CellInRecords
<1>9. rb \in Nat \ {0} /\ i \in Nat
  BY <1>1, <1>2, BatchFacts
<1>10. new[x] = IF row \in i .. i + rb - 1 THEN RowTransforms(c, dk, x) ELSE f[x]
  BY <1>2, <1>7, <1>8 DEF BatchFile, BatchMoves, Source
<1>11. \A q \in 0 .. cols - 1 : CellRight(c, f, f, row, q)
  BY <1>2 DEF Through
<1>12. \A q \in 0 .. cols - 1 : Reached(c, row, q) <=> row < i
  BY <1>2 DEF Reached
<1>13. CASE row < i
  <2>1. f[x] = Stage(c.kind, c.step, x)
    BY <1>2, <1>5, <1>6, <1>11, <1>12, <1>13 DEF CellRight
  <2>2. row \notin i .. i + rb - 1 /\ row < i + rb
    BY <1>5, <1>9, <1>13
  <2> QED BY <1>2, <1>6, <1>10, <2>1, <2>2
<1>14. CASE row \in i .. i + rb - 1
  <2>1. \A q \in 0 .. cols - 1 : f[row * cols + q] = Stage(c.kind, c.step - 1, row * cols + q)
    <3>1. ~(row < i)
      BY <1>9, <1>14
    <3> QED BY <1>2, <1>11, <1>12, <3>1 DEF CellRight
  <2>2. RowTransforms(c, dk, x) =
          UNION {Shift(f[row * cols + q],
                       Steps[c.step].root * col * q
                         + (IF Steps[c.step].twiddle THEN row * col ELSE 0)) :
                 q \in 0 .. cols - 1}
    BY <1>2, <1>7 DEF RowTransforms, Source
  <2>3. RowTransforms(c, dk, x) = Folded(c.kind, c.step, row, col)
    BY <1>2, <2>1, <2>2 DEF Folded
  <2>4. Stage(c.kind, c.step, row * Steps[c.step].cols + col) = Folded(c.kind, c.step, row, col)
    BY <1>1, <1>4, StageOfPass
  <2>5. row < i + rb
    BY <1>5, <1>9, <1>14
  <2> QED BY <1>2, <1>6, <1>10, <1>14, <2>3, <2>4, <2>5
<1>15. CASE ~(row < i) /\ row \notin i .. i + rb - 1
  <2>1. f[x] = Stage(c.kind, c.step - 1, x)
    BY <1>2, <1>5, <1>6, <1>11, <1>12, <1>15 DEF CellRight
  <2>2. ~(row < i + rb)
    BY <1>5, <1>9, <1>15
  <2> QED BY <1>2, <1>6, <1>10, <1>15, <2>1, <2>2
<1> QED BY <1>13, <1>14, <1>15

LEMMA NextBatch ==
  ASSUME Sized, NEW c, c \in CallType, Placed(c), c.pc = "run", Steps[c.step].op = "fft",
         NEW dk, NEW f, f = Source(c, dk), Through(c, f, f),
         NEW new, new = BatchFile(c, dk),
         NEW d, d = Advanced(c, c.i + BatchRows(c), Steps[c.step].cols), d.step = c.step
  PROVE  Through(d, new, new)
<1>1. PICK rows, cols, rb : /\ rows = Steps[c.step].rows /\ cols = Steps[c.step].cols
                            /\ rb = BatchRows(c)
  OBVIOUS
<1>2. c.step \in 1 .. 5 /\ c.i + rb \in Nat
  BY <1>1, RunFacts, BatchFacts
<1>3. rows \in Nat /\ cols \in Nat
  BY <1>1, <1>2, StepFacts
<1>4. ~(cols < cols)
  BY <1>3
<1>5. /\ SameCall(c, d)
      /\ ~(cols < cols) /\ c.i + rb < rows => d.i = c.i + rb
      /\ ~(cols < cols) /\ ~(c.i + rb < rows) => d.step = c.step + 1
  <2>1. PICK i : i = c.i + rb
    OBVIOUS
  <2>2. i \in Nat /\ d = Advanced(c, i, cols)
    BY <1>1, <1>2, <2>1
  <2>3. /\ SameCall(c, d)
        /\ ~(cols < Steps[c.step].cols) /\ i < Steps[c.step].rows => d.i = i
        /\ ~(cols < Steps[c.step].cols) /\ ~(i < Steps[c.step].rows) => d.step = c.step + 1
    BY <1>3, <2>2, AdvancedFields
  <2> QED BY <1>1, <2>1, <2>3
<1>6. d.i = c.i + rb /\ d.kind = c.kind
  <2>1. ~(c.step = c.step + 1)
    BY <1>2
  <2> QED BY <1>4, <1>5, <2>1 DEF SameCall
<1>7. ASSUME NEW row, NEW col, row \in 0 .. rows - 1, col \in 0 .. cols - 1
      PROVE  CellRight(d, new, new, row, col)
  <2>1. Reached(d, row, col) <=> row < c.i + rb
    BY <1>6 DEF Reached
  <2>2. new[row * cols + col] =
          Stage(c.kind, IF row < c.i + rb THEN c.step ELSE c.step - 1, row * cols + col)
    <3>1. row \in 0 .. Steps[c.step].rows - 1 /\ col \in 0 .. Steps[c.step].cols - 1
      BY <1>1, <1>7
    <3>2. AfterBatch(c, new, row, col)
      BY <3>1, BatchWrites
    <3> QED BY <1>1, <3>2 DEF AfterBatch
  <2> QED BY <1>1, <1>6, <2>1, <2>2 DEF CellRight
<1> QED BY <1>1, <1>7 DEF Through

LEMMA LastBatch ==
  ASSUME Sized, NEW c, c \in CallType, Placed(c), c.pc = "run", Steps[c.step].op = "fft",
         NEW dk, NEW f, f = Source(c, dk), Through(c, f, f),
         NEW new, new = BatchFile(c, dk),
         ~(c.i + BatchRows(c) < Steps[c.step].rows)
  PROVE  \A x \in Records : new[x] = Stage(c.kind, c.step, x)
<1> TAKE x \in Records
<1>1. PICK rows, cols, m : /\ rows = Steps[c.step].rows /\ cols = Steps[c.step].cols
                           /\ m = c.i + BatchRows(c)
  OBVIOUS
<1>2. c.step \in 1 .. 5 /\ m \in Nat
  BY <1>1, RunFacts, BatchFacts
<1>3. /\ rows \in Nat \ {0} /\ cols \in Nat \ {0} /\ rows * cols = N
  BY <1>1, <1>2, StepFacts
<1>4. PICK row, col : row = x \div cols /\ col = x % cols
  OBVIOUS
<1>5. row \in 0 .. rows - 1 /\ col \in 0 .. cols - 1 /\ row * cols + col = x
  BY <1>3, <1>4, RecordIsCell
<1>6. row < m
  BY <1>1, <1>2, <1>3, <1>5
<1>7. new[row * cols + col] = Stage(c.kind, c.step, row * cols + col)
  <2>1. row \in 0 .. Steps[c.step].rows - 1 /\ col \in 0 .. Steps[c.step].cols - 1
    BY <1>1, <1>5
  <2>2. AfterBatch(c, new, row, col)
    BY <2>1, BatchWrites
  <2> QED BY <1>1, <1>6, <2>2 DEF AfterBatch
<1> QED BY <1>5, <1>7

-----------------------------------------------------------------------------
(***************************************************************************)
(* The steps.                                                              *)
(***************************************************************************)
OthersAlone(t) == \A u \in Callers : u # t => LeftAlone(u)

(* Only one file of the caller's own changes. *)
LEMMA OwnFileOnly ==
  ASSUME OwnDirectories, NEW t \in Callers, NEW slot, NEW inode, NEW new, inode \in InodesOf(t, slot),
         Stepped(t), UNCHANGED names, disk \in [Inodes -> Contents],
         disk' = [disk EXCEPT ![inode] = new]
  PROVE  OthersAlone(t)
<1> SUFFICES ASSUME NEW u \in Callers, u # t PROVE LeftAlone(u)
  BY DEF OthersAlone
<1>1. \A place \in Slots : \A d \in InodesOf(u, place) : d # inode /\ d \in Inodes
  BY InodesDiffer, InodesOfTyped
<1>2. \A place \in Slots : \A d \in InodesOf(u, place) : disk'[d] = disk[d]
  BY <1>1
<1> QED BY <1>2 DEF LeftAlone, Stepped

LEMMA OwnFile ==
  ASSUME NEW t \in Callers, Exact(t), NEW slot, slot \in Opened(call[t].pc)
  PROVE  call[t].file[slot] \in InodesOf(t, slot)
BY DEF Exact, Owned

LEMMA NotOk ==
  ASSUME NEW t \in Callers, Exact(t), call[t].pc # "done" PROVE call[t].status # "ok"
BY DEF Exact, Returned

LEMMA CallKeeps ==
  ASSUME Sized, TInv, NEW t \in Callers, Exact(t), Call(t)
  PROVE  OthersAlone(t) /\ Exact(t)'
<1>1. /\ Stepped(t) /\ UNCHANGED <<names, disk>>
      /\ call'[t].pc = "a" /\ call'[t].status = "none"
  BY CallDoes
<1>2. OthersAlone(t)
  BY <1>1 DEF OthersAlone, LeftAlone, Stepped
<1>3. Owned(t)'
  BY <1>1, OpenedFacts, OwnedKept DEF Exact
<1> QED BY <1>1, <1>2, <1>3 DEF Exact, Truncated, Passing, Passed, Returned

LEMMA FailKeeps ==
  ASSUME Sized, TInv, NEW t \in Callers, Exact(t), Fail(t)
  PROVE  OthersAlone(t) /\ Exact(t)'
<1>1. /\ Stepped(t) /\ UNCHANGED <<names, disk>>
      /\ call'[t].pc = "done" /\ call'[t].status = "err"
  BY FailDoes
<1>2. OthersAlone(t)
  BY <1>1 DEF OthersAlone, LeftAlone, Stepped
<1>3. Owned(t)'
  BY <1>1, OpenedFacts, OwnedKept DEF Exact
<1> QED BY <1>1, <1>2, <1>3 DEF Exact, Truncated, Passing, Passed, Returned

LEMMA OpenScratchKeeps ==
  ASSUME Sized, OwnDirectories, TInv, NEW t \in Callers, Exact(t), OpenScratch(t)
  PROVE  OthersAlone(t) /\ Exact(t)'
<1>1. PICK slot \in Slots, inode \in Inodes :
        /\ Scratch(t, slot, inode)
        /\ inode = IF names[Name(t, call[t].kind, slot)] = NoFile THEN <<t, call[t].n, slot>>
                   ELSE names[Name(t, call[t].kind, slot)]
  BY OpenScratchDoes
<1>2. PICK c : c = call[t]
  OBVIOUS
<1>3. PICK d : d = call'[t]
  OBVIOUS
<1>4. /\ Stepped(t)
      /\ c.pc = slot /\ d.pc = AfterOpen(slot) /\ d.kind = c.kind
      /\ d.file = [c.file EXCEPT ![slot] = inode] /\ d.n = c.n
      /\ d.status = c.status /\ c.kind \in Kinds
      /\ names' = [names EXCEPT ![Name(t, c.kind, slot)] = inode]
      /\ disk' = [disk EXCEPT ![inode] = Zeros]
  BY <1>1, <1>2, <1>3, ScratchDoes
<1>5. /\ c \in CallType /\ Placed(c) /\ names \in [Names -> Inodes \cup {NoFile}]
      /\ disk \in [Inodes -> Contents] /\ c.file \in [Slots -> Inodes \cup {NoFile}]
  BY <1>2, OfTInv, CallFields
<1>6. inode \in InodesOf(t, slot)
  <2>1. c.n \in 1 .. MaxCalls
    <3>1. c.n # 0 /\ c.n \in 0 .. MaxCalls
      BY <1>4, <1>5, CallFields DEF Placed, Running
    <3> QED BY <3>1 DEF Sized
  <2>2. <<t, c.n, slot>> \in InodesOf(t, slot)
    BY <2>1 DEF InodesOf
  <2>3. names[Name(t, c.kind, slot)] \in InodesOf(t, slot) \cup {NoFile}
    BY <1>2, <1>4 DEF Exact, Owned
  <2> QED BY <1>1, <1>2, <2>2, <2>3
<1>7. OthersAlone(t)
  <2> SUFFICES ASSUME NEW u \in Callers, u # t PROVE LeftAlone(u)
    BY DEF OthersAlone
  <2>1. \A place \in Slots : \A e \in InodesOf(u, place) : e # inode /\ e \in Inodes
    BY <1>6, InodesDiffer, InodesOfTyped
  <2>2. \A place \in Slots : \A e \in InodesOf(u, place) : disk'[e] = disk[e]
    BY <1>4, <1>5, <2>1
  <2>3. \A kind \in Kinds, place \in Slots : Name(u, kind, place) # Name(t, c.kind, slot)
    BY NameInjective
  <2>4. \A kind \in Kinds, place \in Slots :
          names'[Name(u, kind, place)] = names[Name(u, kind, place)]
    BY <1>4, <1>5, <2>3, NameTyped
  <2> QED BY <1>4, <2>2, <2>4 DEF LeftAlone, Stepped
<1>8. ASSUME NEW kind \in Kinds, NEW place \in Slots
      PROVE  names'[Name(t, kind, place)] =
               IF Name(t, kind, place) = Name(t, c.kind, slot) THEN inode
               ELSE names[Name(t, kind, place)]
  BY <1>4, <1>5, NameTyped
<1>9. ASSUME NEW kind \in Kinds, NEW place \in Slots
      PROVE  names'[Name(t, kind, place)] \in InodesOf(t, place) \cup {NoFile}
  <2>1. CASE Name(t, kind, place) = Name(t, c.kind, slot)
    <3>1. place = slot
      BY <2>1, NameInjective
    <3> QED BY <1>6, <1>8, <2>1, <3>1
  <2>2. CASE Name(t, kind, place) # Name(t, c.kind, slot)
    BY <1>8, <2>2 DEF Exact, Owned
  <2> QED BY <2>1, <2>2
<1>10. ASSUME NEW place \in Opened(d.pc)
       PROVE  /\ place \in Slots
              /\ d.file[place] = names'[Name(t, d.kind, place)]
              /\ d.file[place] \in InodesOf(t, place)
  <2>1. place \in Slots
    BY DEF Opened
  <2>2. CASE place = slot
    BY <1>4, <1>5, <1>6, <1>8, <2>1, <2>2
  <2>3. CASE place # slot
    <3>1. place \in Opened(c.pc)
      BY <1>4, <2>3, OpenedFacts, AfterOpenFacts DEF Slots
    <3>2. c.file[place] = names[Name(t, c.kind, place)] /\ c.file[place] \in InodesOf(t, place)
      BY <1>2, <3>1 DEF Exact, Owned
    <3>3. Name(t, c.kind, place) # Name(t, c.kind, slot)
      BY <2>3, NameInjective
    <3>4. names'[Name(t, c.kind, place)] = names[Name(t, c.kind, place)]
      BY <1>4, <1>8, <2>1, <3>3
    <3>5. d.file[place] = c.file[place]
      BY <1>4, <1>5, <2>1, <2>3
    <3> QED BY <1>4, <2>1, <3>2, <3>4, <3>5
  <2> QED BY <2>2, <2>3
<1>11. Owned(t)'
  BY <1>3, <1>9, <1>10 DEF Owned
<1>12. Truncated(t)'
  <2> SUFFICES disk'[d.file["a"]] = Zeros
    BY <1>3 DEF Truncated
  <2>1. CASE slot = "a"
    <3>1. d.file["a"] = inode
      BY <1>4, <1>5, <2>1
    <3> QED BY <1>4, <1>5, <3>1
  <2>2. CASE slot # "a"
    <3>1. "a" \in Opened(c.pc) /\ c.pc \in {"b", "c"} /\ "a" \in Slots
      BY <1>4, <2>2, OpenedFacts DEF Slots
    <3>2. disk[c.file["a"]] = Zeros
      BY <1>2, <3>1 DEF Exact, Truncated
    <3>3. c.file["a"] \in InodesOf(t, "a")
      BY <1>2, <3>1, OwnFile
    <3>4. c.file["a"] # inode /\ c.file["a"] \in Inodes
      BY <1>6, <2>2, <3>1, <3>3, InodesDiffer, InodesOfTyped
    <3>5. d.file["a"] = c.file["a"]
      BY <1>4, <1>5, <2>2, <3>1
    <3> QED BY <1>4, <1>5, <3>2, <3>4, <3>5
  <2> QED BY <2>1, <2>2
<1>13. d.pc \in {"b", "c", "write"}
  BY <1>4, AfterOpenFacts DEF Slots
<1>14. d.status # "ok"
  BY <1>2, <1>4, NotOk DEF Slots
<1> QED BY <1>3, <1>7, <1>11, <1>12, <1>13, <1>14 DEF Exact, Passing, Passed, Returned

LEMMA WriteInputKeeps ==
  ASSUME Sized, OwnDirectories, TInv, NEW t \in Callers, Exact(t), WriteInput(t)
  PROVE  OthersAlone(t) /\ Exact(t)'
<1>1. PICK c : c = call[t]
  OBVIOUS
<1>2. PICK d : d = call'[t]
  OBVIOUS
<1>3. PICK g : g = [x \in Records |-> IF x \in Coeffs(c.kind) THEN Input(c.kind, x)
                                      ELSE disk[c.file["a"]][x]]
  OBVIOUS
<1>4. /\ Stepped(t) /\ UNCHANGED names
      /\ c.pc = "write" /\ d.pc = "run" /\ SameCall(c, d)
      /\ d.step = 1 /\ d.i = 0 /\ d.j = 0
      /\ c.kind \in Kinds /\ c.file["a"] \in Inodes
      /\ disk' = [disk EXCEPT ![c.file["a"]] = g]
  BY <1>1, <1>2, <1>3, WriteInputDoes
<1>5. c \in CallType /\ disk \in [Inodes -> Contents]
  BY <1>1, OfTInv
<1>6. Opened(c.pc) = Slots /\ Opened(d.pc) = Slots /\ "a" \in Slots
  BY <1>4, OpenedFacts DEF Slots
<1>7. c.file["a"] \in InodesOf(t, "a")
  BY <1>1, <1>6, OwnFile
<1>8. OthersAlone(t)
  BY <1>4, <1>5, <1>7, OwnFileOnly
<1>9. Owned(t)'
  BY <1>1, <1>2, <1>4, <1>6, OwnedKept DEF Exact, SameCall
<1>10. \A x \in Records : g[x] = Stage(c.kind, 0, x)
  <2> TAKE x \in Records
  <2>1. disk[c.file["a"]] = Zeros
    BY <1>1, <1>4 DEF Exact, Truncated
  <2>2. disk[c.file["a"]][x] = {}
    BY <2>1 DEF Zeros
  <2> QED BY <1>3, <2>2, CoeffOrNot
<1>11. disk'[c.file["a"]] = g
  BY <1>4, <1>5
<1>12. Passing(t)'
  <2>1. PICK dst : dst = disk'[d.file[Steps[d.step].dst]]
    OBVIOUS
  <2>2. Steps[1].src = "a" /\ Steps[1].rows \in Nat \ {0} /\ Steps[1].cols \in Nat \ {0}
        /\ Steps[1].rows * Steps[1].cols = N
    BY StepFacts
  <2>3. ASSUME NEW row \in 0 .. Steps[1].rows - 1, NEW col \in 0 .. Steps[1].cols - 1
        PROVE  CellRight(d, g, dst, row, col)
    <3>1. row * Steps[1].cols + col \in Records
      BY <2>2, CellInRecords
    <3>2. ~(row < 0) /\ ~(col < 0)
      BY <2>2
    <3>3. ~Reached(d, row, col)
      BY <1>4, <3>2 DEF Reached
    <3>4. d.kind = c.kind
      BY <1>4 DEF SameCall
    <3> QED BY <1>4, <1>10, <3>1, <3>3, <3>4 DEF CellRight
  <2>4. Through(d, g, dst)
    BY <1>4, <2>3 DEF Through
  <2>5. d.file = c.file
    BY <1>4 DEF SameCall
  <2> QED BY <1>2, <1>4, <1>11, <2>1, <2>2, <2>4, <2>5 DEF Passing
<1>13. d.status # "ok"
  BY <1>1, <1>4, NotOk DEF SameCall
<1> QED BY <1>2, <1>4, <1>8, <1>9, <1>12, <1>13 DEF Exact, Truncated, Passed, Returned

LEMMA TransposeTileKeeps ==
  ASSUME Sized, OwnDirectories, TInv, NEW t \in Callers, Exact(t), TransposeTile(t)
  PROVE  OthersAlone(t) /\ Exact(t)'
<1>1. PICK c : c = call[t]
  OBVIOUS
<1>2. PICK d : d = call'[t]
  OBVIOUS
<1>3. PICK src, dst : src = c.file[Steps[c.step].src] /\ dst = c.file[Steps[c.step].dst]
  OBVIOUS
<1>4. PICK g : g = TileFile(c, disk)
  OBVIOUS
<1>5. /\ Stepped(t) /\ UNCHANGED names
      /\ c.pc = "run" /\ Steps[c.step].op = "transpose"
      /\ d = Advanced(c, c.i + TileRows(c), c.j + TileCols(c))
      /\ disk' = [disk EXCEPT ![dst] = g]
  BY <1>1, <1>2, <1>3, <1>4, TransposeTileDoes
<1>6. c \in CallType /\ Placed(c) /\ disk \in [Inodes -> Contents]
  BY <1>1, OfTInv
<1>7. c.step \in 1 .. 5 /\ src \in Inodes /\ dst \in Inodes /\ Opened(c.pc) = Slots
  BY <1>3, <1>5, <1>6, RunFacts, OpenedFacts
<1>8. Steps[c.step].src \in Slots /\ Steps[c.step].dst \in Slots /\ Steps[c.step].src # Steps[c.step].dst
  BY <1>5, <1>7, StepFacts
<1>9. src \in InodesOf(t, Steps[c.step].src) /\ dst \in InodesOf(t, Steps[c.step].dst)
  BY <1>1, <1>3, <1>7, <1>8, OwnFile
<1>10. src # dst
  BY <1>8, <1>9, InodesDiffer
<1>11. disk'[src] = disk[src] /\ disk'[dst] = g
  BY <1>5, <1>6, <1>7, <1>10
<1>12. OthersAlone(t)
  BY <1>5, <1>6, <1>9, OwnFileOnly
<1>13. PICK i, j : i = c.i + TileRows(c) /\ j = c.j + TileCols(c)
  OBVIOUS
<1>14. i \in Nat /\ j \in Nat /\ d = Advanced(c, i, j)
  BY <1>5, <1>6, <1>13, TileFacts
<1>15. /\ SameCall(c, d)
       /\ j < Steps[c.step].cols => d.pc = "run" /\ d.step = c.step
       /\ ~(j < Steps[c.step].cols) /\ i < Steps[c.step].rows => d.pc = "run" /\ d.step = c.step
       /\ ~(j < Steps[c.step].cols) /\ ~(i < Steps[c.step].rows) =>
            /\ d.pc = (IF c.step = 5 THEN "finish" ELSE "run")
            /\ d.step = c.step + 1 /\ d.i = 0 /\ d.j = 0
  BY <1>5, <1>6, <1>14, AdvancedFields
<1>16. Owned(t)'
  <2>1. Opened(d.pc) \subseteq Slots
    BY DEF Opened
  <2> QED BY <1>1, <1>2, <1>5, <1>7, <1>15, <2>1, OwnedKept DEF Exact, SameCall
<1>17. Through(c, disk[src], disk[dst])
  BY <1>1, <1>3, <1>5 DEF Exact, Passing
<1>18. g = Tiled(c, disk[src], disk[dst])
  BY <1>3, <1>4 DEF TileFile, TileMoves, Tiled
<1>19. Passing(t)' /\ Passed(t)'
  <2>1. CASE d.pc = "run" /\ d.step = c.step
    <3>1. Through(d, disk[src], g)
      BY <1>5, <1>6, <1>17, <1>18, <2>1, NextTile
    <3>2. d.file[Steps[d.step].src] = src /\ d.file[Steps[d.step].dst] = dst
      BY <1>3, <1>15, <2>1 DEF SameCall
    <3> QED BY <1>2, <1>11, <2>1, <3>1, <3>2 DEF Passing, Passed
  <2>2. CASE ~(j < Steps[c.step].cols) /\ ~(i < Steps[c.step].rows)
    <3>1. \A x \in Records : g[x] = Stage(c.kind, c.step, x)
      BY <1>5, <1>6, <1>13, <1>17, <1>18, <2>2, LastTile
    <3>2. /\ d.pc = (IF c.step = 5 THEN "finish" ELSE "run")
          /\ d.step = c.step + 1 /\ d.i = 0 /\ d.j = 0
      BY <1>15, <2>2
    <3>3. PICK dk : dk = disk'
      OBVIOUS
    <3>4. dk[c.file[Steps[c.step].dst]] = g
      BY <1>3, <1>11, <3>3
    <3>5. HandedOn(d, dk)
      BY <1>5, <1>6, <1>15, <3>1, <3>2, <3>4, PassOver
    <3> QED BY <1>2, <3>3, <3>5 DEF Passing, Passed, HandedOn
  <2> QED BY <1>15, <2>1, <2>2
<1>20. d.status # "ok"
  BY <1>1, <1>5, <1>15, NotOk DEF SameCall
<1>21. d.pc \in {"run", "finish"}
  BY <1>15
<1> QED BY <1>2, <1>12, <1>16, <1>19, <1>20, <1>21 DEF Exact, Truncated, Returned

LEMMA RowBatchKeeps ==
  ASSUME Sized, OwnDirectories, TInv, NEW t \in Callers, Exact(t), RowBatch(t)
  PROVE  OthersAlone(t) /\ Exact(t)'
<1>1. PICK c : c = call[t]
  OBVIOUS
<1>2. PICK d : d = call'[t]
  OBVIOUS
<1>3. PICK src : src = c.file[Steps[c.step].src]
  OBVIOUS
<1>4. PICK g : g = BatchFile(c, disk)
  OBVIOUS
<1>5. /\ Stepped(t) /\ UNCHANGED names
      /\ c.pc = "run" /\ Steps[c.step].op = "fft"
      /\ d = Advanced(c, c.i + BatchRows(c), Steps[c.step].cols)
      /\ disk' = [disk EXCEPT ![src] = g]
  BY <1>1, <1>2, <1>3, <1>4, RowBatchDoes
<1>6. c \in CallType /\ Placed(c) /\ disk \in [Inodes -> Contents]
  BY <1>1, OfTInv
<1>7. c.step \in 1 .. 5 /\ src \in Inodes /\ Opened(c.pc) = Slots
  BY <1>3, <1>5, <1>6, RunFacts, OpenedFacts
<1>8. Steps[c.step].src \in Slots /\ Steps[c.step].dst = Steps[c.step].src
  BY <1>5, <1>7, StepFacts
<1>9. src \in InodesOf(t, Steps[c.step].src)
  BY <1>1, <1>3, <1>7, <1>8, OwnFile
<1>10. disk'[src] = g
  BY <1>5, <1>6, <1>7
<1>11. OthersAlone(t)
  BY <1>5, <1>6, <1>9, OwnFileOnly
<1>12. PICK i, j : i = c.i + BatchRows(c) /\ j = Steps[c.step].cols
  OBVIOUS
<1>13. i \in Nat /\ j \in Nat /\ d = Advanced(c, i, j)
  <2>1. i \in Nat
    BY <1>5, <1>6, <1>12, BatchFacts
  <2>2. j \in Nat
    BY <1>7, <1>12, StepFacts
  <2> QED BY <1>5, <1>12, <2>1, <2>2
<1>14. ~(j < Steps[c.step].cols)
  BY <1>12, <1>13
<1>15. /\ SameCall(c, d)
       /\ ~(j < Steps[c.step].cols) /\ i < Steps[c.step].rows => d.pc = "run" /\ d.step = c.step
       /\ ~(j < Steps[c.step].cols) /\ ~(i < Steps[c.step].rows) =>
            /\ d.pc = (IF c.step = 5 THEN "finish" ELSE "run")
            /\ d.step = c.step + 1 /\ d.i = 0 /\ d.j = 0
  BY <1>5, <1>6, <1>13, AdvancedFields
<1>16. Owned(t)'
  <2>1. Opened(d.pc) \subseteq Slots
    BY DEF Opened
  <2> QED BY <1>1, <1>2, <1>5, <1>7, <1>15, <2>1, OwnedKept DEF Exact, SameCall
<1>17. PICK f : f = disk[src]
  OBVIOUS
<1>18. Through(c, f, f) /\ f = Source(c, disk)
  BY <1>1, <1>3, <1>5, <1>8, <1>17 DEF Exact, Passing, Source
<1>19. Passing(t)' /\ Passed(t)'
  <2>1. CASE d.pc = "run" /\ d.step = c.step
    <3>1. Through(d, g, g)
      BY <1>4, <1>5, <1>6, <1>18, <2>1, NextBatch
    <3>2. d.file[Steps[d.step].src] = src /\ d.file[Steps[d.step].dst] = src
      BY <1>3, <1>8, <1>15, <2>1 DEF SameCall
    <3> QED BY <1>2, <1>10, <2>1, <3>1, <3>2 DEF Passing, Passed
  <2>2. CASE ~(i < Steps[c.step].rows)
    <3>1. \A x \in Records : g[x] = Stage(c.kind, c.step, x)
      BY <1>4, <1>5, <1>6, <1>12, <1>18, <2>2, LastBatch
    <3>2. /\ d.pc = (IF c.step = 5 THEN "finish" ELSE "run")
          /\ d.step = c.step + 1 /\ d.i = 0 /\ d.j = 0
      BY <1>14, <1>15, <2>2
    <3>3. PICK dk : dk = disk'
      OBVIOUS
    <3>4. dk[c.file[Steps[c.step].dst]] = g
      BY <1>3, <1>8, <1>10, <3>3
    <3>5. HandedOn(d, dk)
      BY <1>5, <1>6, <1>15, <3>1, <3>2, <3>4, PassOver
    <3> QED BY <1>2, <3>3, <3>5 DEF Passing, Passed, HandedOn
  <2> QED BY <1>14, <1>15, <2>1, <2>2
<1>20. d.status # "ok"
  BY <1>1, <1>5, <1>15, NotOk DEF SameCall
<1>21. d.pc \in {"run", "finish"}
  BY <1>14, <1>15
<1> QED BY <1>2, <1>11, <1>16, <1>19, <1>20, <1>21 DEF Exact, Truncated, Returned

LEMMA LastStage ==
  ASSUME NEW kind, NEW f, f \in Contents, \A x \in Records : f[x] = Stage(kind, 5, x)
  PROVE  f = Transform(kind)
<1>1. \A x \in Records : f[x] = Terms(kind, Coeffs(kind), x)
  BY DEF Stage
<1> QED BY <1>1 DEF Transform, Contents

LEMMA FinishKeeps ==
  ASSUME Sized, OwnDirectories, TInv, NEW t \in Callers, Exact(t), Finish(t)
  PROVE  OthersAlone(t) /\ Exact(t)'
<1>1. PICK c : c = call[t]
  OBVIOUS
<1>2. PICK d : d = call'[t]
  OBVIOUS
<1>3. /\ Stepped(t) /\ UNCHANGED disk
      /\ c.pc = "finish" /\ d.pc = "done" /\ d.status = "ok"
      /\ d.kind = c.kind /\ c.kind \in Kinds /\ c.file["a"] \in Inodes
      /\ d.out = IF c.kind = "extend" THEN Zeros ELSE disk[c.file["a"]]
      /\ names' = [nm \in Names |->
                     IF \E slot \in Removed(c.kind) : nm = Name(t, c.kind, slot)
                       THEN NoFile ELSE names[nm]]
  BY <1>1, <1>2, FinishDoes
<1>4. disk \in [Inodes -> Contents] /\ names \in [Names -> Inodes \cup {NoFile}]
  BY OfTInv
<1>5. ASSUME NEW u \in Callers, NEW kind \in Kinds, NEW place \in Slots
      PROVE  names'[Name(u, kind, place)] =
               IF \E slot \in Removed(c.kind) : Name(u, kind, place) = Name(t, c.kind, slot)
                 THEN NoFile ELSE names[Name(u, kind, place)]
  BY <1>3, NameTyped
<1>6. OthersAlone(t)
  <2> SUFFICES ASSUME NEW u \in Callers, u # t PROVE LeftAlone(u)
    BY DEF OthersAlone
  <2>1. \A kind \in Kinds, place \in Slots, slot \in Removed(c.kind) :
          Name(u, kind, place) # Name(t, c.kind, slot)
    BY NameInjective
  <2> QED BY <1>3, <1>5, <2>1 DEF LeftAlone, Stepped
<1>7. Owned(t)'
  BY <1>2, <1>3, <1>5, OpenedFacts DEF Exact, Owned
<1>8. /\ c.file["a"] = names[Name(t, c.kind, "a")] /\ c.file["a"] \in Inodes /\ "a" \in Slots
  <2>1. "a" \in Opened(c.pc)
    BY <1>3, OpenedFacts DEF Slots
  <2> QED BY <1>1, <1>3, <2>1 DEF Exact, Owned, Slots
<1>9. disk[c.file["a"]] = Transform(c.kind)
  <2>1. \A x \in Records : disk[c.file["a"]][x] = Stage(c.kind, 5, x)
    BY <1>1, <1>3 DEF Exact, Passed
  <2>2. disk[c.file["a"]] \in Contents
    BY <1>4, <1>8
  <2> QED BY <2>1, <2>2, LastStage
<1>10. \A slot \in Slots :
         names'[Name(t, c.kind, slot)] = IF slot \in Removed(c.kind) THEN NoFile
                                         ELSE names[Name(t, c.kind, slot)]
  <2> TAKE slot \in Slots
  <2>1. CASE slot \in Removed(c.kind)
    BY <1>3, <1>5, <2>1
  <2>2. CASE slot \notin Removed(c.kind)
    <3>1. \A place \in Removed(c.kind) : Name(t, c.kind, slot) # Name(t, c.kind, place)
      BY <2>2, NameInjective
    <3> QED BY <1>3, <1>5, <2>2, <3>1
  <2> QED BY <2>1, <2>2
<1>11. c.kind \in {"fft", "extend"}
  BY <1>3 DEF Sized
<1>12. \A slot \in Slots :
         names'[Name(t, c.kind, slot)] = NoFile <=> ~(c.kind = "extend" /\ slot = "a")
  <2>1. CASE c.kind = "extend"
    <3>1. Removed(c.kind) = {"b", "c"}
      BY <2>1 DEF Removed
    <3>2. c.file["a"] # NoFile
      BY <1>8, NotNoFile
    <3> QED BY <1>8, <1>10, <2>1, <3>1, <3>2 DEF Slots
  <2>2. CASE c.kind # "extend"
    <3>1. Removed(c.kind) = Slots
      BY <2>2 DEF Removed
    <3> QED BY <1>10, <2>2, <3>1
  <2> QED BY <2>1, <2>2
<1>13. Result(t)' = Transform(c.kind)
  <2>1. CASE c.kind = "extend"
    <3>1. Removed(c.kind) = {"b", "c"}
      BY <2>1 DEF Removed
    <3>2. names'[Name(t, c.kind, "a")] = c.file["a"]
      BY <1>8, <1>10, <3>1
    <3> QED BY <1>2, <1>3, <1>9, <2>1, <3>2 DEF Result
  <2>2. CASE c.kind # "extend"
    BY <1>2, <1>3, <1>9, <2>2 DEF Result
  <2> QED BY <2>1, <2>2
<1>14. Returned(t)'
  BY <1>2, <1>3, <1>12, <1>13 DEF Returned
<1> QED BY <1>2, <1>3, <1>6, <1>7, <1>14 DEF Exact, Truncated, Passing, Passed

-----------------------------------------------------------------------------
(***************************************************************************)
(* The invariant and the theorems.                                         *)
(***************************************************************************)
LEMMA ExactAtFirst == Sized /\ Init => \A t \in Callers : Exact(t)
<1> SUFFICES ASSUME Sized, Init, NEW t \in Callers PROVE Exact(t)
  OBVIOUS
<1>1. call[t].pc = "done" /\ call[t].status = "none"
  BY DEF Init, NotCalled
<1>2. Owned(t)
  BY <1>1, OpenedFacts, NameTyped DEF Init, Owned
<1> QED BY <1>1, <1>2 DEF Exact, Truncated, Passing, Passed, Returned

LEMMA ExactKept ==
  ASSUME Sized, OwnDirectories, EInv, [Next]_vars PROVE \A t \in Callers : Exact(t)'
<1>1. CASE UNCHANGED vars
  <2> SUFFICES ASSUME NEW t \in Callers PROVE Exact(t)'
    OBVIOUS
  <2>1. LeftAlone(t)
    BY <1>1 DEF LeftAlone, vars
  <2> QED BY <2>1, Untouched DEF EInv
<1>2. ASSUME NEW t \in Callers, Call(t) \/ Work(t) \/ Fail(t)
      PROVE  \A u \in Callers : Exact(u)'
  <2>1. TInv /\ \A u \in Callers : Exact(u)
    BY DEF EInv
  <2>2. OthersAlone(t) /\ Exact(t)'
    <3>1. CASE Call(t)
      BY <2>1, <3>1, CallKeeps
    <3>2. CASE OpenScratch(t)
      BY <2>1, <3>2, OpenScratchKeeps
    <3>3. CASE WriteInput(t)
      BY <2>1, <3>3, WriteInputKeeps
    <3>4. CASE TransposeTile(t)
      BY <2>1, <3>4, TransposeTileKeeps
    <3>5. CASE RowBatch(t)
      BY <2>1, <3>5, RowBatchKeeps
    <3>6. CASE Finish(t)
      BY <2>1, <3>6, FinishKeeps
    <3>7. CASE Fail(t)
      BY <2>1, <3>7, FailKeeps
    <3> QED BY <1>2, <3>1, <3>2, <3>3, <3>4, <3>5, <3>6, <3>7 DEF Work
  <2>3. ASSUME NEW u \in Callers, u # t PROVE Exact(u)'
    <3>1. LeftAlone(u)
      BY <2>2, <2>3 DEF OthersAlone
    <3> QED BY <2>1, <3>1, Untouched
  <2> QED BY <2>2, <2>3
<1> QED BY <1>1, <1>2 DEF Next

THEOREM TypesInvariant == Sized => (Spec => []TInv)
<1> SUFFICES ASSUME Sized PROVE Spec => []TInv
  OBVIOUS
<1>1. Init => TInv
  BY TypesAtFirst
<1>2. TInv /\ [Next]_vars => TInv'
  BY TypesKept
<1> QED BY <1>1, <1>2, PTL DEF Spec

(* Every reachable state of the transform is well typed: sizes, places in a
   pass and open files (fft.rs), for every log_n, tile and batch and however
   many callers share whichever directories. *)
THEOREM TypeCorrect == Sized => (Spec => []TypeOK)
<1> SUFFICES ASSUME Sized PROVE Spec => []TypeOK
  OBVIOUS
<1>1. TInv => TypeOK
  BY TypesImplied
<1>2. Spec => []TInv
  BY TypesInvariant
<1> QED BY <1>1, <1>2, PTL

THEOREM Invariance == Sized /\ OwnDirectories => (Spec => []EInv)
<1> SUFFICES ASSUME Sized, OwnDirectories PROVE Spec => []EInv
  OBVIOUS
<1>1. Init => EInv
  BY TypesAtFirst, ExactAtFirst DEF EInv
<1>2. EInv /\ [Next]_vars => EInv'
  <2> SUFFICES ASSUME EInv, [Next]_vars PROVE EInv'
    OBVIOUS
  <2>1. TInv'
    BY TypesKept DEF EInv
  <2> QED BY <2>1, ExactKept DEF EInv
<1> QED BY <1>1, <1>2, PTL DEF Spec

LEMMA ExactImplied == EInv => TransformExact /\ ScratchRemoved
<1> SUFFICES ASSUME EInv PROVE TransformExact /\ ScratchRemoved
  OBVIOUS
<1>1. StageExact
  BY DEF EInv, Exact, StageExact
<1> QED BY <1>1 DEF EInv, Exact, Returned, TransformExact, ScratchRemoved

(* A call of four_step_ooc or coeff_to_extended_ooc that reports success has
   computed exactly best_fft of the padded input, and in the middle of every
   pass what is written is right and what is still to be read is untouched,
   for every log_n, tile and batch, whatever calls that failed have left
   behind, as long as callers do not share a directory; and its scratch files
   are gone. *)
THEOREM TransformAlwaysExact == Sized /\ OwnDirectories => (Spec => []TransformExact)
<1> SUFFICES ASSUME Sized, OwnDirectories PROVE Spec => []TransformExact
  OBVIOUS
<1>1. EInv => TransformExact
  BY ExactImplied
<1>2. Spec => []EInv
  BY Invariance
<1> QED BY <1>1, <1>2, PTL

(* A call that reports success has removed its scratch files, also those that
   an earlier call which failed had left. *)
THEOREM AlwaysRemoved == Sized /\ OwnDirectories => (Spec => []ScratchRemoved)
<1> SUFFICES ASSUME Sized, OwnDirectories PROVE Spec => []ScratchRemoved
  OBVIOUS
<1>1. EInv => ScratchRemoved
  BY ExactImplied
<1>2. Spec => []EInv
  BY Invariance
<1> QED BY <1>1, <1>2, PTL
=============================================================================
