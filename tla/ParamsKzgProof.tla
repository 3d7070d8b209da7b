--------------------------- MODULE ParamsKzgProof ----------------------------
(***************************************************************************)
(* The properties of ParamsKzg, for every domain size, every set of        *)
(* secrets and every sequence of calls, failures and crashes.  What the    *)
(* Delicate calls break is a hypothesis of the one theorem it concerns:    *)
(* BasesAlwaysKept is about behaviours without a second enable_streaming,  *)
(* AlwaysReadsBack about those without write_custom of parameters that     *)
(* stream; the other theorems are about all.                               *)
(***************************************************************************)
EXTENDS ParamsKzg, CommonLemmas

-----------------------------------------------------------------------------
(***************************************************************************)
(* Prefixes of the two bases and of what write_custom writes.              *)
(***************************************************************************)
PowTo(secret, m)    == [i \in 1 .. m |-> <<"pow", secret, i>>]
LagTo(secret, k, m) == [i \in 1 .. m |-> <<"lag", secret, k, i>>]

(* The points of a dump are those of the dumped object's vectors: powers of
   a secret a and a Lagrange basis of b and j, which are the object's own
   unless it is mixed. *)
Item(k, secret, a, b, j, i) == IF i = 1 THEN k
                               ELSE IF i <= Pow2[k] + 1 THEN <<"pow", a, i - 1>>
                               ELSE IF i <= 2 * Pow2[k] + 1 THEN <<"lag", b, j, i - Pow2[k] - 1>>
                               ELSE <<"g2", secret>>
WrittenTo(k, secret, a, b, j, m) == [i \in 1 .. m |-> Item(k, secret, a, b, j, i)]

LEMMA PowSlice ==
  ASSUME NEW secret, NEW n \in Nat, NEW m \in 0 .. n
  PROVE  Len(PowTo(secret, n)) = n /\ SubSeq(PowTo(secret, n), 1, m) = PowTo(secret, m)
<1> DEFINE f == PowTo(secret, n)
<1>1. f = [i \in 1 .. n |-> f[i]] /\ m \in 1 - 1 .. n /\ 1 \in 1 .. n + 1
  BY DEF PowTo
<1>2. Len(f) = n /\ SubSeq(f, 1, m) = [i \in 1 .. m - 1 + 1 |-> f[1 + i - 1]]
  <2> HIDE DEF f
  <2> QED BY <1>1, SliceOf
<1>3. [i \in 1 .. m - 1 + 1 |-> f[1 + i - 1]] = PowTo(secret, m)
  BY DEF PowTo
<1> QED BY <1>2, <1>3

LEMMA LagSlice ==
  ASSUME NEW secret, NEW k, NEW n \in Nat, NEW m \in 0 .. n
  PROVE  Len(LagTo(secret, k, n)) = n /\ SubSeq(LagTo(secret, k, n), 1, m) = LagTo(secret, k, m)
<1> DEFINE f == LagTo(secret, k, n)
<1>1. f = [i \in 1 .. n |-> f[i]] /\ m \in 1 - 1 .. n /\ 1 \in 1 .. n + 1
  BY DEF LagTo
<1>2. Len(f) = n /\ SubSeq(f, 1, m) = [i \in 1 .. m - 1 + 1 |-> f[1 + i - 1]]
  <2> HIDE DEF f
  <2> QED BY <1>1, SliceOf
<1>3. [i \in 1 .. m - 1 + 1 |-> f[1 + i - 1]] = LagTo(secret, k, m)
  BY DEF LagTo
<1> QED BY <1>2, <1>3

LEMMA EmptyPrefixes ==
  ASSUME NEW secret, NEW k
  PROVE  PowTo(secret, 0) = << >> /\ LagTo(secret, k, 0) = << >>
  BY DEF PowTo, LagTo

(* The number of points of a domain, and the whole bases as prefixes. *)
LEMMA Points ==
  ASSUME NEW k \in 0 .. MaxK
  PROVE  /\ Pow2[k] \in Nat /\ Pow2[k] >= 1
         /\ \A j \in 0 .. k : Pow2[j] <= Pow2[k]
<1> USE ParamsAssumption
<1> QED BY Pow2Positive, Pow2Monotone

(***************************************************************************)
(* What write_custom writes, and what read_custom takes from it.           *)
(***************************************************************************)
ItemsAre(k, secret, a, b, j) ==
  LET n == Pow2[k]
  IN  /\ Item(k, secret, a, b, j, 1) = k
      /\ \A i \in 2 .. n + 1 : Item(k, secret, a, b, j, i) = <<"pow", a, i - 1>>
      /\ \A i \in n + 2 .. 2 * n + 1 :
           Item(k, secret, a, b, j, i) = <<"lag", b, j, i - n - 1>>
      /\ Item(k, secret, a, b, j, 2 * n + 2) = <<"g2", secret>>

LEMMA Items ==
  ASSUME NEW k, k \in 0 .. MaxK, NEW secret, NEW a, NEW b, NEW j
  PROVE  ItemsAre(k, secret, a, b, j)
<1>1. PICK n \in Nat : n = Pow2[k] /\ n >= 1
  BY Points
<1>2. \A i \in Nat : i # 1 /\ i <= n + 1 => Item(k, secret, a, b, j, i) = <<"pow", a, i - 1>>
  BY <1>1 DEF Item
<1>3. \A i \in Nat : i # 1 /\ i > n + 1 /\ i <= 2 * n + 1 =>
        Item(k, secret, a, b, j, i) = <<"lag", b, j, i - n - 1>>
  BY <1>1 DEF Item
<1>4. \A i \in Nat : i # 1 /\ i > n + 1 /\ i > 2 * n + 1 =>
        Item(k, secret, a, b, j, i) = <<"g2", secret>>
  BY <1>1 DEF Item
<1>5. Item(k, secret, a, b, j, 1) = k
  BY DEF Item
<1>6. 2 * n + 2 \in Nat /\ 2 * n + 2 # 1 /\ 2 * n + 2 > n + 1 /\ 2 * n + 2 > 2 * n + 1
  BY <1>1
<1>7. \A i \in 2 .. n + 1 : i \in Nat /\ i # 1 /\ i <= n + 1
  OBVIOUS
<1>8. \A i \in n + 2 .. 2 * n + 1 : i \in Nat /\ i # 1 /\ i > n + 1 /\ i <= 2 * n + 1
  OBVIOUS
<1>9. /\ \A i \in 2 .. n + 1 : Item(k, secret, a, b, j, i) = <<"pow", a, i - 1>>
      /\ \A i \in n + 2 .. 2 * n + 1 : Item(k, secret, a, b, j, i) = <<"lag", b, j, i - n - 1>>
      /\ Item(k, secret, a, b, j, 2 * n + 2) = <<"g2", secret>>
  BY <1>2, <1>3, <1>4, <1>6, <1>7, <1>8
<1> QED BY <1>1, <1>5, <1>9 DEF ItemsAre

LEMMA WrittenIs ==
  ASSUME params.k \in 0 .. MaxK, NEW a0, NEW b0, NEW j0
  PROVE  Written(PowTo(a0, Pow2[params.k]), LagTo(b0, j0, Pow2[params.k]))
           = WrittenTo(params.k, params.secret, a0, b0, j0, 2 * Pow2[params.k] + 2)
<1> DEFINE n  == Pow2[params.k]
           g  == PowTo(a0, n)
           gl == LagTo(b0, j0, n)
           a  == <<params.k>>
           z  == <<<<"g2", params.secret>>>>
           b  == [i \in 1 .. 1 + n |-> IF i <= 1 THEN a[i] ELSE g[i - 1]]
           c  == [i \in 1 .. (1 + n) + n |-> IF i <= 1 + n THEN b[i] ELSE gl[i - (1 + n)]]
           d  == [i \in 1 .. ((1 + n) + n) + 1 |->
                    IF i <= (1 + n) + n THEN c[i] ELSE z[i - ((1 + n) + n)]]
<1>1. n \in Nat /\ n >= 1
  BY Points
<1>0. /\ Item(params.k, params.secret, a0, b0, j0, 1) = params.k
      /\ \A i \in 2 .. n + 1 : Item(params.k, params.secret, a0, b0, j0, i) = <<"pow", a0, i - 1>>
      /\ \A i \in n + 2 .. 2 * n + 1 : Item(params.k, params.secret, a0, b0, j0, i) = <<"lag", b0, j0, i - n - 1>>
      /\ Item(params.k, params.secret, a0, b0, j0, 2 * n + 2) = <<"g2", params.secret>>
  <2>1. ItemsAre(params.k, params.secret, a0, b0, j0)
    BY Items
  <2> QED BY <2>1 DEF ItemsAre
<1>2. a = [i \in 1 .. 1 |-> a[i]] /\ z = [i \in 1 .. 1 |-> z[i]]
  OBVIOUS
<1>3. g = [i \in 1 .. n |-> g[i]] /\ gl = [i \in 1 .. n |-> gl[i]]
  BY DEF PowTo, LagTo
<1>4. b = [i \in 1 .. 1 + n |-> b[i]] /\ c = [i \in 1 .. (1 + n) + n |-> c[i]]
  <2>1. b = [i \in 1 .. 1 + n |-> b[i]]
    <3> HIDE DEF a, g, n
    <3> QED OBVIOUS
  <2>2. c = [i \in 1 .. (1 + n) + n |-> c[i]]
    <3> HIDE DEF b, gl, n
    <3> QED OBVIOUS
  <2> QED BY <2>1, <2>2
<1>5. a \o g = b
  <2> HIDE DEF n, g, a
  <2> QED BY <1>1, <1>2, <1>3, ConcatOf
<1>6. b \o gl = c
  <2>1. 1 + n \in Nat
    BY <1>1
  <2> HIDE DEF n, gl, b
  <2> QED BY <1>1, <1>3, <1>4, <2>1, ConcatOf
<1>7. c \o z = d
  <2>1. (1 + n) + n \in Nat
    BY <1>1
  <2> HIDE DEF n, z, c
  <2> QED BY <1>2, <1>4, <2>1, ConcatOf
<1>8. d = WrittenTo(params.k, params.secret, a0, b0, j0, 2 * n + 2)
  <2> DEFINE w == WrittenTo(params.k, params.secret, a0, b0, j0, 2 * n + 2)
  <2>1. ASSUME NEW i \in 1 .. 2 * n + 2 PROVE d[i] = w[i]
    <3>1. w[i] = Item(params.k, params.secret, a0, b0, j0, i)
      BY DEF WrittenTo
    <3>2. d[i] = IF i <= (1 + n) + n THEN c[i] ELSE z[i - ((1 + n) + n)]
      <4> HIDE DEF n, c, z
      <4> QED BY <1>1
    <3>3. CASE i = 1
      <4>1. d[i] = a[1]
        <5> HIDE DEF n, g, gl, z, a
        <5> QED BY <1>1, <3>2, <3>3
      <4> QED BY <4>1, <3>1, <3>3, <1>0
    <3>4. CASE i \in 2 .. n + 1
      <4>1. d[i] = g[i - 1]
        <5> HIDE DEF n, g, gl, z, a
        <5> QED BY <1>1, <3>2, <3>4
      <4>2. g[i - 1] = <<"pow", a0, i - 1>>
        <5> HIDE DEF n
        <5> QED BY <1>1, <3>4 DEF PowTo
      <4> QED BY <4>1, <4>2, <3>1, <3>4, <1>0
    <3>5. CASE i \in n + 2 .. 2 * n + 1
      <4>1. d[i] = gl[i - (1 + n)]
        <5> HIDE DEF n, g, gl, z, a
        <5> QED BY <1>1, <3>2, <3>5
      <4>2. gl[i - (1 + n)] = <<"lag", b0, j0, i - n - 1>>
        <5> HIDE DEF n
        <5>1. i - (1 + n) \in 1 .. n /\ i - (1 + n) = i - n - 1
          BY <1>1, <3>5
        <5> QED BY <5>1 DEF LagTo
      <4> QED BY <4>1, <4>2, <3>1, <3>5, <1>0
    <3>6. CASE i = 2 * n + 2
      <4>1. d[i] = z[1]
        <5> HIDE DEF n, c, z
        <5>1. i > (1 + n) + n /\ i - ((1 + n) + n) = 1
          BY <1>1, <3>6
        <5> QED BY <5>1, <3>2, <1>1
      <4> QED BY <4>1, <3>1, <3>6, <1>0
    <3>7. i = 1 \/ i \in 2 .. n + 1 \/ i \in n + 2 .. 2 * n + 1 \/ i = 2 * n + 2
      <4> HIDE DEF n
      <4> QED BY <1>1
    <3> QED BY <3>3, <3>4, <3>5, <3>6, <3>7
  <2>2. 1 .. ((1 + n) + n) + 1 = 1 .. 2 * n + 2
    <3> HIDE DEF n
    <3> QED BY <1>1
  <2>3. d = [i \in 1 .. 2 * n + 2 |-> d[i]]
    <3> HIDE DEF n, c, z
    <3> QED BY <2>2
  <2>4. w = [i \in 1 .. 2 * n + 2 |-> w[i]]
    BY DEF WrittenTo
  <2> HIDE DEF d, w, n
  <2>5. d = w
    BY <2>1, <2>3, <2>4
  <2> QED BY <2>5 DEF w
<1>9. Written(g, gl) = d
  BY <1>5, <1>6, <1>7 DEF Written
<1> QED BY <1>8, <1>9

DumpSlice(k, secret, a, b, j, n, m) ==
  /\ Len(WrittenTo(k, secret, a, b, j, n)) = n
  /\ SubSeq(WrittenTo(k, secret, a, b, j, n), 1, m) = WrittenTo(k, secret, a, b, j, m)

LEMMA WrittenSlice ==
  ASSUME NEW k, NEW secret, NEW a, NEW b, NEW j, NEW n, n \in Nat, NEW m, m \in 0 .. n
  PROVE  DumpSlice(k, secret, a, b, j, n, m)
<1> DEFINE f == WrittenTo(k, secret, a, b, j, n)
<1>1. f = [i \in 1 .. n |-> f[i]] /\ m \in 1 - 1 .. n /\ 1 \in 1 .. n + 1
  BY DEF WrittenTo
<1>2. Len(f) = n /\ SubSeq(f, 1, m) = [i \in 1 .. m - 1 + 1 |-> f[1 + i - 1]]
  <2> HIDE DEF f
  <2> QED BY <1>1, SliceOf
<1>3. [i \in 1 .. m - 1 + 1 |-> f[1 + i - 1]] = WrittenTo(k, secret, a, b, j, m)
  BY DEF WrittenTo
<1> QED BY <1>2, <1>3 DEF DumpSlice

SlicesOf(k, secret, a, b, j) ==
  LET n == Pow2[k]
      f == WrittenTo(k, secret, a, b, j, 2 * n + 2)
  IN  /\ f[1] = k
      /\ SubSeq(f, 2, n + 1) = PowTo(a, n)
      /\ SubSeq(f, n + 2, 2 * n + 1) = LagTo(b, j, n)
      /\ f[2 * n + 2] = <<"g2", secret>>
      /\ \A i \in 2 .. 2 * n + 1 : f[i][1] # "g2"

LEMMA ReadSlices ==
  ASSUME NEW k, k \in 0 .. MaxK, NEW secret, NEW a, NEW b, NEW j
  PROVE  SlicesOf(k, secret, a, b, j)
<1> DEFINE n == Pow2[k]
           f == WrittenTo(k, secret, a, b, j, 2 * n + 2)
<1>1. n \in Nat /\ n >= 1
  BY Points
<1>0. /\ Item(k, secret, a, b, j, 1) = k
      /\ \A i \in 2 .. n + 1 : Item(k, secret, a, b, j, i) = <<"pow", a, i - 1>>
      /\ \A i \in n + 2 .. 2 * n + 1 : Item(k, secret, a, b, j, i) = <<"lag", b, j, i - n - 1>>
      /\ Item(k, secret, a, b, j, 2 * n + 2) = <<"g2", secret>>
  <2>1. ItemsAre(k, secret, a, b, j)
    BY Items
  <2> QED BY <2>1 DEF ItemsAre
<1>2. f = [i \in 1 .. 2 * n + 2 |-> f[i]]
  BY DEF WrittenTo
<1>3. f[1] = k /\ f[2 * n + 2] = <<"g2", secret>>
  <2>1. 1 \in 1 .. 2 * n + 2 /\ 2 * n + 2 \in 1 .. 2 * n + 2
    BY <1>1
  <2>2. f[1] = Item(k, secret, a, b, j, 1) /\ f[2 * n + 2] = Item(k, secret, a, b, j, 2 * n + 2)
    <3> HIDE DEF n
    <3> QED BY <2>1 DEF WrittenTo
  <2> QED BY <2>2, <1>0
<1>4. \A i \in 2 .. n + 1 : f[i] = <<"pow", a, i - 1>>
  <2>1. \A i \in 2 .. n + 1 : f[i] = Item(k, secret, a, b, j, i)
    <3> HIDE DEF n
    <3> QED BY <1>1 DEF WrittenTo
  <2> QED BY <2>1, <1>0
<1>5. \A i \in n + 2 .. 2 * n + 1 : f[i] = <<"lag", b, j, i - n - 1>>
  <2>1. \A i \in n + 2 .. 2 * n + 1 : f[i] = Item(k, secret, a, b, j, i)
    <3> HIDE DEF n
    <3> QED BY <1>1 DEF WrittenTo
  <2> QED BY <2>1, <1>0
<1>6. SubSeq(f, 2, n + 1) = PowTo(a, n)
  <2>1. SubSeq(f, 2, n + 1) = [i \in 1 .. (n + 1) - 2 + 1 |-> f[2 + i - 1]]
    <3>1. 2 * n + 2 \in Nat /\ 2 \in 1 .. (2 * n + 2) + 1 /\ n + 1 \in 2 - 1 .. 2 * n + 2
      BY <1>1
    <3> HIDE DEF f, n
    <3> QED BY <1>2, <3>1, SliceOf
  <2>2. \A i \in 1 .. n : f[2 + i - 1] = <<"pow", a, i>>
    <3> HIDE DEF f, n
    <3>1. ASSUME NEW i \in 1 .. n PROVE f[2 + i - 1] = <<"pow", a, i>>
      <4>1. 2 + i - 1 \in 2 .. n + 1 /\ (2 + i - 1) - 1 = i
        BY <1>1
      <4> QED BY <4>1, <1>4
    <3> QED BY <3>1
  <2>3. (n + 1) - 2 + 1 = n
    BY <1>1
  <2> HIDE DEF f
  <2> QED BY <2>1, <2>2, <2>3 DEF PowTo
<1>7. SubSeq(f, n + 2, 2 * n + 1) = LagTo(b, j, n)
  <2>1. SubSeq(f, n + 2, 2 * n + 1) = [i \in 1 .. (2 * n + 1) - (n + 2) + 1 |-> f[n + 2 + i - 1]]
    <3>1. /\ 2 * n + 2 \in Nat /\ n + 2 \in 1 .. (2 * n + 2) + 1
          /\ 2 * n + 1 \in (n + 2) - 1 .. 2 * n + 2
      BY <1>1
    <3> HIDE DEF f, n
    <3> QED BY SMTT(40), <1>2, <3>1, SliceOf
  <2>2. \A i \in 1 .. n : f[n + 2 + i - 1] = <<"lag", b, j, i>>
    <3> HIDE DEF f, n
    <3>1. ASSUME NEW i \in 1 .. n PROVE f[n + 2 + i - 1] = <<"lag", b, j, i>>
      <4>1. n + 2 + i - 1 \in n + 2 .. 2 * n + 1 /\ (n + 2 + i - 1) - n - 1 = i
        BY <1>1
      <4> QED BY <4>1, <1>5
    <3> QED BY <3>1
  <2>3. (2 * n + 1) - (n + 2) + 1 = n
    BY <1>1
  <2> HIDE DEF f
  <2> QED BY <2>1, <2>2, <2>3 DEF LagTo
<1>8. ASSUME NEW i \in 2 .. 2 * n + 1 PROVE f[i][1] # "g2"
  <2> HIDE DEF f, n
  <2>1. CASE i <= n + 1
    BY <2>1, <1>1, <1>4
  <2>2. CASE i > n + 1
    BY <2>2, <1>1, <1>5
  <2> QED BY <2>1, <2>2, <1>1
<1> QED BY <1>3, <1>6, <1>7, <1>8 DEF SlicesOf

-----------------------------------------------------------------------------
(***************************************************************************)
(* The invariant.  Shape: the records have their fields.  Vectors: an      *)
(* object in RAM holds 2^k points of either basis, one that streams none.  *)
(* OnDisk: each file is a prefix of a basis, be it the file of a write     *)
(* that was cut, and of the basis the note beside it names if the files    *)
(* are not mixed.  Busy and Streaming: the note is about the object at     *)
(* hand, the files are mixed exactly as long as an object that streams     *)
(* from them is, and an object that was moved has both files whole.        *)
(* Buffered: the buffer is a prefix of one object's dump, the whole dump   *)
(* only if write_custom returned.                                          *)
(***************************************************************************)
Things == {"params", "files", "buffer"}
Clean(thing) == thing \notin mixed

(* n points of a basis, of the right one if they are exact. *)
PowsOf(points, secret, n, exact) ==
  \E a : points = PowTo(a, n) /\ (exact => a = secret)
LagsOf(points, secret, k, n, exact) ==
  \E b, j : points = LagTo(b, j, n) /\ (exact => b = secret /\ j = k)

Shape ==
  /\ params = [k |-> params.k, secret |-> params.secret, g |-> params.g, gl |-> params.gl,
               streaming |-> params.streaming, alive |-> params.alive]
  /\ files  = [g |-> files.g, gl |-> files.gl]
  /\ buffer = [data |-> buffer.data, of |-> buffer.of, complete |-> buffer.complete]
  /\ result = [call |-> result.call, status |-> result.status, used |-> result.used,
               of |-> result.of]
  /\ mixed \subseteq Things

InRamNow == params.alive /\ params.streaming = "no"

Vectors ==
  /\ params.k \in 0 .. MaxK
  /\ params.alive \in BOOLEAN
  /\ params.streaming \in {"no", "moved", "opened"}
  /\ InRamNow  => /\ PowsOf(params.g, params.secret, Pow2[params.k], Clean("params"))
                  /\ LagsOf(params.gl, params.secret, params.k, Pow2[params.k], Clean("params"))
  /\ ~InRamNow => params.g = << >> /\ params.gl = << >>

FilesOf(g, gl, secret, k, exact) ==
  /\ \E m \in Nat : PowsOf(g, secret, m, exact)
  /\ \E m \in Nat : LagsOf(gl, secret, k, m, exact)

OnDisk ==
  /\ meta = << >> => files.g = << >> /\ files.gl = << >>
  /\ meta # << >> => /\ meta = <<meta[1], meta[2]>> /\ meta[1] \in 0 .. MaxK
                     /\ FilesOf(files.g, files.gl, meta[2], meta[1], Clean("files"))

Busy ==
  /\ pc \in {"idle", "create_g", "write_g", "create_gl", "write_gl"}
  /\ pc # "idle" => /\ params.alive /\ meta = <<params.k, params.secret>>
                    /\ Clean("files") => Clean("params")
                    /\ "move_again" \notin Calls => params.streaming = "no"
  /\ pc \in {"create_gl", "write_gl"} => files.g = params.g

Streaming ==
  /\ params.streaming # "no" => /\ params.alive /\ meta = <<params.k, params.secret>>
                                /\ Clean("params") => Clean("files")
  /\ params.streaming = "moved" /\ Clean("params") /\ "move_again" \notin Calls =>
       files = [g |-> RightG(params), gl |-> RightGl(params)]

(* The first m items of a dump of parameters with this k. *)
Dump(k, m) ==
  \E a, b, j :
    /\ buffer.data = WrittenTo(k, buffer.of[2], a, b, j, m)
    /\ Clean("buffer") => a = buffer.of[2] /\ b = buffer.of[2] /\ j = k

Buffered ==
  \/ buffer.data = << >> /\ buffer.complete = FALSE
  \/ "write_moved" \in Calls /\ \E k \in 0 .. MaxK : \E x : buffer.data \in {<<k>>, <<k, x>>}
  \/ \E k \in 0 .. MaxK :
       /\ buffer.of = <<k, buffer.of[2]>>
       /\ \E m \in 0 .. 2 * Pow2[k] + 2 :
            Dump(k, m) /\ buffer.complete = (m = 2 * Pow2[k] + 2)

ReadsBack == "write_moved" \notin Calls => WrittenReadsBack

IInv == /\ Shape /\ Vectors /\ OnDisk /\ Busy /\ Streaming /\ Buffered
        /\ CommitmentsRight /\ ReadsBack

-----------------------------------------------------------------------------
(***************************************************************************)
(* What a call returns is a record with these fields; only a commit says   *)
(* what it used.                                                           *)
(***************************************************************************)
Answer(call, status) == [call |-> call, status |-> status, used |-> << >>, of |-> << >>]

LEMMA Answers ==
  ASSUME NEW call
  PROVE  /\ Nothing = Answer("none", "ok")
         /\ Returned(call) = Answer(call, "ok")
         /\ Failed(call) = Answer(call, "err")
         /\ Panicked(call) = Answer(call, "panic")
<1>1. Nothing = Answer("none", "ok")
  BY DEF Nothing, Answer
<1>2. Returned(call) = Answer(call, "ok")
  BY <1>1 DEF Returned, Answer
<1>3. Failed(call) = Answer(call, "err") /\ Panicked(call) = Answer(call, "panic")
  <2> DEFINE r == [Answer("none", "ok") EXCEPT !.call = call]
  <2>1. r = Answer(call, "ok")
    BY DEF Answer
  <2>2. /\ [Answer(call, "ok") EXCEPT !.status = "err"] = Answer(call, "err")
        /\ [Answer(call, "ok") EXCEPT !.status = "panic"] = Answer(call, "panic")
    BY DEF Answer
  <2>3. /\ Failed(call) = [r EXCEPT !.status = "err"]
        /\ Panicked(call) = [r EXCEPT !.status = "panic"]
    BY <1>1 DEF Failed, Panicked
  <2> HIDE DEF r
  <2> QED BY <2>1, <2>2, <2>3
<1> QED BY <1>1, <1>2, <1>3

(* An object by its fields, and what changes one of them. *)
Object(k, secret, g, gl, streaming, alive) ==
  [k |-> k, secret |-> secret, g |-> g, gl |-> gl, streaming |-> streaming, alive |-> alive]

LEMMA Updates ==
  ASSUME NEW p, NEW k, NEW secret, NEW g, NEW gl, NEW streaming, NEW alive,
         NEW x, NEW y, NEW z, p = Object(k, secret, g, gl, streaming, alive)
  PROVE  /\ [p EXCEPT !.k = x, !.g = y, !.gl = z] = Object(x, secret, y, z, streaming, alive)
         /\ [p EXCEPT !.g = x, !.gl = y, !.streaming = z] = Object(k, secret, x, y, z, alive)
<1> DEFINE a == [p EXCEPT !.k = x]
           b == [a EXCEPT !.g = y]
           c == [p EXCEPT !.g = x]
           d == [c EXCEPT !.gl = y]
<1>1. a = Object(x, secret, g, gl, streaming, alive)
  BY DEF Object
<1>2. b = Object(x, secret, y, gl, streaming, alive)
  <2> HIDE DEF a
  <2> QED BY <1>1 DEF Object
<1>3. [b EXCEPT !.gl = z] = Object(x, secret, y, z, streaming, alive)
  <2> HIDE DEF b
  <2> QED BY <1>2 DEF Object
<1>4. c = Object(k, secret, x, gl, streaming, alive)
  BY DEF Object
<1>5. d = Object(k, secret, x, y, streaming, alive)
  <2> HIDE DEF c
  <2> QED BY <1>4 DEF Object
<1>6. [d EXCEPT !.streaming = z] = Object(k, secret, x, y, z, alive)
  <2> HIDE DEF d
  <2> QED BY <1>5 DEF Object
<1> QED BY <1>3, <1>6

LEMMA BasesAre ==
  ASSUME NEW secret, NEW k
  PROVE  Powers(secret, k) = PowTo(secret, Pow2[k]) /\ Lagrange(secret, k) = LagTo(secret, k, Pow2[k])
  BY DEF Powers, Lagrange, PowTo, LagTo

LEMMA BasisLengths ==
  ASSUME NEW secret, NEW k \in 0 .. MaxK
  PROVE  /\ Len(Powers(secret, k)) = Pow2[k] /\ Len(Lagrange(secret, k)) = Pow2[k]
         /\ ToLagrange(Powers(secret, k), k) = Lagrange(secret, k)
<1>1. Pow2[k] \in Nat /\ Pow2[k] >= 1
  BY Points
<1>2. Len(Powers(secret, k)) = Pow2[k] /\ Len(Lagrange(secret, k)) = Pow2[k]
  <2>1. Pow2[k] \in 0 .. Pow2[k]
    BY <1>1
  <2> QED BY <1>1, <2>1, BasesAre, PowSlice, LagSlice
<1>3. Powers(secret, k)[1] = <<"pow", secret, 1>>
  <2>1. 1 \in 1 .. Pow2[k]
    BY <1>1
  <2> QED BY <2>1 DEF Powers
<1> QED BY <1>2, <1>3 DEF ToLagrange

LEMMA InRamFields ==
  ASSUME NEW k, NEW secret, NEW g, NEW gl
  PROVE  InRam(k, secret, g, gl) = [k |-> k, secret |-> secret, g |-> g, gl |-> gl,
                                    streaming |-> "no", alive |-> TRUE]
  BY DEF InRam

(***************************************************************************)
(* The history variable: what a step marks or clears, and what it cannot. *)
OnlyMarks(thing) ==
  /\ mixed' \subseteq Things
  /\ \A other \in Things : other # thing => (other \in mixed' <=> other \in mixed)

LEMMA Inherits ==
  ASSUME NEW to \in Things, NEW from, mixed \subseteq Things, Inherit(to, from)
  PROVE  OnlyMarks(to) /\ (to \in mixed' <=> from \in mixed)
  BY DEF Inherit, OnlyMarks, Things

(* What stays as it is as long as its mark does. *)
LEMMA SameOnDisk ==
  ASSUME OnDisk, UNCHANGED <<files, meta>>, Clean("files")' <=> Clean("files")
  PROVE  OnDisk'
<1>1. Clean("files")' = Clean("files")
  BY DEF Clean
<1> QED BY <1>1 DEF OnDisk, FilesOf, PowsOf, LagsOf

LEMMA SameBuffered ==
  ASSUME Buffered, UNCHANGED buffer, Clean("buffer")' <=> Clean("buffer")
  PROVE  Buffered'
  BY DEF Buffered, Dump

(***************************************************************************)
(* Steps that leave the files alone.                                       *)
(***************************************************************************)
LEMMA PowsSlice ==
  ASSUME NEW q, NEW secret, NEW exact, NEW n, n \in Nat, PowsOf(q, secret, n, exact),
         NEW m, m \in 0 .. n
  PROVE  Len(q) = n /\ PowsOf(SubSeq(q, 1, m), secret, m, exact)
<1>1. PICK a : q = PowTo(a, n) /\ (exact => a = secret)
  BY DEF PowsOf
<1>2. Len(q) = n /\ SubSeq(q, 1, m) = PowTo(a, m)
  BY <1>1, PowSlice
<1> QED BY <1>1, <1>2 DEF PowsOf

LEMMA LagsSlice ==
  ASSUME NEW q, NEW secret, NEW k, NEW exact, NEW n, n \in Nat, LagsOf(q, secret, k, n, exact),
         NEW m, m \in 0 .. n
  PROVE  Len(q) = n /\ LagsOf(SubSeq(q, 1, m), secret, k, m, exact)
<1>1. PICK b, j : q = LagTo(b, j, n) /\ (exact => b = secret /\ j = k)
  BY DEF LagsOf
<1>2. Len(q) = n /\ SubSeq(q, 1, m) = LagTo(b, j, m)
  BY <1>1, LagSlice
<1> QED BY <1>1, <1>2 DEF LagsOf

LEMMA EmptyOf ==
  ASSUME NEW secret, NEW k, NEW exact
  PROVE  /\ PowsOf(<< >>, secret, 0, exact) /\ LagsOf(<< >>, secret, k, 0, exact)
         /\ FilesOf(<< >>, << >>, secret, k, exact)
<1>1. PowsOf(<< >>, secret, 0, exact) /\ LagsOf(<< >>, secret, k, 0, exact)
  BY EmptyPrefixes DEF PowsOf, LagsOf
<1> QED BY <1>1 DEF FilesOf

LEMMA RightOf ==
  ASSUME NEW secret, NEW k
  PROVE  /\ \A exact : /\ PowsOf(Powers(secret, k), secret, Pow2[k], exact)
                       /\ LagsOf(Lagrange(secret, k), secret, k, Pow2[k], exact)
         /\ \A q : PowsOf(q, secret, Pow2[k], TRUE) => q = Powers(secret, k)
         /\ \A q : LagsOf(q, secret, k, Pow2[k], TRUE) => q = Lagrange(secret, k)
  BY BasesAre DEF PowsOf, LagsOf

(* What is known of the points if they are exact is known of them in any
   case, but for whose they are. *)
LEMMA Weaken ==
  ASSUME NEW g, NEW gl, NEW secret, NEW k, NEW other, NEW j, NEW exact, NEW now, ~now,
         FilesOf(g, gl, secret, k, exact)
  PROVE  FilesOf(g, gl, other, j, now)
<1>1. PICK m \in Nat : PowsOf(g, secret, m, exact)
  BY DEF FilesOf
<1>2. PICK l \in Nat : LagsOf(gl, secret, k, l, exact)
  BY DEF FilesOf
<1>3. PowsOf(g, other, m, now) /\ LagsOf(gl, other, j, l, now)
  BY <1>1, <1>2 DEF PowsOf, LagsOf
<1> QED BY <1>3 DEF FilesOf

(* The vectors of an object, in RAM or dropped. *)
LEMMA Held ==
  ASSUME IInv
  PROVE  FilesOf(params.g, params.gl, params.secret, params.k, Clean("params"))
<1>1. CASE InRamNow
  <2>1. Pow2[params.k] \in Nat
    BY Points DEF IInv, Vectors
  <2> QED BY <1>1, <2>1 DEF IInv, Vectors, FilesOf
<1>2. CASE ~InRamNow
  <2>1. params.g = << >> /\ params.gl = << >>
    BY <1>2 DEF IInv, Vectors
  <2> QED BY <2>1, EmptyOf
<1> QED BY <1>1, <1>2

LEMMA Constructed ==
  ASSUME IInv, ~params.alive, NEW k \in 0 .. MaxK, NEW secret, NEW g, NEW gl,
         PowsOf(g, secret, Pow2[k], Clean("params")'),
         LagsOf(gl, secret, k, Pow2[k], Clean("params")'),
         NEW call, params' = InRam(k, secret, g, gl), result' = Returned(call),
         call = "read" => (buffer.complete => buffer.of = <<k, secret>>),
         OnlyMarks("params"), UNCHANGED <<files, meta, buffer, pc>>
  PROVE  IInv'
<1>1. pc = "idle"
  BY DEF IInv, Busy
<1>2. result' = Answer(call, "ok")
  BY Answers
<1>3. Shape'
  BY <1>2, InRamFields DEF IInv, Shape, Answer, OnlyMarks
<1>4. Vectors'
  BY InRamFields DEF Vectors, InRamNow
<1>5. OnDisk' /\ Buffered'
  <2>1. (Clean("files")' <=> Clean("files")) /\ (Clean("buffer")' <=> Clean("buffer"))
    BY DEF OnlyMarks, Things, Clean
  <2> QED BY <2>1, SameOnDisk, SameBuffered DEF IInv
<1>6. Busy' /\ Streaming'
  BY <1>1, InRamFields DEF Busy, Streaming
<1>8. CommitmentsRight'
  BY <1>2 DEF Answer, CommitmentsRight, CommitmentsExact
<1>9. ReadsBack'
  BY <1>2, InRamFields DEF Answer, ReadsBack, WrittenReadsBack
<1> QED BY <1>3, <1>4, <1>5, <1>6, <1>8, <1>9 DEF IInv

(* A call that answers and changes nothing. *)
LEMMA Answered ==
  ASSUME IInv, NEW call, NEW status, result' = Answer(call, status),
         call = "read" /\ "write_moved" \notin Calls => ~buffer.complete,
         UNCHANGED <<params, files, meta, buffer, pc, mixed>>
  PROVE  IInv'
<1>1. Shape'
  BY DEF IInv, Shape, Answer
<1>2. Vectors' /\ Busy' /\ Streaming'
  BY DEF IInv, Vectors, InRamNow, RightG, RightGl, Busy, Streaming, Clean
<1>3. OnDisk' /\ Buffered'
  BY SameOnDisk, SameBuffered DEF IInv, Clean
<1>4. CommitmentsRight' /\ ReadsBack'
  BY DEF Answer, CommitmentsRight, CommitmentsExact, ReadsBack, WrittenReadsBack
<1> QED BY <1>1, <1>2, <1>3, <1>4 DEF IInv

(* The parameters are gone: a panic, or the end of the process. *)
LEMMA Gone ==
  ASSUME Shape, OnDisk', Buffered, NEW call, NEW status, call # "read",
         params' = NoParams, pc' = "idle", result' = Answer(call, status),
         files' = [g |-> files'.g, gl |-> files'.gl], UNCHANGED <<buffer, mixed>>
  PROVE  IInv'
<1>1. 0 \in 0 .. MaxK
  BY ParamsAssumption
<1>2. Shape'
  BY DEF Shape, NoParams, Answer
<1>3. Vectors' /\ Busy' /\ Streaming'
  BY <1>1 DEF NoParams, Vectors, InRamNow, Busy, Streaming
<1>4. Buffered'
  BY SameBuffered DEF Clean
<1>5. CommitmentsRight' /\ ReadsBack'
  BY DEF Answer, CommitmentsRight, CommitmentsExact, ReadsBack, WrittenReadsBack
<1> QED BY <1>2, <1>3, <1>4, <1>5 DEF IInv

-----------------------------------------------------------------------------
(***************************************************************************)
(* Every step preserves the invariant.                                     *)
(***************************************************************************)
LEMMA InitIInv == Init => IInv
<1> SUFFICES ASSUME Init PROVE IInv
  OBVIOUS
<1> USE DEF Init
<1>1. 0 \in 0 .. MaxK
  BY ParamsAssumption
<1>2. Shape
  BY DEF Shape, NoParams, Nothing
<1>3. Vectors
  BY <1>1 DEF Vectors, InRamNow, NoParams
<1>4. OnDisk /\ Busy /\ Streaming /\ Buffered
  BY DEF OnDisk, Busy, Streaming, Buffered, NoParams
<1>5. CommitmentsRight /\ ReadsBack
  BY DEF CommitmentsRight, CommitmentsExact, ReadsBack, WrittenReadsBack, Nothing
<1> QED BY <1>2, <1>3, <1>4, <1>5 DEF IInv

LEMMA SetupIInv ==
  ASSUME IInv, NEW k \in 0 .. MaxK, NEW secret \in Secrets, Setup(k, secret)
  PROVE  IInv'
<1>1. params' = InRam(k, secret, Powers(secret, k), Lagrange(secret, k))
  BY BasisLengths DEF Setup
<1>2. OnlyMarks("params")
  BY DEF Setup, IInv, Shape, OnlyMarks, Things
<1>3. /\ PowsOf(Powers(secret, k), secret, Pow2[k], Clean("params")')
      /\ LagsOf(Lagrange(secret, k), secret, k, Pow2[k], Clean("params")')
  BY RightOf
<1>4. ~params.alive /\ result' = Returned("setup") /\ UNCHANGED <<files, meta, buffer, pc>>
  BY DEF Setup
<1> QED BY <1>1, <1>2, <1>3, <1>4, Constructed

LEMMA FromRawSrsIInv == ASSUME IInv, FromRawSrs PROVE IInv'
<1> DEFINE k == meta[1]
           secret == meta[2]
           n == Pow2[k]
<1>1. /\ k \in 0 .. MaxK /\ meta # << >> /\ ~params.alive
      /\ FilesOf(files.g, files.gl, secret, k, Clean("files"))
      /\ UNCHANGED <<files, meta, buffer, pc>>
  BY DEF FromRawSrs, IInv, OnDisk
<1>2. n \in Nat /\ n >= 1
  BY <1>1, Points
<1>3. CASE Len(files.g) >= n /\ Len(files.gl) >= n
  <2>1. PowsOf(SubSeq(files.g, 1, n), secret, n, Clean("files"))
    <3>1. PICK m \in Nat : PowsOf(files.g, secret, m, Clean("files"))
      BY <1>1 DEF FilesOf
    <3> HIDE DEF n, secret
    <3>2. Len(files.g) = m
      <4>1. m \in 0 .. m
        OBVIOUS
      <4> QED BY <3>1, <4>1, PowsSlice
    <3>3. n \in 0 .. m
      BY <1>2, <1>3, <3>2
    <3> QED BY <3>1, <3>3, PowsSlice
  <2>2. LagsOf(SubSeq(files.gl, 1, n), secret, k, n, Clean("files"))
    <3>1. PICK m \in Nat : LagsOf(files.gl, secret, k, m, Clean("files"))
      BY <1>1 DEF FilesOf
    <3> HIDE DEF n, secret, k
    <3>2. Len(files.gl) = m
      <4>1. m \in 0 .. m
        OBVIOUS
      <4> QED BY <3>1, <4>1, LagsSlice
    <3>3. n \in 0 .. m
      BY <1>2, <1>3, <3>2
    <3> QED BY <3>1, <3>3, LagsSlice
  <2>3. /\ params' = InRam(k, secret, SubSeq(files.g, 1, n), SubSeq(files.gl, 1, n))
        /\ result' = Returned("from_raw_srs") /\ Inherit("params", "files")
    BY <1>3 DEF FromRawSrs
  <2>4. OnlyMarks("params") /\ Clean("params")' = Clean("files")
    BY <2>3, Inherits DEF IInv, Shape, Things, Clean
  <2>5. "from_raw_srs" # "read"
    OBVIOUS
  <2> HIDE DEF k, secret, n
  <2> QED BY <1>1, <2>1, <2>2, <2>3, <2>4, <2>5, Constructed DEF n
<1>4. CASE ~(Len(files.g) >= n /\ Len(files.gl) >= n)
  <2>1. result' = Failed("from_raw_srs") /\ UNCHANGED <<params, mixed>>
    BY <1>4 DEF FromRawSrs
  <2>2. result' = Answer("from_raw_srs", "err")
    BY <2>1, Answers
  <2> QED BY <1>1, <2>1, <2>2, Answered
<1> QED BY <1>3, <1>4

LEMMA StreamingParamsIInv == ASSUME IInv, StreamingParams PROVE IInv'
<1>1. /\ params' = [k |-> meta[1], secret |-> meta[2], g |-> << >>, gl |-> << >>,
                    streaming |-> "opened", alive |-> TRUE]
      /\ result' = Answer("streaming_params", "ok")
  BY Answers DEF StreamingParams, InRam
<1>2. /\ meta = <<meta[1], meta[2]>> /\ meta[1] \in 0 .. MaxK /\ pc = "idle"
      /\ UNCHANGED <<files, meta, buffer, pc>>
  BY DEF StreamingParams, IInv, OnDisk, Busy
<1>3. OnlyMarks("params") /\ (Clean("params")' <=> Clean("files"))
  BY Inherits DEF StreamingParams, IInv, Shape, Things, Clean
<1>4. (Clean("files")' <=> Clean("files")) /\ (Clean("buffer")' <=> Clean("buffer"))
  BY <1>3 DEF OnlyMarks, Things, Clean
<1>5. Shape'
  BY <1>1, <1>2, <1>3 DEF IInv, Shape, Answer, OnlyMarks
<1>6. Vectors' /\ Busy' /\ Streaming'
  BY <1>1, <1>2, <1>3, <1>4 DEF Vectors, InRamNow, Busy, Streaming
<1>7. OnDisk' /\ Buffered'
  BY <1>2, <1>4, SameOnDisk, SameBuffered DEF IInv
<1>8. CommitmentsRight' /\ ReadsBack'
  BY <1>1 DEF Answer, CommitmentsRight, CommitmentsExact, ReadsBack, WrittenReadsBack
<1> QED BY <1>5, <1>6, <1>7, <1>8 DEF IInv

(* What read_custom finds in a buffer that was written to its end is the dump
   of the object; anything shorter, and the dump of an object that streamed,
   it refuses. *)
LEMMA ReadCustomIInv == ASSUME IInv, ReadCustom PROVE IInv'
<1> DEFINE data == buffer.data
<1>1. ~params.alive /\ UNCHANGED <<files, meta, buffer, pc>>
  BY DEF ReadCustom
<1>2. CASE ~Readable(data)
  <2>1. result' = Answer("read", "err") /\ UNCHANGED <<params, mixed>>
    BY <1>2, Answers DEF ReadCustom
  <2>2. "write_moved" \notin Calls => ~buffer.complete
    <3>1. SUFFICES ASSUME buffer.complete, "write_moved" \notin Calls PROVE Readable(data)
      BY <1>2
    <3>2. PICK k \in 0 .. MaxK : Dump(k, 2 * Pow2[k] + 2)
      BY <3>1 DEF IInv, Buffered
    <3>3. PICK a, b, j : data = WrittenTo(k, buffer.of[2], a, b, j, 2 * Pow2[k] + 2)
      BY <3>2 DEF Dump
    <3> DEFINE n == Pow2[k]
               f == WrittenTo(k, buffer.of[2], a, b, j, 2 * n + 2)
    <3>4. n \in Nat /\ n >= 1 /\ 2 * n + 2 \in Nat /\ 0 \in 0 .. 2 * n + 2
      BY Points
    <3>5. Len(f) = 2 * n + 2
      <4> HIDE DEF n
      <4> QED BY <3>4, WrittenSlice DEF DumpSlice
    <3>6. SlicesOf(k, buffer.of[2], a, b, j)
      BY ReadSlices
    <3>7. f[1] = k /\ \A i \in 2 .. 2 * n + 1 : f[i][1] # "g2"
      BY <3>6 DEF SlicesOf
    <3>8. data # << >>
      <4> HIDE DEF f, n
      <4> QED BY <3>3, <3>4, <3>5 DEF f, n
    <3>9. Len(data) - 1 = 2 * n + 1
      <4> HIDE DEF n, f
      <4> QED BY <3>3, <3>4, <3>5 DEF n, f
    <3> QED BY <3>3, <3>5, <3>7, <3>8, <3>9 DEF Readable
  <2> QED BY <1>1, <2>1, <2>2, Answered
<1>3. CASE Readable(data)
  <2>1. ~(\E k \in 0 .. MaxK : \E x : data \in {<<k>>, <<k, x>>})
    <3>1. SUFFICES ASSUME NEW k \in 0 .. MaxK, NEW x, data \in {<<k>>, <<k, x>>} PROVE FALSE
      OBVIOUS
    <3>2. data[1] = k /\ Len(data) <= 2 /\ Len(data) \in Nat
      <4> HIDE DEF data
      <4>1. CASE data = <<k>>
        BY <4>1
      <4>2. CASE data = <<k, x>>
        BY <4>2
      <4> QED BY <3>1, <4>1, <4>2
    <3>3. Len(data) = 2 * Pow2[k] + 2 /\ Pow2[k] \in Nat /\ Pow2[k] >= 1
      BY <1>3, <3>2, Points DEF Readable
    <3> HIDE DEF data
    <3> QED BY <3>2, <3>3
  <2>2. PICK k \in 0 .. MaxK :
          /\ buffer.of = <<k, buffer.of[2]>>
          /\ \E m \in 0 .. 2 * Pow2[k] + 2 : Dump(k, m) /\ buffer.complete = (m = 2 * Pow2[k] + 2)
    BY <1>3, <2>1 DEF IInv, Buffered, Readable
  <2> DEFINE secret == buffer.of[2]
             n == Pow2[k]
             size == 2 * n + 2
  <2>3. PICK m \in 0 .. size : Dump(k, m)
    BY <2>2
  <2>4. PICK a, b, j : /\ data = WrittenTo(k, secret, a, b, j, m)
                       /\ Clean("buffer") => a = secret /\ b = secret /\ j = k
    BY <2>3 DEF Dump
  <2>5. n \in Nat /\ n >= 1 /\ size \in Nat /\ m \in Nat /\ m \in 0 .. m
    BY Points
  <2>6. Len(data) = m
    <3> HIDE DEF secret, data
    <3> QED BY <2>4, <2>5, WrittenSlice DEF DumpSlice
  <2>7. m >= 1
    <3>1. SUFFICES ASSUME m = 0 PROVE FALSE
      BY <2>5
    <3>2. data = << >>
      BY <2>4, <3>1 DEF WrittenTo
    <3> QED BY <3>2, <1>3 DEF Readable
  <2>8. data[1] = k
    <3>1. 1 \in 1 .. m
      BY <2>5, <2>7
    <3>2. data[1] = Item(k, secret, a, b, j, 1)
      BY <2>4, <3>1 DEF WrittenTo
    <3>3. ItemsAre(k, secret, a, b, j)
      BY Items
    <3> QED BY <3>2, <3>3 DEF ItemsAre
  <2>9. m = size
    BY <1>3, <2>6, <2>8 DEF Readable
  <2>10. /\ SubSeq(data, 2, n + 1) = PowTo(a, n)
         /\ SubSeq(data, n + 2, 2 * n + 1) = LagTo(b, j, n)
         /\ data[2 * n + 2] = <<"g2", secret>>
    <3>1. data = WrittenTo(k, secret, a, b, j, 2 * n + 2)
      BY <2>4, <2>9
    <3>2. SlicesOf(k, secret, a, b, j)
      BY ReadSlices
    <3> HIDE DEF secret, data
    <3> QED BY <3>1, <3>2 DEF SlicesOf
  <2>11. /\ params' = InRam(data[1], data[2 * n + 2][2], SubSeq(data, 2, n + 1),
                            SubSeq(data, n + 2, 2 * n + 1))
         /\ result' = Returned("read") /\ Inherit("params", "buffer")
    BY <1>3, <2>8 DEF ReadCustom
  <2>12. params' = InRam(k, secret, PowTo(a, n), LagTo(b, j, n))
    <3>1. data[2 * n + 2][2] = secret
      <4> HIDE DEF secret, n, data
      <4> QED BY <2>10
    <3> HIDE DEF secret, n, data
    <3> QED BY <2>8, <2>10, <2>11, <3>1
  <2>13. OnlyMarks("params") /\ (Clean("params")' <=> Clean("buffer"))
    BY <2>11, Inherits DEF IInv, Shape, Things, Clean
  <2>14. /\ PowsOf(PowTo(a, n), secret, n, Clean("params")')
         /\ LagsOf(LagTo(b, j, n), secret, k, n, Clean("params")')
    <3> HIDE DEF secret, n
    <3>1. Clean("params")' => a = secret /\ b = secret /\ j = k
      BY <2>4, <2>13 DEF secret
    <3> QED BY <3>1 DEF PowsOf, LagsOf
  <2>15. buffer.of = <<k, secret>> /\ result' = Returned("read")
    BY <2>2, <2>11
  <2> HIDE DEF secret, size, data
  <2> QED BY <1>1, <2>12, <2>13, <2>14, <2>15, Constructed
<1> QED BY <1>2, <1>3

LEMMA ShortDump ==
  ASSUME NEW x, NEW y
  PROVE  LET d == <<x>> \o << >> \o << >> \o <<y>>
         IN  /\ d = <<x, y>> /\ Len(d) = 2
             /\ SubSeq(d, 1, 0) = << >> /\ SubSeq(d, 1, 1) = <<x>>
<1> DEFINE a == <<x>>
           b == <<y>>
           d == <<x, y>>
<1>1. /\ List(a) /\ Len(a) = 1 /\ a[1] = x
      /\ List(b) /\ Len(b) = 1 /\ b[1] = y
  BY OneItem
<1>2. List(d) /\ d[1] = x /\ d[2] = y /\ d = [i \in 1 .. 2 |-> d[i]]
  BY TwoItems
<1>3. a \o << >> = a
  BY <1>1, ConcatNone
<1>4. a \o b = d
  <2>1. /\ List(a \o b) /\ Len(a \o b) = 2
        /\ (a \o b)[1] = x /\ (a \o b)[1 + 1] = y
    <3> HIDE DEF a, b
    <3>1. /\ List(a \o b) /\ Len(a \o b) = Len(a) + Len(b)
          /\ \A k \in 1 .. Len(a) : (a \o b)[k] = a[k]
          /\ \A k \in 1 .. Len(b) : (a \o b)[Len(a) + k] = b[k]
      <4>1. List(a) /\ List(b)
        BY <1>1
      <4> QED BY <4>1, ListConcat
    <3>2. 1 \in 1 .. Len(a) /\ 1 \in 1 .. Len(b) /\ Len(a) + Len(b) = 2
      BY <1>1
    <3> QED BY <1>1, <3>1, <3>2
  <2>2. Len(d) = 2
    OBVIOUS
  <2>3. \A i \in 1 .. 2 : (a \o b)[i] = d[i]
    <3> HIDE DEF a, b, d
    <3>1. ASSUME NEW i \in 1 .. 2 PROVE i = 1 \/ i = 1 + 1
      OBVIOUS
    <3> QED BY <2>1, <1>2, <3>1
  <2> HIDE DEF a, b, d
  <2> QED BY <1>2, <2>1, <2>2, <2>3, ListEqual
<1>5. SubSeq(d, 1, 0) = << >> /\ SubSeq(d, 1, 1) = <<x>>
  <2>1. SubSeq(d, 1, 0) = [i \in 1 .. 0 - 1 + 1 |-> d[1 + i - 1]]
    <3>1. 1 \in 1 .. 2 + 1 /\ 0 \in 1 - 1 .. 2 /\ 2 \in Nat
      OBVIOUS
    <3> HIDE DEF d
    <3> QED BY <1>2, <3>1, SliceOf
  <2>2. SubSeq(d, 1, 1) = [i \in 1 .. 1 - 1 + 1 |-> d[1 + i - 1]]
    <3>1. 1 \in 1 .. 2 + 1 /\ 1 \in 1 - 1 .. 2 /\ 2 \in Nat
      OBVIOUS
    <3> HIDE DEF d
    <3> QED BY <1>2, <3>1, SliceOf
  <2>3. [i \in 1 .. 0 - 1 + 1 |-> d[1 + i - 1]] = << >>
    <3> HIDE DEF d
    <3> QED OBVIOUS
  <2>4. [i \in 1 .. 1 - 1 + 1 |-> d[1 + i - 1]] = <<x>>
    <3>1. <<x>> = [i \in 1 .. 1 |-> x]
      OBVIOUS
    <3>2. \A i \in 1 .. 1 - 1 + 1 : d[1 + i - 1] = x
      <4> HIDE DEF d
      <4> QED BY <1>2
    <3> HIDE DEF d
    <3> QED BY <3>1, <3>2
  <2> QED BY <2>1, <2>2, <2>3, <2>4
<1> HIDE DEF a, b
<1>6. a \o << >> \o << >> \o b = d /\ Len(d) = 2
  BY <1>3, <1>4
<1> QED BY <1>5, <1>6 DEF a, b

(* An object in RAM writes all it has, one that streams k and its secret. *)
LEMMA WriteCustomIInv == ASSUME IInv, WriteCustom PROVE IInv'
<1> DEFINE k == params.k
           secret == params.secret
           size == 2 * Pow2[k] + 2
           data == Written(params.g, params.gl)
<1>1. /\ params.alive /\ pc = "idle" /\ k \in 0 .. MaxK
      /\ UNCHANGED <<params, files, meta, pc>>
  BY DEF WriteCustom, Write, Idle, IInv, Vectors
<1>2. PICK status : result' = Answer("write", status)
  BY Answers DEF WriteCustom, Write
<1>3. OnlyMarks("buffer") /\ (Clean("buffer")' <=> Clean("params"))
  BY Inherits DEF WriteCustom, Write, IInv, Shape, Things, Clean
<1>4. (Clean("files")' <=> Clean("files")) /\ (Clean("params")' <=> Clean("params"))
  BY <1>3 DEF OnlyMarks, Things, Clean
<1>5. /\ buffer' = [data |-> buffer'.data, of |-> <<k, secret>>, complete |-> buffer'.complete]
      /\ \/ buffer'.data = data /\ buffer'.complete = TRUE
         \/ \E m \in 0 .. Len(data) - 1 : buffer'.data = SubSeq(data, 1, m) /\ buffer'.complete = FALSE
  <2> HIDE DEF data
  <2>1. CASE buffer' = [data |-> data, of |-> <<k, secret>>, complete |-> TRUE]
    BY <2>1
  <2>2. ASSUME NEW m \in 0 .. Len(data) - 1,
               buffer' = [data |-> SubSeq(data, 1, m), of |-> <<k, secret>>, complete |-> FALSE]
        PROVE  /\ buffer' = [data |-> buffer'.data, of |-> <<k, secret>>, complete |-> buffer'.complete]
               /\ buffer'.data = SubSeq(data, 1, m) /\ buffer'.complete = FALSE
    BY <2>2
  <2> QED BY <2>1, <2>2 DEF WriteCustom, Write, data
<1>6. Buffered'
  <2>1. CASE InRamNow
    <3>1. PICK a, b, j : /\ params.g = PowTo(a, Pow2[k]) /\ params.gl = LagTo(b, j, Pow2[k])
                         /\ Clean("params") => a = secret /\ b = secret /\ j = k
      BY <2>1 DEF IInv, Vectors, PowsOf, LagsOf
    <3>2. data = WrittenTo(k, secret, a, b, j, size)
      <4>1. Written(PowTo(a, Pow2[k]), LagTo(b, j, Pow2[k])) = WrittenTo(k, secret, a, b, j, size)
        BY <1>1, WrittenIs
      <4> QED BY <3>1, <4>1
    <3>3. size \in Nat /\ size \in 0 .. size /\ 0 \in 0 .. size
      BY <1>1, Points
    <3>4. Len(data) = size
      <4> HIDE DEF size, data, k, secret
      <4> QED BY <3>2, <3>3, WrittenSlice DEF DumpSlice
    <3>5. PICK m \in 0 .. size : /\ buffer'.data = WrittenTo(k, secret, a, b, j, m)
                                 /\ buffer'.complete = (m = size)
      <4> HIDE DEF size, data, k, secret
      <4>1. CASE buffer'.data = data /\ buffer'.complete = TRUE
        BY <3>2, <3>3, <4>1
      <4>2. ASSUME NEW m \in 0 .. Len(data) - 1, buffer'.data = SubSeq(data, 1, m),
                   buffer'.complete = FALSE
            PROVE  /\ m \in 0 .. size /\ m # size
                   /\ buffer'.data = WrittenTo(k, secret, a, b, j, m)
        <5>1. m \in 0 .. size /\ m # size
          BY <3>3, <3>4
        <5>2. SubSeq(WrittenTo(k, secret, a, b, j, size), 1, m) = WrittenTo(k, secret, a, b, j, m)
          <6>1. DumpSlice(k, secret, a, b, j, size, m)
            BY <5>1, <3>3, WrittenSlice
          <6> QED BY <6>1 DEF DumpSlice
        <5> QED BY <4>2, <5>1, <5>2, <3>2
      <4> QED BY <1>5, <4>1, <4>2 DEF data, k, secret
    <3>6. buffer'.of = <<k, buffer'.of[2]>> /\ buffer'.of[2] = secret
      <4> HIDE DEF k, secret
      <4> QED BY <1>5
    <3>7. Clean("buffer")' => a = secret /\ b = secret /\ j = k
      BY <1>3, <3>1
    <3>8. Dump(k, m)'
      <4>1. buffer'.data = WrittenTo(k, buffer'.of[2], a, b, j, m)
        BY <3>5, <3>6
      <4>2. Clean("buffer")' => a = buffer'.of[2] /\ b = buffer'.of[2] /\ j = k
        BY <3>6, <3>7
      <4>3. k' = k
        BY <1>1
      <4> HIDE DEF k
      <4> QED BY <4>1, <4>2, <4>3 DEF Dump
    <3> HIDE DEF secret
    <3> QED BY <1>1, <3>5, <3>6, <3>8 DEF Buffered
  <2>2. CASE ~InRamNow
    <3>1. "write_moved" \in Calls
      BY <1>1, <2>2 DEF WriteCustom, Write, InRamNow
    <3>2. data = <<k>> \o << >> \o << >> \o <<<<"g2", secret>>>>
      BY <2>2 DEF IInv, Vectors, Written
    <3>3. \/ buffer'.data = << >> /\ buffer'.complete = FALSE
          \/ buffer'.data \in {<<k>>, <<k, <<"g2", secret>>>>}
      <4>1. /\ data = <<k, <<"g2", secret>>>> /\ Len(data) = 2
            /\ SubSeq(data, 1, 0) = << >> /\ SubSeq(data, 1, 1) = <<k>>
        <5> HIDE DEF k, secret, data
        <5> QED BY <3>2, ShortDump
      <4> HIDE DEF data, k, secret
      <4>2. ASSUME NEW m \in 0 .. Len(data) - 1 PROVE m = 0 \/ m = 1
        BY <4>1
      <4> QED BY <1>5, <3>2, <4>1, <4>2 DEF data, k, secret
    <3> HIDE DEF data, secret
    <3> QED BY <1>1, <3>1, <3>3 DEF Buffered
  <2> QED BY <2>1, <2>2
<1>7. Shape'
  BY <1>1, <1>2, <1>3, <1>5 DEF IInv, Shape, Answer, OnlyMarks
<1>8. Vectors' /\ Busy' /\ Streaming'
  <2>1. Clean("files")' = Clean("files") /\ Clean("params")' = Clean("params")
    BY <1>4 DEF Clean
  <2> QED BY <1>1, <2>1 DEF IInv, Vectors, InRamNow, RightG, RightGl, Busy, Streaming
<1>9. OnDisk'
  BY <1>1, <1>4, SameOnDisk DEF IInv
<1>10. CommitmentsRight' /\ ReadsBack'
  BY <1>2 DEF Answer, CommitmentsRight, CommitmentsExact, ReadsBack, WrittenReadsBack
<1> QED BY <1>6, <1>7, <1>8, <1>9, <1>10 DEF IInv

LEMMA DownsizeIInv == ASSUME IInv, NEW k \in 0 .. MaxK, Downsize(k) PROVE IInv'
<1> DEFINE secret == params.secret
           g == IF Len(params.g) > Pow2[k] THEN SubSeq(params.g, 1, Pow2[k]) ELSE params.g
<1>1. /\ params.alive /\ pc = "idle" /\ k \in 0 .. params.k /\ params.k \in 0 .. MaxK
      /\ UNCHANGED <<files, meta, buffer, pc, mixed>>
  BY DEF Downsize, Idle, IInv, Vectors
<1>2. Pow2[k] \in Nat /\ Pow2[k] >= 1 /\ Pow2[params.k] \in Nat /\ Pow2[k] <= Pow2[params.k]
  BY <1>1, Points
<1>3. CASE params.streaming = "no"
  <2>1. PICK a : params.g = PowTo(a, Pow2[params.k]) /\ (Clean("params") => a = secret)
    BY <1>1, <1>3 DEF IInv, Vectors, InRamNow, PowsOf
  <2>2. g = Powers(a, k)
    <3>1. Len(params.g) = Pow2[params.k] /\ SubSeq(params.g, 1, Pow2[k]) = PowTo(a, Pow2[k])
      <4>1. Pow2[k] \in 0 .. Pow2[params.k]
        BY <1>2
      <4> QED BY <1>2, <2>1, <4>1, PowSlice
    <3>2. CASE Pow2[params.k] > Pow2[k]
      BY <3>1, <3>2, BasesAre
    <3>3. CASE ~(Pow2[params.k] > Pow2[k])
      <4>1. Pow2[params.k] = Pow2[k]
        BY <3>3, <1>2
      <4>2. g = params.g
        BY <3>1, <3>3
      <4> QED BY <2>1, <4>1, <4>2, BasesAre
    <3> QED BY <3>2, <3>3
  <2>3. Transformable(g, k) /\ ToLagrange(g, k) = Lagrange(a, k)
    BY <2>2, BasisLengths DEF Transformable
  <2>4. /\ params' = [params EXCEPT !.k = k, !.g = g, !.gl = ToLagrange(g, k)]
        /\ result' = Returned("downsize")
    <3> HIDE DEF secret
    <3> QED BY <2>3 DEF Downsize
  <2>5. params' = [k |-> k, secret |-> secret, g |-> Powers(a, k),
                   gl |-> Lagrange(a, k), streaming |-> "no", alive |-> TRUE]
    <3>1. PICK k0, g0, gl0 : params = Object(k0, secret, g0, gl0, "no", TRUE)
      <4>1. params = Object(params.k, secret, params.g, params.gl, "no", TRUE)
        BY <1>1, <1>3 DEF IInv, Shape, Vectors, Object
      <4> HIDE DEF secret
      <4> QED BY <4>1
    <3>2. params' = [params EXCEPT !.k = k, !.g = Powers(a, k), !.gl = Lagrange(a, k)]
      BY <2>2, <2>3, <2>4
    <3> HIDE DEF secret, g
    <3> QED BY <3>1, <3>2, Updates DEF Object
  <2>6. result' = Answer("downsize", "ok")
    BY <2>4, Answers
  <2>7. /\ PowsOf(Powers(a, k), secret, Pow2[k], Clean("params")')
        /\ LagsOf(Lagrange(a, k), secret, k, Pow2[k], Clean("params")')
    <3>1. Clean("params")' => a = secret
      BY <1>1, <2>1 DEF Clean
    <3> HIDE DEF secret
    <3> QED BY <3>1, BasesAre DEF PowsOf, LagsOf
  <2> HIDE DEF secret, g
  <2>8. Shape'
    BY <1>1, <2>5, <2>6 DEF IInv, Shape, Answer
  <2>9. Vectors'
    BY <2>5, <2>7 DEF Vectors, InRamNow
  <2>10. Busy' /\ Streaming'
    BY <1>1, <2>5 DEF Busy, Streaming
  <2>11. OnDisk' /\ Buffered'
    BY <1>1, SameOnDisk, SameBuffered DEF IInv, Clean
  <2>12. CommitmentsRight' /\ ReadsBack'
    BY <2>6 DEF Answer, CommitmentsRight, CommitmentsExact, ReadsBack, WrittenReadsBack
  <2> QED BY <2>8, <2>9, <2>10, <2>11, <2>12 DEF IInv
<1>4. CASE params.streaming # "no"
  <2>1. params.g = << >>
    BY <1>4 DEF IInv, Vectors, InRamNow
  <2>2. ~Transformable(g, k)
    BY <2>1, <1>2 DEF Transformable
  <2>3. params' = NoParams /\ result' = Panicked("downsize")
    BY <2>2 DEF Downsize
  <2>4. result' = Answer("downsize", "panic")
    BY <2>3, Answers
  <2>5. OnDisk' /\ files' = [g |-> files'.g, gl |-> files'.gl] /\ Shape /\ Buffered
    BY <1>1, SameOnDisk DEF IInv, Shape, Clean
  <2> QED BY <1>1, <2>3, <2>4, <2>5, Gone
<1> QED BY <1>3, <1>4

(* enable_streaming begins: over no files, over its own, or over those of
   another SRS, which are mixed from now on. *)
LEMMA NoteIInv == ASSUME IInv, Note PROVE IInv'
<1>1. /\ params.alive /\ pc = "idle" /\ params.k \in 0 .. MaxK
      /\ meta' = <<params.k, params.secret>> /\ pc' = "create_g"
      /\ "move_again" \notin Calls => params.streaming = "no"
      /\ UNCHANGED <<params, files, buffer, result>>
  BY DEF Note, Idle, IInv, Vectors
<1>2. OnlyMarks("files") /\ (Clean("files")' => Clean("params") /\ Clean("files") /\ ~Overwrites)
  BY DEF Note, IInv, Shape, OnlyMarks, Things, Clean
<1>3. Clean("buffer")' = Clean("buffer") /\ Clean("params")' = Clean("params")
  BY <1>2 DEF OnlyMarks, Things, Clean
<1>4. meta'[1] = params.k /\ meta'[2] = params.secret /\ meta' # << >>
  BY <1>1
<1>5. FilesOf(files.g, files.gl, params.secret, params.k, Clean("files")')
  <2>1. CASE files.g = << >> /\ files.gl = << >>
    BY <2>1, EmptyOf
  <2>2. CASE ~(files.g = << >> /\ files.gl = << >>)
    <3>1. /\ FilesOf(files.g, files.gl, meta[2], meta[1], Clean("files"))
          /\ files # [g |-> << >>, gl |-> << >>]
      BY <2>2 DEF IInv, OnDisk
    <3>2. CASE Clean("files")'
      <4>1. meta = <<params.k, params.secret>> /\ Clean("files")' = Clean("files")
        BY <1>2, <3>1, <3>2 DEF Overwrites, Clean
      <4>2. meta[1] = params.k /\ meta[2] = params.secret
        BY <4>1
      <4> QED BY <3>1, <4>1, <4>2
    <3>3. CASE ~Clean("files")'
      <4>1. PICK s, k, other, j : s = meta[2] /\ k = meta[1] /\ other = params.secret /\ j = params.k
        OBVIOUS
      <4>2. FilesOf(files.g, files.gl, other, j, Clean("files")')
        BY <3>1, <3>3, <4>1, Weaken
      <4> QED BY <4>1, <4>2
    <3> QED BY <3>2, <3>3
  <2> QED BY <2>1, <2>2
<1>6. OnDisk'
  BY <1>1, <1>4, <1>5 DEF OnDisk
<1>7. Shape' /\ Vectors'
  BY <1>1, <1>2, <1>3 DEF IInv, Shape, Vectors, InRamNow, OnlyMarks
<1>8. Busy'
  BY <1>1, <1>2, <1>3 DEF Busy
<1>9. Streaming'
  <2>1. params.streaming # "no" => (Clean("params") => Clean("files")')
    <3>1. SUFFICES ASSUME params.streaming # "no", Clean("params") PROVE Clean("files")'
      OBVIOUS
    <3>2. meta = <<params.k, params.secret>> /\ Clean("files")
      BY <3>1 DEF IInv, Streaming
    <3> QED BY <3>1, <3>2 DEF Note, Overwrites, Clean
  <2> QED BY <1>1, <1>3, <2>1 DEF IInv, Streaming, RightG, RightGl
<1>10. Buffered' /\ CommitmentsRight' /\ ReadsBack'
  <2>1. Buffered'
    BY <1>1, <1>3, SameBuffered DEF IInv
  <2> QED BY <1>1, <1>3, <2>1 DEF IInv, CommitmentsRight, CommitmentsExact, ReadsBack,
                                  WrittenReadsBack, Clean
<1> QED BY <1>6, <1>7, <1>8, <1>9, <1>10 DEF IInv

(* The steps of write_bases: the object stays as it is, and so does the note. *)
LEMMA StillHeld ==
  ASSUME IInv, pc # "idle", UNCHANGED <<params, meta, buffer, result, mixed>>,
         files' = [g |-> files'.g, gl |-> files'.gl],
         FilesOf(files'.g, files'.gl, params.secret, params.k, Clean("files"))
  PROVE  Shape' /\ Vectors' /\ OnDisk' /\ Buffered' /\ CommitmentsRight' /\ ReadsBack'
<1>1. meta = <<params.k, params.secret>> /\ params.k \in 0 .. MaxK
  BY DEF IInv, Busy, Vectors
<1>2. meta'[1] = params.k /\ meta'[2] = params.secret /\ meta' # << >> /\ Clean("files")' = Clean("files")
  BY <1>1 DEF Clean
<1>3. OnDisk'
  BY <1>1, <1>2 DEF OnDisk
<1>4. Shape' /\ Vectors'
  BY DEF IInv, Shape, Vectors, InRamNow, Clean
<1>5. Buffered'
  BY SameBuffered DEF IInv, Clean
<1>6. CommitmentsRight' /\ ReadsBack'
  BY DEF IInv, CommitmentsRight, CommitmentsExact, ReadsBack, WrittenReadsBack
<1> QED BY <1>3, <1>4, <1>5, <1>6

(* What is written is at most as good as the parameters it is taken from. *)
LEMMA TakenFrom ==
  ASSUME IInv, pc # "idle", NEW g, NEW gl,
         \/ \E m \in Nat : PowsOf(g, params.secret, m, Clean("params"))
         \/ g = files.g,
         \/ \E m \in Nat : LagsOf(gl, params.secret, params.k, m, Clean("params"))
         \/ gl = files.gl
  PROVE  FilesOf(g, gl, params.secret, params.k, Clean("files"))
<1>1. meta = <<params.k, params.secret>> /\ (Clean("files") => Clean("params"))
  BY DEF IInv, Busy
<1>2. meta # << >> /\ meta[1] = params.k /\ meta[2] = params.secret
  BY <1>1
<1>3. FilesOf(files.g, files.gl, params.secret, params.k, Clean("files"))
  BY <1>2 DEF IInv, OnDisk
<1>4. \E m \in Nat : PowsOf(g, params.secret, m, Clean("files"))
  <2>1. ASSUME NEW m \in Nat, PowsOf(g, params.secret, m, Clean("params"))
        PROVE  PowsOf(g, params.secret, m, Clean("files"))
    BY <1>1, <2>1 DEF PowsOf
  <2> QED BY <1>3, <2>1 DEF FilesOf
<1>5. \E m \in Nat : LagsOf(gl, params.secret, params.k, m, Clean("files"))
  <2>1. ASSUME NEW m \in Nat, LagsOf(gl, params.secret, params.k, m, Clean("params"))
        PROVE  LagsOf(gl, params.secret, params.k, m, Clean("files"))
    BY <1>1, <2>1 DEF LagsOf
  <2> QED BY <1>3, <2>1 DEF FilesOf
<1> QED BY <1>4, <1>5 DEF FilesOf

LEMMA WritesIInv == ASSUME IInv, CreateG \/ WriteG \/ CreateGl PROVE IInv'
<1>1. /\ pc # "idle" /\ files = [g |-> files.g, gl |-> files.gl]
      /\ UNCHANGED <<params, meta, buffer, result, mixed>>
  BY DEF CreateG, WriteG, CreateGl, IInv, Shape
<1>2. /\ \E m \in Nat : PowsOf(<< >>, params.secret, m, Clean("params"))
      /\ \E m \in Nat : LagsOf(<< >>, params.secret, params.k, m, Clean("params"))
      /\ \E m \in Nat : PowsOf(params.g, params.secret, m, Clean("params"))
  BY EmptyOf, Held DEF FilesOf
<1>3. Clean("files")' = Clean("files") /\ Clean("params")' = Clean("params")
  BY <1>1 DEF Clean
<1>4. Streaming' /\ (pc' \in {"write_g", "create_gl", "write_gl"}
                      => ((pc' \in {"create_gl", "write_gl"} => files'.g = params.g) => Busy'))
  <2>1. params.streaming = "moved" /\ "move_again" \notin Calls => FALSE
    BY <1>1 DEF IInv, Busy
  <2> QED BY <1>1, <1>3, <2>1 DEF IInv, Busy, Streaming
<1>5. CASE CreateG
  <2>1. files' = [g |-> << >>, gl |-> files.gl] /\ pc' = "write_g"
    BY <1>1, <1>5 DEF CreateG
  <2>2. FilesOf(<< >>, files.gl, params.secret, params.k, Clean("files"))
    BY <1>1, <1>2, TakenFrom
  <2> QED BY <1>1, <1>4, <2>1, <2>2, StillHeld DEF IInv
<1>6. CASE WriteG
  <2>1. files' = [g |-> params.g, gl |-> files.gl] /\ pc' = "create_gl"
    BY <1>1, <1>6 DEF WriteG
  <2>2. FilesOf(params.g, files.gl, params.secret, params.k, Clean("files"))
    BY <1>1, <1>2, TakenFrom
  <2> QED BY <1>1, <1>4, <2>1, <2>2, StillHeld DEF IInv
<1>7. CASE CreateGl
  <2>1. files' = [g |-> files.g, gl |-> << >>] /\ pc' = "write_gl" /\ files.g = params.g
    BY <1>1, <1>7 DEF CreateGl, IInv, Busy
  <2>2. FilesOf(files.g, << >>, params.secret, params.k, Clean("files"))
    BY <1>1, <1>2, TakenFrom
  <2> QED BY <1>1, <1>4, <2>1, <2>2, StillHeld DEF IInv
<1> QED BY <1>5, <1>6, <1>7

LEMMA WriteGlIInv == ASSUME IInv, WriteGl PROVE IInv'
<1> DEFINE k == params.k
           secret == params.secret
<1>1. /\ params.alive /\ meta = <<k, secret>> /\ k \in 0 .. MaxK /\ pc' = "idle"
      /\ files.g = params.g /\ UNCHANGED <<meta, buffer>>
      /\ "move_again" \notin Calls => params.streaming = "no"
  BY DEF WriteGl, IInv, Busy, Vectors
<1>2. files' = [g |-> params.g, gl |-> params.gl]
  BY <1>1 DEF WriteGl, IInv, Shape
<1>3. params' = [k |-> k, secret |-> secret, g |-> << >>, gl |-> << >>,
                 streaming |-> "moved", alive |-> TRUE]
  <2>1. PICK g0, gl0, s0 : params = Object(k, secret, g0, gl0, s0, TRUE)
    <3>1. params = Object(k, secret, params.g, params.gl, params.streaming, TRUE)
      BY <1>1 DEF IInv, Shape, Vectors, Object
    <3> HIDE DEF k, secret
    <3> QED BY <3>1
  <2>2. params' = [params EXCEPT !.g = << >>, !.gl = << >>, !.streaming = "moved"]
    BY DEF WriteGl
  <2> HIDE DEF k, secret
  <2> QED BY <2>1, <2>2, Updates DEF Object
<1>4. result' = Answer("enable_streaming", "ok")
  BY Answers DEF WriteGl
<1>5. OnlyMarks("files") /\ (Clean("files")' <=> Clean("params"))
  BY Inherits DEF WriteGl, IInv, Shape, Things, Clean
<1>6. /\ Clean("params")' = Clean("params") /\ Clean("buffer")' = Clean("buffer")
      /\ Clean("files")' = Clean("params")
  BY <1>5 DEF OnlyMarks, Things, Clean
<1>7. "move_again" \notin Calls /\ Clean("params") =>
        params.g = Powers(secret, k) /\ params.gl = Lagrange(secret, k)
  <2>1. SUFFICES ASSUME "move_again" \notin Calls, Clean("params")
                 PROVE  params.g = Powers(secret, k) /\ params.gl = Lagrange(secret, k)
    OBVIOUS
  <2>2. PowsOf(params.g, secret, Pow2[k], TRUE) /\ LagsOf(params.gl, secret, k, Pow2[k], TRUE)
    BY <1>1, <2>1 DEF IInv, Vectors, InRamNow, PowsOf, LagsOf
  <2> HIDE DEF k, secret
  <2> QED BY <2>2, RightOf
<1>8. FilesOf(params.g, params.gl, secret, k, Clean("params"))
  BY Held
<1> HIDE DEF k, secret
<1>9. Shape'
  BY <1>1, <1>2, <1>3, <1>4, <1>5 DEF IInv, Shape, Answer, OnlyMarks
<1>10. Vectors'
  BY <1>1, <1>3 DEF Vectors, InRamNow
<1>11. OnDisk'
  <2>1. meta' # << >> /\ meta'[1] = k /\ meta'[2] = secret /\ meta' = <<meta'[1], meta'[2]>>
    BY <1>1
  <2> QED BY <1>1, <1>2, <1>6, <1>8, <2>1 DEF OnDisk
<1>12. Busy'
  BY <1>1 DEF Busy
<1>13. Streaming'
  BY <1>1, <1>2, <1>3, <1>6, <1>7 DEF Streaming, RightG, RightGl
<1>14. Buffered'
  BY <1>1, <1>6, SameBuffered DEF IInv
<1>15. CommitmentsRight' /\ ReadsBack'
  BY <1>4 DEF Answer, CommitmentsRight, CommitmentsExact, ReadsBack, WrittenReadsBack
<1> QED BY <1>9, <1>10, <1>11, <1>12, <1>13, <1>14, <1>15 DEF IInv

(* A write that stops half way, by an error or by the end of the process. *)
LEMMA TornOnDisk ==
  ASSUME IInv, TornWrite, UNCHANGED <<meta, mixed>>
  PROVE  OnDisk' /\ files' = [g |-> files'.g, gl |-> files'.gl]
<1>1. files = [g |-> files.g, gl |-> files.gl] /\ Clean("files")' = Clean("files")
  BY DEF IInv, Shape, Clean
<1>2. CASE pc \in {"write_g", "write_gl"}
  <2>1. meta = <<params.k, params.secret>> /\ pc # "idle" /\ params.k \in 0 .. MaxK
    BY <1>2 DEF IInv, Busy, Vectors
  <2>2. meta' # << >> /\ meta'[1] = params.k /\ meta'[2] = params.secret /\ meta' = meta
    BY <2>1
  <2>3. PICK s, k, exact : s = params.secret /\ k = params.k /\ exact = Clean("params")
    OBVIOUS
  <2>4. CASE pc = "write_g"
    <3>1. PICK n \in Nat : PowsOf(params.g, s, n, exact)
      BY <2>3, Held DEF FilesOf
    <3>2. Len(params.g) = n
      <4>1. n \in 0 .. n
        OBVIOUS
      <4> QED BY <3>1, <4>1, PowsSlice
    <3>3. PICK m \in 0 .. n : files' = [files EXCEPT !.g = SubSeq(params.g, 1, m)]
      BY <2>4, <3>2 DEF TornWrite, Torn
    <3>4. m \in Nat /\ PowsOf(SubSeq(params.g, 1, m), s, m, exact)
      BY <3>1, PowsSlice
    <3>5. files' = [g |-> SubSeq(params.g, 1, m), gl |-> files.gl]
      BY <1>1, <3>3
    <3>6. FilesOf(SubSeq(params.g, 1, m), files.gl, params.secret, params.k, Clean("files"))
      BY <2>1, <2>3, <3>4, TakenFrom
    <3> QED BY <1>1, <2>1, <2>2, <3>5, <3>6 DEF OnDisk
  <2>5. CASE pc = "write_gl"
    <3>1. PICK n \in Nat : LagsOf(params.gl, s, k, n, exact)
      BY <2>3, Held DEF FilesOf
    <3>2. Len(params.gl) = n
      <4>1. n \in 0 .. n
        OBVIOUS
      <4> QED BY <3>1, <4>1, LagsSlice
    <3>3. PICK m \in 0 .. n : files' = [files EXCEPT !.gl = SubSeq(params.gl, 1, m)]
      BY <2>5, <3>2 DEF TornWrite, Torn
    <3>4. m \in Nat /\ LagsOf(SubSeq(params.gl, 1, m), s, k, m, exact)
      BY <3>1, LagsSlice
    <3>5. files' = [g |-> files.g, gl |-> SubSeq(params.gl, 1, m)]
      BY <1>1, <3>3
    <3>6. FilesOf(files.g, SubSeq(params.gl, 1, m), params.secret, params.k, Clean("files"))
      BY <2>1, <2>3, <3>4, TakenFrom
    <3> QED BY <1>1, <2>1, <2>2, <3>5, <3>6 DEF OnDisk
  <2> QED BY <1>2, <2>4, <2>5
<1>3. CASE pc \notin {"write_g", "write_gl"}
  <2>1. UNCHANGED files
    BY <1>3 DEF TornWrite
  <2> QED BY <2>1, <1>1, SameOnDisk DEF IInv
<1> QED BY <1>2, <1>3

LEMMA EnableFailsIInv == ASSUME IInv, EnableFails PROVE IInv'
<1>1. /\ pc # "idle" /\ pc' = "idle" /\ UNCHANGED <<params, meta, buffer, mixed>>
      /\ result' = Answer("enable_streaming", "err")
  BY Answers DEF EnableFails
<1>2. OnDisk' /\ files' = [g |-> files'.g, gl |-> files'.gl]
  BY TornOnDisk DEF EnableFails
<1>3. Clean("files")' = Clean("files") /\ Clean("params")' = Clean("params")
  BY <1>1 DEF Clean
<1>4. Shape' /\ Vectors'
  BY <1>1, <1>2, <1>3 DEF IInv, Shape, Vectors, InRamNow, Answer
<1>5. Busy'
  BY <1>1 DEF Busy
<1>6. Streaming'
  <2>1. params.streaming = "moved" /\ "move_again" \notin Calls => FALSE
    BY <1>1 DEF IInv, Busy
  <2> QED BY <1>1, <1>3, <2>1 DEF IInv, Streaming
<1>7. Buffered'
  BY <1>1, SameBuffered DEF IInv, Clean
<1>8. CommitmentsRight' /\ ReadsBack'
  BY <1>1 DEF Answer, CommitmentsRight, CommitmentsExact, ReadsBack, WrittenReadsBack
<1> QED BY <1>2, <1>4, <1>5, <1>6, <1>7, <1>8 DEF IInv

LEMMA ExitIInv == ASSUME IInv, Exit PROVE IInv'
<1>1. /\ params' = NoParams /\ pc' = "idle" /\ UNCHANGED <<buffer, meta, mixed>>
      /\ result' = Answer("none", "ok")
  BY Answers DEF Exit
<1>2. OnDisk' /\ files' = [g |-> files'.g, gl |-> files'.gl]
  BY TornOnDisk DEF Exit
<1> QED BY <1>1, <1>2, Gone DEF IInv

(***************************************************************************)
(* A commit.  Its bases come from RAM or from a file; either holds a       *)
(* prefix of a basis, of the right one if the parameters are not mixed,    *)
(* and enough of it or the call panics.                                    *)
(***************************************************************************)
LEMMA UseIInv ==
  ASSUME IInv, NEW call \in {"commit", "commit_lagrange"}, NEW name,
         name = IF call = "commit" THEN "g" ELSE "gl",
         NEW len \in 0 .. Pow2[params.k], Use(call, name, len)
  PROVE  IInv'
<1> DEFINE k == params.k
           secret == params.secret
           basis == IF call = "commit" THEN Powers(secret, k) ELSE Lagrange(secret, k)
           used == SubSeq(Source(name), 1, len)
<1>1. /\ params.alive /\ pc = "idle" /\ k \in 0 .. MaxK
      /\ UNCHANGED <<files, meta, buffer, pc, mixed>>
  BY DEF Use, Idle, IInv, Vectors
<1>2. PICK n \in Nat : n = Pow2[k] /\ len \in 0 .. n
  BY <1>1, Points
<1>3. CASE Len(Source(name)) >= len
  <2>1. Clean("params") => used = SubSeq(basis, 1, len)
    <3>1. SUFFICES ASSUME Clean("params") PROVE used = SubSeq(basis, 1, len)
      OBVIOUS
    <3>2. FilesOf(IF name = "g" THEN Source(name) ELSE params.g,
                  IF name = "g" THEN params.gl ELSE Source(name), secret, k, TRUE)
      <4>1. FilesOf(params.g, params.gl, secret, k, TRUE)
        BY <3>1, Held
      <4>2. CASE params.streaming = "no"
        <5>1. Source(name) = IF name = "g" THEN params.g ELSE params.gl
          BY <4>2 DEF Source
        <5> HIDE DEF secret, k
        <5> QED BY <4>1, <5>1 DEF FilesOf
      <4>3. CASE params.streaming # "no"
        <5>1. meta = <<k, secret>> /\ Clean("files")
          BY <3>1, <4>3 DEF IInv, Streaming
        <5>2. meta # << >> /\ meta[1] = k /\ meta[2] = secret
          <6> HIDE DEF k, secret
          <6> QED BY <5>1
        <5>3. FilesOf(files.g, files.gl, secret, k, TRUE)
          BY <5>1, <5>2 DEF IInv, OnDisk
        <5>4. Source(name) = IF name = "g" THEN files.g ELSE files.gl
          BY <4>3 DEF Source
        <5> HIDE DEF secret, k
        <5> QED BY <4>1, <5>3, <5>4 DEF FilesOf
      <4> QED BY <4>2, <4>3
    <3>3. PICK m \in Nat : Source(name) = IF call = "commit" THEN PowTo(secret, m)
                                                             ELSE LagTo(secret, k, m)
      <4> HIDE DEF secret, k
      <4>1. CASE call = "commit"
        <5>1. PICK m \in Nat : PowsOf(Source(name), secret, m, TRUE)
          BY <3>2, <4>1 DEF FilesOf
        <5> QED BY <4>1, <5>1 DEF PowsOf
      <4>2. CASE call = "commit_lagrange"
        <5>1. PICK m \in Nat : LagsOf(Source(name), secret, k, m, TRUE)
          BY <3>2, <4>2 DEF FilesOf
        <5> QED BY <4>2, <5>1 DEF LagsOf
      <4> QED BY <4>1, <4>2
    <3>4. Len(Source(name)) = m
      <4>1. m \in 0 .. m
        OBVIOUS
      <4> HIDE DEF k, secret
      <4> QED BY <3>3, <4>1, PowSlice, LagSlice
    <3>5. len \in 0 .. m
      BY <1>2, <1>3, <3>4
    <3>6. used = IF call = "commit" THEN PowTo(secret, len) ELSE LagTo(secret, k, len)
      <4> HIDE DEF k, secret
      <4> QED BY <3>3, <3>5, PowSlice, LagSlice
    <3>7. basis = IF call = "commit" THEN PowTo(secret, n) ELSE LagTo(secret, k, n)
      BY <1>2, BasesAre
    <3>8. SubSeq(basis, 1, len) = IF call = "commit" THEN PowTo(secret, len)
                                                     ELSE LagTo(secret, k, len)
      <4> HIDE DEF k, secret, basis
      <4> QED BY <1>2, <3>7, PowSlice, LagSlice
    <3> QED BY <3>6, <3>8
  <2>2. /\ result' = [Returned(call) EXCEPT !.used = used, !.of = <<secret, k, len>>]
        /\ params' = params
    BY <1>3 DEF Use
  <2>3. result' = [call |-> call, status |-> "ok", used |-> used, of |-> <<secret, k, len>>]
    <3>1. Returned(call) = Answer(call, "ok")
      BY Answers
    <3> DEFINE r == [Answer(call, "ok") EXCEPT !.used = used]
    <3>2. r = [call |-> call, status |-> "ok", used |-> used, of |-> << >>]
      <4> HIDE DEF used
      <4> QED BY DEF Answer
    <3>3. result' = [r EXCEPT !.of = <<secret, k, len>>]
      <4> HIDE DEF used, secret, k
      <4> QED BY <2>2, <3>1
    <3> HIDE DEF r, used, secret, k
    <3> QED BY <3>2, <3>3
  <2>4. Shape'
    <3> HIDE DEF used, secret, k
    <3> QED BY <1>1, <2>2, <2>3 DEF IInv, Shape
  <2>5. Vectors' /\ Busy' /\ Streaming'
    BY <1>1, <2>2 DEF IInv, Vectors, InRamNow, RightG, RightGl, Busy, Streaming, Clean
  <2>6. OnDisk' /\ Buffered'
    BY <1>1, SameOnDisk, SameBuffered DEF IInv, Clean
  <2>7. CommitmentsRight' /\ ReadsBack'
    <3>1. result'.call = call /\ result'.used = used /\ result'.of = <<secret, k, len>>
      <4> HIDE DEF used, secret, k
      <4> QED BY <2>3
    <3>2. result'.of[1] = secret /\ result'.of[2] = k /\ result'.of[3] = len
      <4> HIDE DEF used, secret, k
      <4> QED BY <3>1
    <3>3. ASSUME Clean("params") PROVE CommitmentsRight'
      <4>1. used = SubSeq(basis, 1, len)
        BY <2>1, <3>3
      <4>2. CommitmentsExact'
        <5> HIDE DEF used, secret, k
        <5> QED BY <3>1, <3>2, <4>1 DEF CommitmentsExact, basis
      <4> QED BY <4>2 DEF CommitmentsRight
    <3>4. ASSUME ~Clean("params") PROVE CommitmentsRight'
      <4>1. mixed' = mixed
        BY <1>1
      <4>2. "params" \in mixed'
        BY <3>4, <4>1 DEF Clean
      <4> QED BY <4>2 DEF CommitmentsRight
    <3>5. ReadsBack'
      <4> HIDE DEF used, secret, k
      <4> QED BY <3>1 DEF ReadsBack, WrittenReadsBack
    <3> QED BY <3>3, <3>4, <3>5
  <2> QED BY <2>4, <2>5, <2>6, <2>7 DEF IInv
<1>4. CASE ~(Len(Source(name)) >= len)
  <2>1. params' = NoParams /\ result' = Panicked(call)
    BY <1>4 DEF Use
  <2>2. result' = Answer(call, "panic")
    BY <2>1, Answers
  <2>3. OnDisk' /\ files' = [g |-> files'.g, gl |-> files'.gl] /\ Shape /\ Buffered
    BY <1>1, SameOnDisk DEF IInv, Shape, Clean
  <2> QED BY <1>1, <2>1, <2>2, <2>3, Gone
<1> QED BY <1>3, <1>4

LEMMA CommitsIInv == ASSUME IInv, Commit \/ CommitLagrange PROVE IInv'
<1>1. params.k \in 0 .. MaxK
  BY DEF IInv, Vectors
<1>2. Pow2[params.k] \in Nat /\ Pow2[params.k] \in 0 .. Pow2[params.k]
  BY <1>1, Points
<1>3. CASE Commit
  <2>1. PICK len \in 1 .. Pow2[params.k] : Use("commit", "g", len)
    BY <1>3 DEF Commit
  <2>2. len \in 0 .. Pow2[params.k]
    BY <1>2
  <2> QED BY <2>1, <2>2, UseIInv
<1>4. CASE CommitLagrange
  BY <1>2, <1>4, UseIInv DEF CommitLagrange
<1> QED BY <1>3, <1>4

-----------------------------------------------------------------------------
LEMMA NextIInv == ASSUME IInv, [Next]_vars PROVE IInv'
<1>1. ASSUME NEW k \in 0 .. MaxK, NEW secret \in Secrets, Setup(k, secret) PROVE IInv'
  BY <1>1, SetupIInv
<1>2. CASE FromRawSrs \/ StreamingParams \/ ReadCustom
  BY <1>2, FromRawSrsIInv, StreamingParamsIInv, ReadCustomIInv
<1>3. CASE EnableStreaming
  BY <1>3, NoteIInv, WritesIInv, WriteGlIInv, EnableFailsIInv DEF EnableStreaming
<1>4. CASE WriteCustom \/ Exit
  BY <1>4, WriteCustomIInv, ExitIInv
<1>5. ASSUME NEW k \in 0 .. MaxK, Downsize(k) PROVE IInv'
  BY <1>5, DownsizeIInv
<1>6. CASE Commit \/ CommitLagrange
  BY <1>6, CommitsIInv
<1>7. CASE UNCHANGED vars
  <2>1. Shape' /\ Vectors' /\ Busy' /\ Streaming'
    BY <1>7 DEF vars, IInv, Shape, Vectors, InRamNow, RightG, RightGl, Busy, Streaming, Clean
  <2>2. OnDisk' /\ Buffered'
    BY <1>7, SameOnDisk, SameBuffered DEF vars, IInv, Clean
  <2>3. CommitmentsRight' /\ ReadsBack'
    BY <1>7 DEF vars, IInv, CommitmentsRight, CommitmentsExact, ReadsBack, WrittenReadsBack
  <2> QED BY <2>1, <2>2, <2>3 DEF IInv
<1> QED BY <1>1, <1>2, <1>3, <1>4, <1>5, <1>6, <1>7 DEF Next, Construct

(* The invariant of every behaviour, the Delicate calls included. *)
THEOREM Invariance == Spec => []IInv
<1>1. Init => IInv
  BY InitIInv
<1>2. IInv /\ [Next]_vars => IInv'
  BY NextIInv
<1> QED BY <1>1, <1>2, PTL DEF Spec

LEMMA IInvGives == ASSUME IInv PROVE TypeOK /\ ("move_again" \notin Calls => BasesKept)
<1>1. /\ params.k \in 0 .. MaxK /\ params.streaming \in {"no", "moved", "opened"}
      /\ params.alive \in BOOLEAN /\ mixed \subseteq {"params", "files", "buffer"}
  BY DEF IInv, Vectors, Shape, Things
<1>2. CASE InRamNow
  <2>1. Len(params.g) = Pow2[params.k] /\ Len(params.gl) = Pow2[params.k]
    <3>1. PICK k, s, n, exact : /\ k = params.k /\ s = params.secret /\ n = Pow2[params.k]
                                /\ exact = Clean("params")
      OBVIOUS
    <3>2. n \in Nat /\ n \in 0 .. n
      BY <1>1, <3>1, Points
    <3>3. PowsOf(params.g, s, n, exact) /\ LagsOf(params.gl, s, k, n, exact)
      BY <1>2, <3>1 DEF IInv, Vectors
    <3>4. Len(params.g) = n
      BY <3>2, <3>3, PowsSlice
    <3>5. Len(params.gl) = n
      BY <3>2, <3>3, LagsSlice
    <3> QED BY <3>1, <3>4, <3>5
  <2>2. TypeOK
    BY <1>1, <1>2, <2>1 DEF TypeOK, InRamNow, IInv, Busy
  <2>3. BasesKept
    <3>1. SUFFICES ASSUME Clean("params")
                   PROVE  params.g = RightG(params) /\ params.gl = RightGl(params)
      BY <1>2 DEF InRamNow, BasesKept, HoldsItsBases, SrsMoved, Clean
    <3>2. /\ PowsOf(params.g, params.secret, Pow2[params.k], TRUE)
          /\ LagsOf(params.gl, params.secret, params.k, Pow2[params.k], TRUE)
      BY <1>2, <3>1 DEF IInv, Vectors, PowsOf, LagsOf
    <3> QED BY <3>2, RightOf DEF RightG, RightGl
  <2> QED BY <2>2, <2>3
<1>3. CASE ~InRamNow
  <2>1. Len(params.g) = 0 /\ Len(params.gl) = 0
    BY <1>3 DEF IInv, Vectors
  <2>2. TypeOK
    BY <1>1, <1>3, <2>1 DEF TypeOK, InRamNow, IInv, Busy
  <2>3. "move_again" \notin Calls => BasesKept
    BY <1>3 DEF IInv, Streaming, InRamNow, BasesKept, HoldsItsBases, SrsMoved, Clean
  <2> QED BY <2>2, <2>3
<1> QED BY <1>2, <1>3

(***************************************************************************)
(* The vectors and the domain size of the parameters always go together,   *)
(* through downsize, moves to disk, failures and restarts, whichever calls *)
(* are made.                                                               *)
(***************************************************************************)
THEOREM TypeCorrect == Spec => []TypeOK
<1>1. IInv => TypeOK
  BY IInvGives
<1> QED BY <1>1, Invariance, PTL

(***************************************************************************)
(* No call but a second enable_streaming, finished or failed half way,     *)
(* leaves the parameters without their bases or with others: they are in   *)
(* RAM, or whole in both files.                                            *)
(***************************************************************************)
THEOREM BasesAlwaysKept == ASSUME "move_again" \notin Calls PROVE Spec => []BasesKept
<1>1. IInv => BasesKept
  BY IInvGives
<1> QED BY <1>1, Invariance, PTL

(***************************************************************************)
(* A commitment that is returned used the first bases of the right SRS,    *)
(* whichever calls were made before it, those in Delicate included, and    *)
(* also when it streamed them from files a killed process left behind;     *)
(* unless its parameters were made from files whose replacement by those   *)
(* of another SRS was stopped before its last write.                       *)
(***************************************************************************)
THEOREM CommitmentsAlwaysRight == Spec => []CommitmentsRight
<1>1. IInv => CommitmentsRight
  BY DEF IInv
<1> QED BY <1>1, Invariance, PTL

(***************************************************************************)
(* Where nobody writes parameters that stream: what write_custom wrote to  *)
(* its end is read back as it was, and what it did not is refused (the     *)
(* invariant's Buffered says why).                                         *)
(***************************************************************************)
THEOREM AlwaysReadsBack == ASSUME "write_moved" \notin Calls PROVE Spec => []WrittenReadsBack
<1>1. IInv => WrittenReadsBack
  BY DEF IInv, ReadsBack
<1> QED BY <1>1, Invariance, PTL
=============================================================================
