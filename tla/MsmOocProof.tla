----------------------------- MODULE MsmOocProof -----------------------------
(***************************************************************************)
(* The out-of-core multi-scalar multiplication is correct for every number *)
(* of records, block size, window width, scalar length and thread count.   *)
(* The inductive invariant is IInv: the properties the runs check, with    *)
(* Control, which ties the program counter to what is under way.           *)
(***************************************************************************)
EXTENDS MsmOoc, CommonLemmas, FiniteSetTheorems, SequenceTheorems

Reducing == {"double", "sum"}
Filling  == {"start", "read", "decode", "fill"}

Control ==
  /\ pc = "start" => done = 0
  /\ pc \in {"read", "decode", "fill"} => N > 0 /\ done < N
  /\ pc \in {"start", "read"} \cup Reducing => block = << >>
  /\ pc \in Reducing => N > 0 /\ done = N
  /\ pc # "fill" => busy = {} /\ \A w \in Windows : pos[w] = 0
  /\ \A w \in Windows : pos[w] <= Len(block)
  /\ \A w \in busy : pos[w] < Len(block) /\ NextDigit(w) # 0
  /\ pc \in Filling => win = NumWindows - 1 /\ dbl = 0 /\ acc = Zero
  /\ bpos <= input.baseRecs
  /\ input.onDisk => spos <= input.scalarRecs
  /\ \A i \in Items : i < done \/ (pc = "fill" /\ i < done + Len(block))
                        => i \notin input.bad
  /\ ~Returned => result = Ref!Pending

IInv == /\ TypeOK /\ Control /\ BaseMeetsItsScalar
        /\ BucketsExact /\ NoSharedBucket /\ PartialSums

-----------------------------------------------------------------------------
(***************************************************************************)
(* The geometry of the bucket array.                                       *)
(***************************************************************************)
LEMMA Sizes ==
  /\ NumWindows \in Nat \ {0} /\ NBuckets \in Nat \ {0}
  /\ NumWindows * C \in Nat /\ NumWindows * C >= Bits
<1> DEFINE a == Bits + C - 1
<1>1. a \in Nat /\ C \in Nat \ {0} /\ Bits \in Nat \ {0}
  BY SizesAssumption
<1>2. a = (a \div C) * C + (a % C) /\ a % C \in 0 .. C - 1 /\ a \div C \in Nat
  BY <1>1, DivMod
<1>3. (a \div C) * C >= Bits
  BY <1>1, <1>2
<1>4. a \div C # 0
  BY <1>1, <1>3
<1>5. Pow2[1] = 2
  BY Pow2Def
<1>6. Pow2[C] >= 2 /\ Pow2[C] \in Nat
  BY SMTT(40), <1>1, <1>5, Pow2Monotone, Pow2Def
<1> QED BY <1>1, <1>2, <1>3, <1>4, <1>6 DEF NumWindows, NBuckets

LEMMA SlotRange ==
  ASSUME NEW w \in Windows, NEW d \in 1 .. NBuckets
  PROVE  Slot(w, d) \in Slots
<1>1. w \in Nat /\ w + 1 <= NumWindows /\ NBuckets \in Nat /\ NumWindows \in Nat
  BY Sizes DEF Windows
<1>2. (w + 1) * NBuckets <= NumWindows * NBuckets
  BY <1>1
<1>3. (w + 1) * NBuckets = w * NBuckets + NBuckets /\ w * NBuckets \in Nat
  BY <1>1
<1> QED BY <1>1, <1>2, <1>3 DEF Slot, Slots

(* par_chunks_mut hands out disjoint slices. *)
LEMMA SlotInjective ==
  ASSUME NEW v \in Windows, NEW w \in Windows,
         NEW d \in 1 .. NBuckets, NEW e \in 1 .. NBuckets,
         Slot(v, d) = Slot(w, e)
  PROVE  v = w /\ d = e
<1>1. v \in Nat /\ w \in Nat /\ NBuckets \in Nat
  BY Sizes DEF Windows
<1>2. v * NBuckets \in Nat /\ w * NBuckets \in Nat
  BY <1>1
<1>3. v * NBuckets + d = w * NBuckets + e
  BY <1>1, <1>2 DEF Slot
<1>4. ASSUME v < w PROVE FALSE
  <2>1. (v + 1) * NBuckets <= w * NBuckets
    BY <1>1, <1>4
  <2>2. (v + 1) * NBuckets = v * NBuckets + NBuckets
    BY <1>1
  <2> QED BY <1>1, <1>2, <1>3, <2>1, <2>2
<1>5. ASSUME w < v PROVE FALSE
  <2>1. (w + 1) * NBuckets <= v * NBuckets
    BY <1>1, <1>5
  <2>2. (w + 1) * NBuckets = w * NBuckets + NBuckets
    BY <1>1
  <2> QED BY <1>1, <1>2, <1>3, <2>1, <2>2
<1>6. v = w
  BY <1>1, <1>4, <1>5
<1> QED BY <1>1, <1>2, <1>3, <1>6

LEMMA ScalarType ==
  ASSUME TypeOK, NEW i \in Items
  PROVE  input.scalars[i] \in Nat /\ input.scalars[i] \in 0 .. Pow2[Bits] - 1
<1>1. input.scalars \in [Items -> ScalarSet]
  BY DEF TypeOK, Inputs
<1>2. Pow2[Bits] \in Nat
  BY SizesAssumption, Pow2Def
<1>3. input.scalars[i] \in ScalarSet
  BY <1>1
<1>4. input.scalars[i] \in 0 .. Pow2[Bits] - 1
  BY <1>3, ScalarAssumption
<1> QED BY <1>2, <1>4

(* Nothing is left of any scalar above the top window. *)
LEMMA AboveTheTop ==
  ASSUME TypeOK, NEW i \in Items
  PROVE  Shr(input.scalars[i], NumWindows * C) = 0
BY ScalarType, Sizes, SizesAssumption, ShrPastTheEnd

-----------------------------------------------------------------------------
(***************************************************************************)
(* What one addition does to the list a bucket must hold.                  *)
(***************************************************************************)
LEMMA ListsSkip ==
  ASSUME NEW b, NEW w, NEW d, NEW m \in Items, Lists(b, w, d, m),
         Digit(input.scalars[m], w, C) # d
  PROVE  Lists(b, w, d, m + 1)
<1>1. m \in Nat /\ Items \subseteq Nat
  BY SizesAssumption DEF Items
<1> QED BY <1>1 DEF Lists

LEMMA ListsAppend ==
  ASSUME NEW b \in Seq(Items), NEW w, NEW d, NEW m \in Items, Lists(b, w, d, m),
         Digit(input.scalars[m], w, C) = d
  PROVE  Lists(Append(b, m), w, d, m + 1)
<1> DEFINE e == Append(b, m)
<1>1. /\ DOMAIN b = 1 .. Len(b) /\ DOMAIN e = 1 .. Len(b) + 1 /\ Len(b) \in Nat
      /\ \A k \in 1 .. Len(b) : e[k] = b[k] /\ b[k] \in Items
      /\ e[Len(b) + 1] = m
  OBVIOUS
<1>2. m \in Nat /\ Items \subseteq Nat
  BY SizesAssumption DEF Items
<1>3. \A k \in 1 .. Len(b) : b[k] < m
  BY <1>1 DEF Lists
<1> HIDE DEF e
<1>4. \A k, l \in DOMAIN e : k < l => e[k] < e[l]
  BY <1>1, <1>3 DEF Lists
<1>5. ASSUME NEW i \in Items
      PROVE  (\E k \in DOMAIN e : e[k] = i)
               <=> i < m + 1 /\ Digit(input.scalars[i], w, C) = d
  <2>1. (\E k \in DOMAIN e : e[k] = i) <=> i = m \/ \E k \in DOMAIN b : b[k] = i
    <3>1. \A k \in DOMAIN e : k \in 1 .. Len(b) \/ k = Len(b) + 1
      BY <1>1
    <3>2. \A k \in 1 .. Len(b) : k \in DOMAIN e
      BY <1>1
    <3>3. Len(b) + 1 \in DOMAIN e
      BY <1>1
    <3> QED BY <1>1, <3>1, <3>2, <3>3
  <2> QED BY <2>1, <1>2 DEF Lists
<1>6. Lists(e, w, d, m + 1)
  BY <1>4, <1>5 DEF Lists
<1> QED BY <1>6 DEF e

(* A complete bucket is the sum of the bases with its digit, each once. *)
LEMMA BucketPointOfList ==
  ASSUME NEW b \in Seq(Items), NEW w, NEW d, Lists(b, w, d, N), NEW i \in Items
  PROVE  BucketPoint(b)[i] = IF Digit(input.scalars[i], w, C) = d THEN 1 ELSE 0
<1> DEFINE K == {k \in DOMAIN b : b[k] = i}
<1>1. BucketPoint(b)[i] = Cardinality(K)
  BY DEF BucketPoint
<1>2. i < N /\ i \in Nat
  BY SizesAssumption DEF Items
<1>3. \A k, l \in DOMAIN b : k = l \/ k < l \/ l < k
  OBVIOUS
<1>4. \A k, l \in K : k = l
  BY <1>2, <1>3 DEF Lists
<1>5. CASE Digit(input.scalars[i], w, C) = d
  <2>1. PICK k \in DOMAIN b : b[k] = i
    BY <1>2, <1>5 DEF Lists
  <2>2. K = {k}
    BY <1>4, <2>1
  <2> QED BY <1>1, <1>5, <2>2, FS_Singleton
<1>6. CASE Digit(input.scalars[i], w, C) # d
  <2>1. K = {}
    BY <1>6 DEF Lists
  <2> QED BY <1>1, <1>6, <2>1, FS_EmptySet
<1> QED BY <1>5, <1>6

-----------------------------------------------------------------------------
(***************************************************************************)
(* Frames: a conjunct of the invariant survives a step that leaves alone   *)
(* the variables it speaks of.                                             *)
(***************************************************************************)
LEMMA FillFrame ==
  ASSUME BucketsExact, NoSharedBucket, UNCHANGED <<input, done, block, fillVars>>
  PROVE  BucketsExact' /\ NoSharedBucket'
BY DEF BucketsExact, NoSharedBucket, Lists, NextDigit, fillVars

LEMMA ReadFrame ==
  ASSUME BaseMeetsItsScalar, UNCHANGED <<input, readVars>>
  PROVE  BaseMeetsItsScalar'
BY DEF BaseMeetsItsScalar, readVars

LEMMA NotReducing ==
  ASSUME pc' \notin Reducing
  PROVE  PartialSums'
BY DEF PartialSums, Reducing

LEMMA PointTypes ==
  /\ Zero \in Points
  /\ \A p, q \in Points : Add(p, q) \in Points
  /\ \A b \in Seq(Items) : BucketPoint(b) \in Points
<1>1. Zero \in Points /\ \A p, q \in Points : Add(p, q) \in Points
  BY DEF Zero, Add, Points
<1>2. ASSUME NEW b \in Seq(Items), NEW i \in Items
      PROVE  Cardinality({k \in DOMAIN b : b[k] = i}) \in Nat
  <2>1. IsFiniteSet(1 .. Len(b))
    BY FS_Interval
  <2>2. {k \in DOMAIN b : b[k] = i} \subseteq 1 .. Len(b)
    OBVIOUS
  <2> QED BY <2>1, <2>2, FS_Subset, FS_CardinalityType
<1> QED BY <1>1, <1>2 DEF BucketPoint, Points

LEMMA InputType ==
  ASSUME TypeOK
  PROVE  /\ input.baseRecs \in Nat /\ input.scalarRecs \in Nat
         /\ ~input.onDisk => input.scalarRecs = N /\ input.bad = {}
BY SizesAssumption DEF TypeOK, Inputs

LEMMA InitInv == Init => IInv
<1> SUFFICES ASSUME Init PROVE IInv
  OBVIOUS
<1>1. TypeOK
  <2>1. NumWindows - 1 \in Windows /\ NBuckets \in 0 .. NBuckets /\ 0 \in 0 .. C
    BY Sizes, SizesAssumption DEF Windows
  <2>2. result \in [status : {"pending", "ok", "err"}, point : Points]
    BY PointTypes DEF Init, Ref!Pending, Ref!Zero, Ref!Items, Zero, Items
  <2> QED BY <2>1, <2>2, PointTypes, SizesAssumption DEF Init, TypeOK
<1>2. Control
  <2>1. bpos <= input.baseRecs /\ spos <= input.scalarRecs
    BY <1>1, InputType DEF Init
  <2>2. \A i \in Items : ~(i < 0)
    BY SizesAssumption DEF Items
  <2>3. Len(block) = 0
    BY DEF Init
  <2> QED BY <2>1, <2>2, <2>3 DEF Init, Control, Reducing, Filling, Returned
<1>3. BaseMeetsItsScalar
  BY SizesAssumption DEF Init, BaseMeetsItsScalar
<1>4. BucketsExact
  <2>1. ASSUME NEW w \in Windows, NEW d \in 1 .. NBuckets
        PROVE  Lists(buckets[Slot(w, d)], w, d, done + pos[w])
    <3>1. buckets[Slot(w, d)] = << >> /\ done + pos[w] = 0
      BY SlotRange DEF Init
    <3>2. \A i \in Items : ~(i < 0)
      BY SizesAssumption DEF Items
    <3> QED BY <3>1, <3>2 DEF Lists
  <2> QED BY <2>1 DEF BucketsExact
<1>5. NoSharedBucket /\ PartialSums
  BY DEF Init, NoSharedBucket, PartialSums
<1> QED BY <1>1, <1>2, <1>3, <1>4, <1>5 DEF IInv

-----------------------------------------------------------------------------
(***************************************************************************)
(* Reading: one lemma per action.                                          *)
(***************************************************************************)
LEMMA StartInv == IInv /\ Start => IInv'
<1> SUFFICES ASSUME IInv, Start PROVE IInv'
  OBVIOUS
<1> USE DEF IInv
<1>1. TypeOK'
  BY PointTypes DEF TypeOK, Start, callVars, readVars, fillVars, reduceVars,
                    Ref!Point
<1>2. Control'
  BY SizesAssumption
     DEF TypeOK, Control, Start, readVars, fillVars, reduceVars, Reducing, Filling,
         Returned, NextDigit
<1>3. PartialSums'
  BY NotReducing DEF Start, Reducing
<1> QED BY <1>1, <1>2, <1>3, FillFrame, ReadFrame DEF Start, readVars

LEMMA ErrorInv ==
  ASSUME IInv, Error, UNCHANGED block, pc \in {"read", "decode"}
  PROVE  IInv'
<1> USE DEF IInv
<1>1. TypeOK'
  BY PointTypes DEF TypeOK, Error, fillVars, reduceVars, Ref!Failure, Ref!Zero, Ref!Items,
                    Zero, Items
<1>2. Control'
  BY DEF TypeOK, Control, Error, fillVars, reduceVars, Reducing, Filling, Returned, NextDigit
<1>3. PartialSums'
  BY NotReducing DEF Error, Reducing
<1> QED BY <1>1, <1>2, <1>3, FillFrame, ReadFrame DEF Error, readVars

LEMMA ShortReadInv == IInv /\ ShortRead => IInv'
BY ErrorInv DEF ShortRead

LEMMA DecodeErrorInv == IInv /\ DecodeError => IInv'
BY ErrorInv DEF DecodeError

LEMMA ThisBlockRange ==
  ASSUME TypeOK, done < N
  PROVE  ThisBlock \in Nat /\ ThisBlock <= N - done
BY SizesAssumption DEF TypeOK, ThisBlock

LEMMA ReadBlockInv == IInv /\ ReadBlock => IInv'
<1> SUFFICES ASSUME IInv, ReadBlock PROVE IInv'
  OBVIOUS
<1> USE DEF IInv
<1> DEFINE t == ThisBlock
<1>1. /\ pc = "read" /\ done < N /\ block = << >> /\ bpos = done
      /\ spos = IF input.onDisk THEN done ELSE 0
      /\ done \in Nat /\ N \in Nat
  BY SizesAssumption DEF ReadBlock, Control, TypeOK, BaseMeetsItsScalar, Reducing
<1>2. t \in Nat /\ t <= N - done
  BY <1>1, ThisBlockRange
<1> HIDE DEF t
<1>3. block' = [k \in 1 .. t |-> Item(k)]
  BY DEF ReadBlock, t
<1>4. ASSUME NEW k \in 1 .. t
      PROVE  /\ Item(k) \in [base : Items, scalar : ScalarSet]
             /\ Item(k).base = done + k - 1
             /\ Item(k).scalar = input.scalars[done + k - 1]
  <2>1. done + k - 1 \in Items
    BY <1>1, <1>2 DEF Items
  <2>2. input.scalars \in [Items -> ScalarSet]
    BY DEF TypeOK, Inputs
  <2> QED BY <1>1, <2>1, <2>2 DEF Item
<1>5. block' \in Seq([base : Items, scalar : ScalarSet]) /\ Len(block') = t
      /\ DOMAIN block' = 1 .. t
  BY <1>2, <1>3, <1>4
<1>6. TypeOK'
  BY <1>1, <1>2, <1>5
     DEF TypeOK, ReadBlock, callVars, fillVars, reduceVars, t
<1>7. Control'
  <2>1. bpos' <= input.baseRecs /\ (input.onDisk => spos' <= input.scalarRecs)
    BY DEF ReadBlock, Readable, Control
  <2>2. busy = {} /\ busy' = {} /\ pos' = pos /\ \A w \in Windows : pos[w] = 0
    BY <1>1 DEF ReadBlock, Control, fillVars
  <2>3. pc' = "decode" /\ input' = input /\ done' = done /\ result' = result
        /\ UNCHANGED reduceVars
    BY DEF ReadBlock, callVars
  <2> QED BY <1>1, <1>2, <1>5, <2>1, <2>2, <2>3
     DEF Control, reduceVars, Reducing, Filling, Returned
<1>8. BaseMeetsItsScalar'
  <2>1. bpos' = done + t /\ done' = done /\ input' = input
        /\ spos' = IF input.onDisk THEN done + t ELSE 0
    BY <1>1 DEF ReadBlock, callVars, t
  <2> QED BY <1>1, <1>2, <1>3, <1>4, <1>5, <2>1 DEF BaseMeetsItsScalar
<1>9. BucketsExact' /\ NoSharedBucket' /\ PartialSums'
  <2>1. busy = {} /\ busy' = {} /\ input' = input /\ done' = done /\ pos' = pos
        /\ buckets' = buckets /\ pc' = "decode"
    BY <1>1 DEF ReadBlock, Control, callVars, fillVars
  <2> QED BY <2>1 DEF BucketsExact, Lists, NoSharedBucket, PartialSums
<1> QED BY <1>6, <1>7, <1>8, <1>9

LEMMA DecodeInv == IInv /\ Decode => IInv'
<1> SUFFICES ASSUME IInv, Decode PROVE IInv'
  OBVIOUS
<1> USE DEF IInv
<1>1. TypeOK'
  BY DEF TypeOK, Decode, callVars, readVars, fillVars, reduceVars
<1>2. \A i \in Items : i < done + Len(block) => i \notin input.bad
  <2> SUFFICES ASSUME NEW i \in Items, i < done + Len(block) PROVE i \notin input.bad
    OBVIOUS
  <2>1. CASE i < done
    BY <2>1 DEF Control
  <2>2. CASE ~(i < done)
    <3> DEFINE k == i - done + 1
    <3>1. i \in Nat /\ done \in Nat /\ Len(block) \in Nat /\ DOMAIN block = 1 .. Len(block)
      BY SizesAssumption DEF Items, TypeOK
    <3>2. k \in DOMAIN block /\ done + k - 1 = i
      BY <2>2, <3>1
    <3> QED BY <3>2 DEF BaseMeetsItsScalar, Decode, Decodable
  <2> QED BY <2>1, <2>2
<1>3. Control'
  BY <1>2
     DEF TypeOK, Control, Decode, callVars, readVars, fillVars, reduceVars, Reducing,
         Filling, Returned, NextDigit
<1>4. PartialSums'
  BY NotReducing DEF Decode, Reducing
<1> QED BY <1>1, <1>3, <1>4, FillFrame, ReadFrame DEF Decode, readVars, callVars

-----------------------------------------------------------------------------
(***************************************************************************)
(* The parallel fill.                                                      *)
(***************************************************************************)
(* The item window w routes next: a record of the file, a digit in range.  *)
LEMMA NextItem ==
  ASSUME IInv, pc = "fill", NEW w \in Windows, pos[w] < Len(block)
  PROVE  /\ pos[w] + 1 \in DOMAIN block
         /\ done + pos[w] \in Items
         /\ block[pos[w] + 1].base = done + pos[w]
         /\ block[pos[w] + 1].scalar = input.scalars[done + pos[w]]
         /\ NextDigit(w) = Digit(input.scalars[done + pos[w]], w, C)
         /\ NextDigit(w) \in 0 .. NBuckets
<1> USE DEF IInv
<1>1. /\ done \in Nat /\ pos[w] \in Nat /\ Len(block) \in Nat /\ N \in Nat
      /\ DOMAIN block = 1 .. Len(block)
  BY SizesAssumption DEF TypeOK
<1>2. bpos = done + Len(block) /\ bpos <= N
  BY DEF BaseMeetsItsScalar
<1>3. pos[w] + 1 \in DOMAIN block /\ done + (pos[w] + 1) - 1 = done + pos[w]
  BY <1>1
<1>4. done + pos[w] \in Items
  BY <1>1, <1>2 DEF Items
<1>5. /\ block[pos[w] + 1].base = done + pos[w]
      /\ block[pos[w] + 1].scalar = input.scalars[done + pos[w]]
  BY <1>3 DEF BaseMeetsItsScalar
<1>6. w \in Nat /\ C \in Nat
  BY SizesAssumption, Sizes DEF Windows
<1>7. NextDigit(w) = Digit(input.scalars[done + pos[w]], w, C)
  BY <1>5 DEF NextDigit
<1>8. Digit(input.scalars[done + pos[w]], w, C) \in 0 .. NBuckets
  BY <1>4, <1>6, ScalarType, DigitRange DEF NBuckets
<1> QED BY <1>3, <1>4, <1>5, <1>7, <1>8

(* A thread's step on window w leaves the digits of the other windows. *)
LEMMA OtherDigits ==
  ASSUME TypeOK, NEW w \in Windows, block' = block, pos' = [pos EXCEPT ![w] = @ + 1]
  PROVE  \A v \in Windows : v # w => pos'[v] = pos[v] /\ NextDigit(v)' = NextDigit(v)
BY DEF TypeOK, NextDigit

LEMMA SkipZeroInv == \A w \in Windows : IInv /\ SkipZero(w) => IInv'
<1> SUFFICES ASSUME NEW w \in Windows, IInv, SkipZero(w) PROVE IInv'
  OBVIOUS
<1> USE DEF IInv
<1>1. /\ pc = "fill" /\ w \notin busy /\ pos[w] < Len(block) /\ NextDigit(w) = 0
      /\ pos' = [pos EXCEPT ![w] = @ + 1] /\ block' = block
      /\ input' = input /\ done' = done /\ pc' = pc /\ busy' = busy
      /\ reg' = reg /\ buckets' = buckets /\ result' = result
      /\ UNCHANGED readVars /\ UNCHANGED reduceVars
  BY DEF SkipZero, CanRoute, callVars, readVars
<1>2. pos \in [Windows -> Nat] /\ Len(block) \in Nat /\ done \in Nat
  BY SizesAssumption DEF TypeOK
<1>3. pos'[w] = pos[w] + 1 /\ pos' \in [Windows -> Nat]
  BY <1>1, <1>2
<1>4. TypeOK'
  BY <1>1, <1>3 DEF TypeOK, readVars, reduceVars
<1>5. Control'
  <2>1. \A v \in Windows : pos'[v] <= Len(block)
    BY <1>1, <1>2 DEF Control
  <2>2. \A v \in busy : pos'[v] < Len(block) /\ NextDigit(v)' # 0
    BY <1>1, OtherDigits DEF Control, TypeOK
  <2> QED BY <1>1, <2>1, <2>2 DEF Control, readVars, reduceVars, Reducing, Filling, Returned
<1>6. BucketsExact'
  <2> SUFFICES ASSUME NEW v \in Windows, NEW d \in 1 .. NBuckets
               PROVE  Lists(buckets[Slot(v, d)], v, d, done + pos'[v])
    BY <1>1 DEF BucketsExact, Lists
  <2>1. Lists(buckets[Slot(v, d)], v, d, done + pos[v])
    BY DEF BucketsExact
  <2>2. CASE v = w
    <3>1. done + pos'[w] = (done + pos[w]) + 1
      BY <1>2, <1>3
    <3>2. Digit(input.scalars[done + pos[w]], w, C) = 0 /\ done + pos[w] \in Items
      BY <1>1, NextItem
    <3>3. d # 0
      OBVIOUS
    <3> QED BY <2>1, <2>2, <3>1, <3>2, <3>3, ListsSkip
  <2>3. CASE v # w
    <3>1. pos'[v] = pos[v]
      BY <1>1, <1>2, <2>3
    <3> QED BY <2>1, <3>1
  <2> QED BY <2>2, <2>3
<1>7. NoSharedBucket'
  <2>1. \A v \in busy : v # w /\ v \in Windows
    BY <1>1 DEF TypeOK
  <2>2. \A v \in busy : NextDigit(v)' = NextDigit(v)
    BY <1>1, <2>1, OtherDigits
  <2> QED BY <1>1, <2>2 DEF NoSharedBucket
<1> QED BY <1>1, <1>4, <1>5, <1>6, <1>7, ReadFrame, NotReducing DEF Reducing

LEMMA LoadBucketInv == \A w \in Windows : IInv /\ LoadBucket(w) => IInv'
<1> SUFFICES ASSUME NEW w \in Windows, IInv, LoadBucket(w) PROVE IInv'
  OBVIOUS
<1> USE DEF IInv
<1> DEFINE s == Slot(w, NextDigit(w))
<1>1. /\ pc = "fill" /\ w \notin busy /\ pos[w] < Len(block) /\ NextDigit(w) # 0
      /\ pos' = pos /\ block' = block /\ reg' = [reg EXCEPT ![w] = buckets[s]]
      /\ input' = input /\ done' = done /\ pc' = pc /\ busy' = busy \cup {w}
      /\ buckets' = buckets /\ result' = result
      /\ UNCHANGED readVars /\ UNCHANGED reduceVars
  BY DEF LoadBucket, CanRoute, callVars, readVars
<1>2. NextDigit(w) \in 1 .. NBuckets
  BY <1>1, NextItem, Sizes
<1>3. s \in Slots
  BY <1>2, SlotRange
<1>4. TypeOK'
  BY <1>1, <1>3 DEF TypeOK, readVars, reduceVars
<1>5. \A v : NextDigit(v)' = NextDigit(v)
  BY <1>1 DEF NextDigit
<1>6. Control'
  BY <1>1, <1>5 DEF Control, readVars, reduceVars, Reducing, Filling, Returned
<1>7. BucketsExact'
  BY <1>1 DEF BucketsExact, Lists
<1>8. NoSharedBucket'
  <2>1. reg \in [Windows -> Seq(Items)] /\ busy \subseteq Windows
    BY DEF TypeOK
  <2>2. reg'[w] = buckets[s] /\ \A v \in busy : reg'[v] = reg[v]
    BY <1>1, <2>1
  <2>3. \A v \in busy : NextDigit(v) \in 1 .. NBuckets
    BY <1>1, <2>1, NextItem, Sizes DEF Control
  <2>4. \A v \in busy : Slot(v, NextDigit(v)) # s
    BY <1>1, <1>2, <2>1, <2>3, SlotInjective
  <2> QED BY <1>1, <1>5, <2>2, <2>4 DEF NoSharedBucket
<1> QED BY <1>1, <1>4, <1>6, <1>7, <1>8, ReadFrame, NotReducing DEF Reducing

LEMMA StoreBucketInv == \A w \in Windows : IInv /\ StoreBucket(w) => IInv'
<1> SUFFICES ASSUME NEW w \in Windows, IInv, StoreBucket(w) PROVE IInv'
  OBVIOUS
<1> USE DEF IInv
<1> DEFINE e == NextDigit(w)
           s == Slot(w, e)
           m == done + pos[w]
<1>1. /\ pc = "fill" /\ w \in busy /\ busy' = busy \ {w}
      /\ pos' = [pos EXCEPT ![w] = @ + 1] /\ block' = block
      /\ buckets' = [buckets EXCEPT ![s] = Append(reg[w], block[pos[w] + 1].base)]
      /\ input' = input /\ done' = done /\ pc' = pc /\ reg' = reg /\ result' = result
      /\ UNCHANGED readVars /\ UNCHANGED reduceVars
  BY DEF StoreBucket, callVars, readVars
<1>2. pos \in [Windows -> Nat] /\ Len(block) \in Nat /\ done \in Nat /\ busy \subseteq Windows
      /\ buckets \in [Slots -> Seq(Items)] /\ reg \in [Windows -> Seq(Items)]
  BY SizesAssumption DEF TypeOK
<1>3. pos[w] < Len(block) /\ e # 0
  BY <1>1 DEF Control
<1>4. /\ m \in Items /\ block[pos[w] + 1].base = m
      /\ e = Digit(input.scalars[m], w, C) /\ e \in 1 .. NBuckets
  BY <1>1, <1>3, NextItem, Sizes
<1>5. s \in Slots
  BY <1>4, SlotRange
<1>6. reg[w] = buckets[s]
  BY <1>1 DEF NoSharedBucket
<1>7. buckets' = [buckets EXCEPT ![s] = Append(buckets[s], m)]
  BY <1>1, <1>4, <1>6
<1>8. pos'[w] = pos[w] + 1 /\ pos' \in [Windows -> Nat]
  BY <1>1, <1>2
<1> HIDE DEF e, s, m
<1>9. buckets' \in [Slots -> Seq(Items)]
  <2>1. Append(buckets[s], m) \in Seq(Items)
    BY <1>2, <1>4, <1>5
  <2> QED BY <1>2, <1>7, <2>1
<1>10. TypeOK'
  BY <1>1, <1>8, <1>9 DEF TypeOK, readVars, reduceVars
<1>11. Control'
  <2>1. \A v \in Windows : pos'[v] <= Len(block)
    BY <1>1, <1>2, <1>3 DEF Control
  <2>2. \A v \in busy' : pos'[v] < Len(block) /\ NextDigit(v)' # 0
    BY <1>1, <1>2, OtherDigits DEF Control
  <2> QED BY <1>1, <2>1, <2>2 DEF Control, readVars, reduceVars, Reducing, Filling, Returned
<1>12. BucketsExact'
  <2> SUFFICES ASSUME NEW v \in Windows, NEW d \in 1 .. NBuckets
               PROVE  Lists(buckets'[Slot(v, d)], v, d, done + pos'[v])
    BY <1>1 DEF BucketsExact, Lists
  <2>1. Lists(buckets[Slot(v, d)], v, d, done + pos[v])
    BY DEF BucketsExact
  <2>2. Slot(v, d) \in Slots
    BY SlotRange
  <2>3. CASE v = w /\ d = e
    <3>1. Slot(v, d) = s /\ done + pos[v] = m /\ done + pos'[v] = m + 1
      BY <1>2, <1>8, <2>3 DEF s, m
    <3>2. buckets'[s] = Append(buckets[s], m)
      BY <1>2, <1>5, <1>7
    <3> QED BY <1>2, <1>4, <1>5, <2>1, <2>3, <3>1, <3>2, ListsAppend
  <2>4. CASE v = w /\ d # e
    <3>1. Slot(v, d) # s
      BY <1>4, <2>4, SlotInjective DEF s
    <3>2. buckets'[Slot(v, d)] = buckets[Slot(v, d)]
      BY <1>2, <1>7, <2>2, <3>1
    <3>3. done + pos[v] = m /\ done + pos'[v] = m + 1
      BY <1>2, <1>8, <2>4 DEF m
    <3> QED BY <1>4, <2>1, <2>4, <3>2, <3>3, ListsSkip
  <2>5. CASE v # w
    <3>1. Slot(v, d) # s
      BY <1>4, <2>5, SlotInjective DEF s
    <3>2. buckets'[Slot(v, d)] = buckets[Slot(v, d)] /\ pos'[v] = pos[v]
      BY <1>1, <1>2, <1>7, <2>2, <2>5, <3>1
    <3> QED BY <2>1, <3>2
  <2> QED BY <2>3, <2>4, <2>5
<1>13. NoSharedBucket'
  <2>1. \A v \in busy' : v \in busy /\ v # w /\ NextDigit(v)' = NextDigit(v)
    BY <1>1, <1>2, OtherDigits
  <2>2. \A v \in busy' : NextDigit(v) \in 1 .. NBuckets
    BY SMTT(40), <1>1, <1>2, <2>1, NextItem, Sizes DEF Control
  <2>3. \A v \in busy' : Slot(v, NextDigit(v)) \in Slots /\ Slot(v, NextDigit(v)) # s
    BY <1>2, <1>4, <2>1, <2>2, SlotRange, SlotInjective DEF s
  <2>4. \A v \in busy' : buckets'[Slot(v, NextDigit(v))] = buckets[Slot(v, NextDigit(v))]
    BY <1>2, <1>7, <2>3
  <2> QED BY <1>1, <2>1, <2>4 DEF NoSharedBucket
<1> QED BY <1>1, <1>10, <1>11, <1>12, <1>13, ReadFrame, NotReducing DEF Reducing

LEMMA BlockDoneInv == IInv /\ BlockDone => IInv'
<1> SUFFICES ASSUME IInv, BlockDone PROVE IInv'
  OBVIOUS
<1> USE DEF IInv
<1>1. /\ pc = "fill" /\ busy = {} /\ busy' = busy
      /\ \A w \in Windows : pos[w] = Len(block)
      /\ done' = done + Len(block) /\ pos' = [w \in Windows |-> 0] /\ block' = << >>
      /\ pc' = IF done' < N THEN "read" ELSE "double"
      /\ UNCHANGED <<input, result, bpos, spos, reg, buckets, win, dbl, dig, running, sum, acc>>
  BY DEF BlockDone, callVars, reduceVars
<1>2. done \in Nat /\ Len(block) \in Nat /\ N \in Nat /\ N > 0
      /\ done' = bpos /\ bpos <= N /\ bpos \in Nat
  BY <1>1, SizesAssumption DEF TypeOK, BaseMeetsItsScalar, Control
<1>3. TypeOK'
  BY <1>1, <1>2 DEF TypeOK
<1>4. Control'
  <2>1. done' < N \/ done' = N
    BY <1>2
  <2>2. Len(block') = 0
    BY <1>1
  <2>3. pc' \in {"read", "double"} /\ (pc' = "read" => done' < N)
        /\ (pc' = "double" => done' = N)
    BY <1>1, <1>2
  <2>4. \A i \in Items : i < done' => i \notin input'.bad
    BY <1>1 DEF Control
  <2>5. win' = NumWindows - 1 /\ dbl' = 0 /\ acc' = Zero
    BY <1>1 DEF Control, Filling
  <2>6. result' = Ref!Pending /\ bpos' <= input'.baseRecs
        /\ (input.onDisk => spos' <= input'.scalarRecs)
    BY <1>1 DEF Control, Returned
  <2>7. busy' = {} /\ (\A w \in Windows : pos'[w] = 0)
    BY <1>1
  <2> QED BY <1>1, <1>2, <2>2, <2>3, <2>4, <2>5, <2>6, <2>7
             DEF Control, Reducing, Filling, Returned
<1>5. BaseMeetsItsScalar'
  BY <1>1, <1>2 DEF BaseMeetsItsScalar
<1>6. BucketsExact'
  <2>1. \A w \in Windows : done' + pos'[w] = done + pos[w]
    BY <1>1, <1>2
  <2> QED BY <1>1, <2>1 DEF BucketsExact, Lists
<1>7. NoSharedBucket'
  BY <1>1 DEF NoSharedBucket
<1>8. PartialSums'
  <2>1. \A i \in Items : acc'[i] = 0 /\ Shr(input'.scalars[i], (win' + 1) * C) = 0
    <3>1. win' + 1 = NumWindows
      BY <1>1, Sizes DEF Control, Filling
    <3> QED BY <1>1, <3>1, AboveTheTop DEF Control, Filling, Zero
  <2>2. Pow2[C - dbl'] \in Nat
    <3>1. dbl' = 0
      BY <1>1 DEF Control, Filling
    <3> QED BY <3>1, SizesAssumption, Pow2Def
  <2> QED BY <1>1, <2>1, <2>2 DEF PartialSums
<1> QED BY <1>3, <1>4, <1>5, <1>6, <1>7, <1>8

-----------------------------------------------------------------------------
(***************************************************************************)
(* The reduction.                                                          *)
(***************************************************************************)
(* Control survives a step of the reduction that stays in the reduction.   *)
LEMMA ReducingControl ==
  ASSUME Control, pc \in Reducing, pc' \in Reducing,
         UNCHANGED <<input, result, readVars, fillVars>>
  PROVE  Control'
BY DEF Control, readVars, fillVars, Reducing, Filling, Returned, NextDigit

LEMMA DoubleInv == IInv /\ Double => IInv'
<1> SUFFICES ASSUME IInv, Double PROVE IInv'
  OBVIOUS
<1> USE DEF IInv
<1>1. /\ pc = "double" /\ pc' = pc /\ dbl > 0 /\ dbl' = dbl - 1 /\ acc' = Add(acc, acc)
      /\ UNCHANGED <<input, result, readVars, fillVars, win, dig, running, sum>>
  BY DEF Double, callVars
<1>2. dbl \in Nat /\ dbl <= C /\ C \in Nat /\ win \in Nat
  BY SizesAssumption, Sizes DEF TypeOK, Windows
<1>3. TypeOK'
  <2>1. dbl' \in 0 .. C
    BY <1>1, <1>2
  <2>2. acc' \in Points
    BY <1>1, PointTypes DEF TypeOK
  <2> QED BY <1>1, <2>1, <2>2 DEF TypeOK, readVars, fillVars
<1>4. PartialSums'
  <2>1. C - dbl \in Nat /\ C - dbl' = (C - dbl) + 1
    BY <1>1, <1>2
  <2>2. Pow2[C - dbl'] = 2 * Pow2[C - dbl] /\ Pow2[C - dbl] \in Nat
    BY <2>1, Pow2Def
  <2>3. ASSUME NEW i \in Items
        PROVE  acc'[i] = Shr(input.scalars[i], (win + 1) * C) * Pow2[C - dbl']
    <3> DEFINE h == Shr(input.scalars[i], (win + 1) * C)
    <3>1. h \in Nat
      <4>1. win + 1 \in Nat /\ input.scalars[i] \in Nat
        BY <1>2, ScalarType
      <4> QED BY <1>2, <4>1, DigitRange
    <3>2. acc[i] = h * Pow2[C - dbl]
      BY <1>1 DEF PartialSums
    <3>3. acc'[i] = acc[i] + acc[i]
      BY <1>1 DEF Add
    <3> HIDE DEF h
    <3>4. acc'[i] = h * (2 * Pow2[C - dbl])
      BY <2>2, <3>1, <3>2, <3>3
    <3> QED BY <2>2, <3>4 DEF h
  <2> QED BY <1>1, <2>3 DEF PartialSums
<1> QED BY <1>1, <1>3, <1>4, FillFrame, ReadFrame, ReducingControl DEF Reducing, readVars

LEMMA StartSumInv == IInv /\ StartSum => IInv'
<1> SUFFICES ASSUME IInv, StartSum PROVE IInv'
  OBVIOUS
<1> USE DEF IInv
<1>1. /\ pc = "double" /\ pc' = "sum" /\ dbl = 0
      /\ dig' = NBuckets /\ running' = Zero /\ sum' = Zero
      /\ UNCHANGED <<input, result, readVars, fillVars, win, dbl, acc>>
  BY DEF StartSum, callVars
<1>2. TypeOK'
  <2>1. dig' \in 0 .. NBuckets
    BY <1>1, Sizes
  <2> QED BY <1>1, <2>1, PointTypes DEF TypeOK, readVars, fillVars
<1>3. PartialSums'
  <2>1. ASSUME NEW i \in Items
        PROVE  /\ acc[i] = Shr(input.scalars[i], (win + 1) * C) * Pow2[C]
               /\ ~(Digit(input.scalars[i], win, C) > NBuckets)
               /\ Zero[i] = 0
    <3>1. win \in Nat /\ C \in Nat /\ C - 0 = C
      BY SizesAssumption, Sizes DEF TypeOK, Windows
    <3>2. Digit(input.scalars[i], win, C) \in 0 .. NBuckets
      BY <3>1, ScalarType, DigitRange DEF NBuckets
    <3> QED BY <1>1, <3>1, <3>2, Sizes DEF PartialSums, Zero
  <2> QED BY <1>1, <2>1 DEF PartialSums
<1> QED BY <1>1, <1>2, <1>3, FillFrame, ReadFrame, ReducingControl DEF Reducing, readVars

LEMMA AddBucketInv == IInv /\ AddBucket => IInv'
<1> SUFFICES ASSUME IInv, AddBucket PROVE IInv'
  OBVIOUS
<1> USE DEF IInv
<1> DEFINE b == buckets[Slot(win, dig)]
<1>1. /\ pc = "sum" /\ pc' = pc /\ dig > 0 /\ dig' = dig - 1
      /\ running' = Add(running, BucketPoint(b)) /\ sum' = Add(sum, running')
      /\ UNCHANGED <<input, result, readVars, fillVars, win, dbl, acc>>
  BY DEF AddBucket, callVars
<1>2. dig \in 1 .. NBuckets /\ win \in Windows /\ NBuckets \in Nat
  BY <1>1, Sizes DEF TypeOK
<1>3. b \in Seq(Items)
  BY <1>2, SlotRange DEF TypeOK
<1>4. Lists(b, win, dig, N)
  <2>1. done = N /\ pos[win] = 0 /\ N \in Nat
    BY <1>1, <1>2, SizesAssumption DEF Control, Reducing
  <2>2. done + pos[win] = N
    BY <2>1
  <2> QED BY <1>2, <2>2 DEF BucketsExact
<1> HIDE DEF b
<1>5. TypeOK'
  <2>1. dig' \in 0 .. NBuckets
    BY <1>1, <1>2
  <2>2. running' \in Points
    BY <1>1, <1>3, PointTypes DEF TypeOK
  <2>3. sum' \in Points
    BY <1>1, <2>2, PointTypes DEF TypeOK
  <2> QED BY <1>1, <2>1, <2>2, <2>3 DEF TypeOK, readVars, fillVars
<1>6. PartialSums'
  <2>1. ASSUME NEW i \in Items
        PROVE  LET e == Digit(input.scalars[i], win, C)
               IN  /\ running'[i] = IF e > dig' THEN 1 ELSE 0
                   /\ sum'[i] = IF e > dig' THEN e - dig' ELSE 0
    <3> DEFINE e == Digit(input.scalars[i], win, C)
    <3>1. e \in 0 .. NBuckets
      <4>1. win \in Nat /\ C \in Nat /\ input.scalars[i] \in Nat
        BY <1>2, Sizes, SizesAssumption, ScalarType DEF Windows
      <4> QED BY <4>1, DigitRange DEF NBuckets
    <3>2. BucketPoint(b)[i] = IF e = dig THEN 1 ELSE 0
      BY <1>3, <1>4, BucketPointOfList
    <3>3. /\ running[i] = IF e > dig THEN 1 ELSE 0
          /\ sum[i] = IF e > dig THEN e - dig ELSE 0
      BY <1>1 DEF PartialSums
    <3>4. running'[i] = running[i] + BucketPoint(b)[i] /\ sum'[i] = sum[i] + running'[i]
      BY <1>1 DEF Add
    <3> HIDE DEF e
    <3>5. /\ running'[i] = IF e > dig' THEN 1 ELSE 0
          /\ sum'[i] = IF e > dig' THEN e - dig' ELSE 0
      <4>1. dig' = dig - 1 /\ e \in Int /\ dig \in Int
        BY <1>1, <1>2, <3>1
      <4>2. CASE e > dig
        BY <3>2, <3>3, <3>4, <4>1, <4>2
      <4>3. CASE e = dig
        BY <3>2, <3>3, <3>4, <4>1, <4>3
      <4>4. CASE e < dig
        BY <3>2, <3>3, <3>4, <4>1, <4>4
      <4> QED BY <4>1, <4>2, <4>3, <4>4
    <3> QED BY <3>5 DEF e
  <2> QED BY <1>1, <2>1 DEF PartialSums
<1> QED BY <1>1, <1>5, <1>6, FillFrame, ReadFrame, ReducingControl DEF Reducing, readVars

(* At the end of a window acc holds the scalars shifted down to it. *)
LEMMA WindowSum ==
  ASSUME IInv, AddWindow, NEW i \in Items
  PROVE  acc'[i] = Shr(input.scalars[i], win * C)
<1> USE DEF IInv
<1> DEFINE e == Digit(input.scalars[i], win, C)
<1>1. pc = "sum" /\ dig = 0 /\ acc' = Add(acc, sum)
  BY DEF AddWindow
<1>2. win \in Nat /\ C \in Nat
  BY SizesAssumption, Sizes DEF TypeOK, Windows
<1>3. e \in 0 .. Pow2[C] - 1
  BY <1>2, ScalarType, DigitRange
<1>4. /\ acc[i] = Shr(input.scalars[i], (win + 1) * C) * Pow2[C]
      /\ sum[i] = IF e > 0 THEN e - 0 ELSE 0
  BY <1>1 DEF PartialSums
<1>5. sum[i] = e
  BY <1>3, <1>4
<1>6. acc'[i] = acc[i] + e
  BY <1>1, <1>5 DEF Add
<1>7. input.scalars[i] \in Nat
  BY ScalarType
<1>8. Shr(input.scalars[i], win * C) = Shr(input.scalars[i], (win + 1) * C) * Pow2[C] + e
  BY <1>2, <1>7, ShrStep
<1> QED BY <1>4, <1>6, <1>8

LEMMA AddWindowInv == IInv /\ AddWindow => IInv'
<1> SUFFICES ASSUME IInv, AddWindow PROVE IInv'
  OBVIOUS
<1> USE DEF IInv
<1>1. /\ pc = "sum" /\ dig = 0 /\ acc' = Add(acc, sum)
      /\ UNCHANGED <<input, readVars, fillVars, dig, running, sum>>
  BY DEF AddWindow
<1>2. win \in Windows /\ win \in Nat /\ C \in Nat /\ dbl \in 0 .. C
  BY SizesAssumption, Sizes DEF TypeOK, Windows
<1>3. acc' \in Points
  BY <1>1, PointTypes DEF TypeOK
<1>4. CASE win = 0
  <2>1. pc' = "done" /\ result' = Ref!Point(acc') /\ UNCHANGED <<win, dbl>>
    BY <1>4 DEF AddWindow
  <2>2. TypeOK'
    BY <1>1, <1>3, <2>1 DEF TypeOK, readVars, fillVars, Ref!Point
  <2>3. Control'
    BY <1>1, <2>1 DEF Control, readVars, fillVars, Reducing, Filling, Returned, NextDigit
  <2> QED BY <1>1, <2>1, <2>2, <2>3, FillFrame, ReadFrame, NotReducing DEF Reducing, readVars
<1>5. CASE win # 0
  <2>1. pc' = "double" /\ win' = win - 1 /\ dbl' = C /\ result' = result
    BY <1>5 DEF AddWindow
  <2>2. win' \in Windows /\ dbl' \in 0 .. C
    BY <1>2, <1>5, <2>1, Sizes DEF Windows
  <2>3. TypeOK'
    BY <1>1, <1>3, <2>1, <2>2 DEF TypeOK, readVars, fillVars
  <2>4. PartialSums'
    <3>1. win' + 1 = win /\ C - dbl' = 0 /\ Pow2[0] = 1
      BY <1>2, <2>1, Pow2Def
    <3>2. ASSUME NEW i \in Items
          PROVE  acc'[i] = Shr(input'.scalars[i], (win' + 1) * C) * Pow2[C - dbl']
      <4>1. Shr(input.scalars[i], win * C) \in Nat
        BY <1>2, ScalarType, DigitRange
      <4> QED BY <1>1, <3>1, <4>1, WindowSum
    <3> QED BY <2>1, <3>2 DEF PartialSums
  <2> QED BY <1>1, <2>1, <2>3, <2>4, FillFrame, ReadFrame, ReducingControl DEF Reducing, readVars
<1> QED BY <1>4, <1>5

LEMMA StutterInv == IInv /\ UNCHANGED vars => IInv'
BY DEF IInv, TypeOK, Control, BaseMeetsItsScalar, BucketsExact, NoSharedBucket, PartialSums,
       Lists, NextDigit, Returned, vars

(* Every step of the specification preserves the invariant. *)
LEMMA StepInv == IInv /\ [Next]_vars => IInv'
<1> SUFFICES ASSUME IInv, [Next]_vars PROVE IInv'
  OBVIOUS
<1>1. CASE Caller
  BY <1>1, StartInv, ReadBlockInv, ShortReadInv, DecodeInv, DecodeErrorInv, BlockDoneInv,
     DoubleInv, StartSumInv, AddBucketInv, AddWindowInv DEF Caller
<1>2. CASE \E w \in Windows : Thread(w)
  BY <1>2, SkipZeroInv, LoadBucketInv, StoreBucketInv DEF Thread
<1>3. CASE Stopped \/ UNCHANGED vars
  BY <1>3, StutterInv DEF Stopped
<1> QED BY <1>1, <1>2, <1>3 DEF Next

(* The invariant holds in every reachable state.                           *)
LEMMA Invariance == Spec => []IInv
BY InitInv, StepInv, PTL DEF Spec

-----------------------------------------------------------------------------
(***************************************************************************)
(* The steps of the detailed specification are steps of Msm.               *)
(***************************************************************************)
LEMMA RefNames == Ref!Items = Items /\ Ref!Zero = Zero
BY DEF Ref!Items, Items, Ref!Zero, Zero

LEMMA StartRefines == IInv /\ Start => [Ref!Next]_(Ref!vars)
<1> SUFFICES ASSUME IInv, Start PROVE [Ref!Next]_(Ref!vars)
  OBVIOUS
<1>1. input' = input /\ result = Ref!Pending
  BY DEF Start, IInv, Control, Returned
<1>2. CASE N # 0
  BY <1>1, <1>2 DEF Start, Ref!vars
<1>3. CASE N = 0
  <2>1. result' = Ref!Point(Zero)
    BY <1>3 DEF Start
  <2>2. Items = {}
    BY <1>3 DEF Items
  <2>3. Zero = Ref!Value
    BY <2>2, RefNames DEF Zero, Ref!Value
  <2>4. Ref!Complete
    BY <1>3, <2>2, InputType, RefNames DEF IInv, Ref!Complete
  <2> QED BY <1>1, <2>1, <2>3, <2>4 DEF Ref!Next, Ref!Return
<1> QED BY <1>2, <1>3

LEMMA ShortReadRefines == IInv /\ ShortRead => [Ref!Next]_(Ref!vars)
<1> SUFFICES ASSUME IInv, ShortRead PROVE [Ref!Next]_(Ref!vars)
  OBVIOUS
<1>1. input' = input /\ result = Ref!Pending /\ result' = Ref!Failure /\ pc = "read"
  BY DEF ShortRead, Error, IInv, Control, Returned
<1>2. ~Ref!Complete
  <2>1. ThisBlock \in Nat /\ ThisBlock <= N - done /\ done \in Nat /\ N \in Nat
    BY <1>1, ThisBlockRange, SizesAssumption DEF IInv, Control, TypeOK
  <2>2. bpos = done /\ (input.onDisk => spos = done)
    BY <1>1, <2>1 DEF IInv, Control, BaseMeetsItsScalar
  <2>3. input.baseRecs \in Nat /\ input.scalarRecs \in Nat
    BY InputType DEF IInv
  <2> QED BY <2>1, <2>2, <2>3 DEF ShortRead, Readable, Ref!Complete
<1> QED BY <1>1, <1>2 DEF Ref!Next, Ref!Fail

LEMMA DecodeErrorRefines == IInv /\ DecodeError => [Ref!Next]_(Ref!vars)
<1> SUFFICES ASSUME IInv, DecodeError PROVE [Ref!Next]_(Ref!vars)
  OBVIOUS
<1>1. input' = input /\ result = Ref!Pending /\ result' = Ref!Failure
  BY DEF DecodeError, Error, IInv, Control, Returned
<1>2. ~Ref!Complete
  <2>1. PICK k \in DOMAIN block : block[k].base \in input.bad
    BY DEF DecodeError, Decodable
  <2>2. block[k].base \in Items
    <3>1. block \in Seq([base : Items, scalar : ScalarSet])
      BY DEF IInv, TypeOK
    <3>2. DOMAIN block = 1 .. Len(block)
      BY <3>1
    <3>3. block[k] \in [base : Items, scalar : ScalarSet]
      BY <2>1, <3>1, <3>2, ElementOfSeq
    <3> QED BY <3>3
  <2> QED BY <2>1, <2>2, RefNames DEF Ref!Complete
<1> QED BY <1>1, <1>2 DEF Ref!Next, Ref!Fail

LEMMA AddWindowRefines == IInv /\ AddWindow => [Ref!Next]_(Ref!vars)
<1> SUFFICES ASSUME IInv, AddWindow PROVE [Ref!Next]_(Ref!vars)
  OBVIOUS
<1>1. input' = input /\ result = Ref!Pending /\ pc = "sum"
  BY DEF AddWindow, IInv, Control, Returned
<1>2. CASE win # 0
  BY <1>1, <1>2 DEF AddWindow, Ref!vars
<1>3. CASE win = 0
  <2>1. result' = Ref!Point(acc')
    BY <1>3 DEF AddWindow
  <2>2. acc' = Ref!Value
    <3>1. C \in Nat /\ 0 * C = 0
      BY SizesAssumption
    <3>2. \A i \in Items : acc'[i] = input.scalars[i]
      BY <1>3, <3>1, WindowSum, ScalarType, ShrZero DEF IInv
    <3>3. acc' = [i \in Items |-> acc'[i]]
      BY DEF AddWindow, Add
    <3> QED BY <3>2, <3>3, RefNames DEF Ref!Value
  <2>3. Ref!Complete
    <3>1. done = N /\ block = << >> /\ N \in Nat
      BY <1>1, SizesAssumption DEF IInv, Control, Reducing
    <3>2. bpos = N /\ (input.onDisk => spos = N)
      BY <3>1 DEF IInv, BaseMeetsItsScalar
    <3>3. input.baseRecs >= N /\ (input.onDisk => input.scalarRecs >= N)
      BY <3>1, <3>2, InputType DEF IInv, Control
    <3>4. \A i \in Items : i \notin input.bad
      BY <3>1 DEF IInv, Control, Items
    <3> QED BY <3>1, <3>3, <3>4, InputType, RefNames DEF IInv, Ref!Complete
  <2> QED BY <1>1, <2>1, <2>2, <2>3 DEF Ref!Next, Ref!Return
<1> QED BY <1>2, <1>3

(* Every other step leaves the files and the result alone.                 *)
LEMMA StepRefines == IInv /\ [Next]_vars => [Ref!Next]_(Ref!vars)
<1> SUFFICES ASSUME IInv, [Next]_vars PROVE [Ref!Next]_(Ref!vars)
  OBVIOUS
<1>1. CASE Start \/ ShortRead \/ DecodeError \/ AddWindow
  BY <1>1, StartRefines, ShortReadRefines, DecodeErrorRefines, AddWindowRefines
<1>2. CASE ReadBlock \/ Decode \/ BlockDone \/ Double \/ StartSum \/ AddBucket
  BY <1>2 DEF ReadBlock, Decode, BlockDone, Double, StartSum, AddBucket, callVars, Ref!vars
<1>3. CASE \E w \in Windows : Thread(w)
  BY <1>3 DEF Thread, SkipZero, LoadBucket, StoreBucket, callVars, Ref!vars
<1>4. CASE Stopped \/ UNCHANGED vars
  BY <1>4 DEF Stopped, vars, Ref!vars
<1> QED BY <1>1, <1>2, <1>3, <1>4 DEF Next, Caller

-----------------------------------------------------------------------------
(***************************************************************************)
(* Theorems.                                                               *)
(***************************************************************************)
(* Every variable of the streaming multiplication keeps its type.          *)
THEOREM TypeCorrect == Spec => []TypeOK
<1>1. IInv => TypeOK
  BY DEF IInv
<1> QED BY <1>1, Invariance, PTL

(* At every moment of the parallel fill of msm_ooc each bucket holds its    *)
(* bases in file order, for every block size and number of threads.        *)
THEOREM BucketsCorrect == Spec => []BucketsExact
<1>1. IInv => BucketsExact
  BY DEF IInv
<1> QED BY <1>1, Invariance, PTL

(* No two threads of the scatter of msm_ooc are ever at the same bucket, so *)
(* no update is lost although there is no lock.                            *)
THEOREM NoLockNeeded == Spec => []NoSharedBucket
<1>1. IInv => NoSharedBucket
  BY DEF IInv
<1> QED BY <1>1, Invariance, PTL

(* The parallel fill of msm_ooc is at every moment what one thread would    *)
(* have made of the records so far.                                         *)
THEOREM ScatterCorrect == Spec => []ScatterExact
<1> QED BY BucketsCorrect, NoLockNeeded, PTL DEF ScatterExact

(* The two readers of msm_ooc stay level and stop at record N, so every     *)
(* base is multiplied by its own scalar.                                   *)
THEOREM ReadersLevel == Spec => []BaseMeetsItsScalar
<1>1. IInv => BaseMeetsItsScalar
  BY DEF IInv
<1> QED BY <1>1, Invariance, PTL

(* The reduction of msm_ooc is Horner's rule over the windows.             *)
THEOREM PartialSumsCorrect == Spec => []PartialSums
<1>1. IInv => PartialSums
  BY DEF IInv
<1> QED BY <1>1, Invariance, PTL

(* msm_ooc and msm_ooc_bases return Sum_i scalar_i * P_i if and only if the *)
(* first N records are intact, and an error otherwise.                     *)
THEOREM StreamedMsmCorrect == Spec => ImplementsMsm
<1>1. Init => Ref!Init
  BY DEF Init, Ref!Init
<1> QED BY <1>1, Invariance, StepRefines, PTL DEF Spec, ImplementsMsm
=============================================================================
