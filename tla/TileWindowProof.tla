--------------------------- MODULE TileWindowProof ---------------------------
(***************************************************************************)
(* The properties of TileWindow, for every domain, tile, circuit and file. *)
(* The invariant is inductive once the control facts of Progress are added *)
(* to the properties: which tile is open while a window is read, and how   *)
(* far a window is after each positioned read.                             *)
(***************************************************************************)
EXTENDS TileWindow, TLAPS, WellFoundedInduction

-----------------------------------------------------------------------------
(***************************************************************************)
(* Arithmetic of %.                                                        *)
(***************************************************************************)
LEMMA ModRange ==
  ASSUME NEW a \in Int, NEW n \in Nat \ {0}
  PROVE  /\ a % n \in 0 .. n - 1
         /\ \E q \in Int : a = n * q + (a % n)
<1>1. a \div n \in Int /\ a = n * (a \div n) + (a % n)
  OBVIOUS
<1>2. a % n \in 0 .. n - 1
  OBVIOUS
<1> QED BY <1>1, <1>2

LEMMA ModUnique ==
  ASSUME NEW n \in Nat \ {0}, NEW q \in Int, NEW r \in 0 .. n - 1
  PROVE  (n * q + r) % n = r
  OBVIOUS

LEMMA ModSmall ==
  ASSUME NEW n \in Nat \ {0}, NEW r \in 0 .. n - 1
  PROVE  r % n = r
  OBVIOUS

(* The rows that follow row a mod n are a + j mod n up to the boundary. *)
LEMMA ModShift ==
  ASSUME NEW a \in Int, NEW n \in Nat \ {0}, NEW j \in Nat
  PROVE  /\ (a % n) + j < n => (a + j) % n = (a % n) + j
         /\ (a % n) + j = n => (a + j) % n = 0
<1>1. PICK q \in Int : a = n * q + (a % n)
  BY ModRange
<1> DEFINE r == a % n
<1>2. r \in 0 .. n - 1
  BY ModRange
<1>3. a = n * q + r
  BY <1>1
<1> HIDE DEF r
<1>4. CASE r + j < n
  <2>1. r + j \in 0 .. n - 1
    BY <1>2, <1>4
  <2>2. (n * q + (r + j)) % n = r + j
    BY <2>1, ModUnique
  <2>3. n * q \in Int /\ a + j = n * q + (r + j)
    BY <1>2, <1>3
  <2>4. (a + j) % n = r + j
    BY <2>2, <2>3
  <2> QED BY <2>4, <1>4, <1>2 DEF r
<1>5. CASE r + j = n
  <2>1. a + j = n * (q + 1) + 0
    <3>1. n * (q + 1) = n * q + n
      OBVIOUS
    <3>2. n * q \in Int
      OBVIOUS
    <3> QED BY <3>1, <3>2, <1>2, <1>3, <1>5
  <2>2. q + 1 \in Int /\ 0 \in 0 .. n - 1
    OBVIOUS
  <2>3. (n * (q + 1) + 0) % n = 0
    BY <2>2, ModUnique
  <2>4. (a + j) % n = 0
    BY <2>1, <2>3
  <2> QED BY <2>4, <1>5 DEF r
<1>6. CASE r + j > n
  BY <1>6, <1>2 DEF r
<1> QED BY <1>4, <1>5, <1>6, <1>2

LEMMA Concatenation ==
  ASSUME NEW S, NEW a \in Seq(S), NEW b \in Seq(S)
  PROVE  /\ a \o b \in Seq(S) /\ Len(a \o b) = Len(a) + Len(b)
         /\ \A j \in 1 .. Len(a) : (a \o b)[j] = a[j]
         /\ \A j \in Len(a) + 1 .. Len(a) + Len(b) : (a \o b)[j] = b[j - Len(a)]
<1>1. a \o b \in Seq(S) /\ Len(a \o b) = Len(a) + Len(b)
  OBVIOUS
<1>2. Len(a) \in Nat /\ Len(b) \in Nat
  OBVIOUS
<1>3. ASSUME NEW j \in 1 .. Len(a) PROVE (a \o b)[j] = a[j]
  BY <1>2
<1>4. ASSUME NEW j \in Len(a) + 1 .. Len(a) + Len(b)
      PROVE  (a \o b)[j] = b[j - Len(a)]
  BY <1>2
<1> QED BY <1>1, <1>3, <1>4

-----------------------------------------------------------------------------
(***************************************************************************)
(* The halo covers every rotation a term queries.                          *)
(***************************************************************************)
LEMMA BoundedMaximum ==
  ASSUME NEW B \in Nat, NEW S \in SUBSET (0 .. B), S # {}
  PROVE  \E m \in S : \A c \in S : c <= m
<1> DEFINE T == {B - c : c \in S}
           R == OpToRel(<, Nat)
<1>1. PICK e \in S : B - e \in T
  OBVIOUS
<1>2. T \subseteq Nat /\ T # {}
  <2>1. \A c \in S : B - c \in Nat
    OBVIOUS
  <2> QED BY <2>1, <1>1
<1>3. PICK x \in T : \A y \in T : ~ (<<y, x>> \in R)
  BY <1>2, NatLessThanWellFounded, WFMin
<1>4. \A y \in T : ~ (y < x)
  BY <1>2, <1>3 DEF OpToRel
<1>5. PICK m \in S : x = B - m
  OBVIOUS
<1>6. ASSUME NEW c \in S PROVE c <= m
  <2>1. B - c \in T
    OBVIOUS
  <2> QED BY <2>1, <1>4, <1>5
<1> QED BY <1>5, <1>6

LEMMA CircuitShape ==
  ASSUME circuit \in Circuits
  PROVE  circuit \in Shape
  BY TilingAssumption

LEMMA HaloCovers ==
  ASSUME circuit \in Circuits
  PROVE  /\ MaxRot \in Nat /\ Halo \in Nat
         /\ Queried \subseteq Int
         /\ \A rot \in Queried : /\ rot * RotScale \in Int
                                 /\ - Halo <= rot * RotScale
                                 /\ rot * RotScale <= Halo
<1>1. circuit \in Shape /\ MaxRotation \in Nat \ {0} /\ RotScale \in Nat \ {0}
  BY TilingAssumption
<1>2. /\ circuit.gates \subseteq Rotations /\ circuit.lookups \subseteq Rotations
      /\ circuit.shuffles \subseteq Rotations
      /\ circuit.blinding \in 0 .. MaxRotation - 1
      /\ circuit.hasPerm \in BOOLEAN /\ circuit.hasLookup \in BOOLEAN
      /\ circuit.hasShuffle \in BOOLEAN
  BY <1>1 DEF Shape
<1>3. \A r \in Rotations : Abs(r) \in 0 .. MaxRotation
  BY <1>1 DEF Rotations, Abs
<1>4. Candidates \in SUBSET (0 .. MaxRotation) /\ Candidates # {}
  BY <1>1, <1>2, <1>3 DEF Candidates
<1>5. \E m \in Candidates : \A c \in Candidates : c <= m
  BY <1>1, <1>4, BoundedMaximum
<1>6. MaxRot \in Candidates /\ \A c \in Candidates : c <= MaxRot
  BY <1>5 DEF MaxRot
<1>7. MaxRot \in Nat /\ Halo \in Nat
  BY <1>1, <1>4, <1>6 DEF Halo
<1>8. Queried \subseteq Int
  BY <1>1, <1>2 DEF Queried, Rotations
<1>9. ASSUME NEW rot \in Queried PROVE Abs(rot) \in Candidates
  BY <1>1, <1>2 DEF Queried, Candidates, Abs, Rotations
<1>10. ASSUME NEW rot \in Queried
       PROVE  /\ rot * RotScale \in Int
              /\ - Halo <= rot * RotScale
              /\ rot * RotScale <= Halo
  <2>1. rot \in Int /\ - MaxRot <= rot /\ rot <= MaxRot
    BY <1>6, <1>7, <1>8, <1>9 DEF Abs
  <2>2. rot * RotScale <= MaxRot * RotScale
    BY <2>1, <1>1, <1>7
  <2>3. (- MaxRot) * RotScale <= rot * RotScale
    BY <2>1, <1>1, <1>7
  <2>4. (- MaxRot) * RotScale = - (MaxRot * RotScale)
    BY <1>1, <1>7
  <2> QED BY <2>1, <2>2, <2>3, <2>4, <1>1, <1>7 DEF Halo
<1> QED BY <1>7, <1>8, <1>10

-----------------------------------------------------------------------------
(***************************************************************************)
(* The inductive invariant.                                                *)
(***************************************************************************)
Progress ==
  pc = "read" =>
    /\ s < Size
    /\ reads = 0 => out = << >>
    /\ reads > 0 => remaining = 0 \/ cur = 0
    /\ reads > 1 /\ WindowLen <= Size => remaining = 0
    /\ reads > 0 /\ 0 <= s - Halo /\ s + TileLen + Halo <= Size => remaining = 0

IInv == TypeOK /\ Progress /\ WindowPrefix /\ AtMostTwoReads /\ RotatedAccess

LEMMA Geometry ==
  ASSUME TypeOK, s < Size
  PROVE  /\ TileLen \in Nat /\ TileLen <= Tile /\ s + TileLen <= Size
         /\ WindowLen \in Nat /\ WindowLen = TileLen + 2 * Halo
  BY HaloCovers, TilingAssumption DEF TypeOK, TileLen, WindowLen, Least

LEMMA CircuitKept ==
  ASSUME circuit' = circuit
  PROVE  Queried' = Queried /\ Halo' = Halo
<1>1. Queried' = Queried
  BY DEF Queried
<1>2. Candidates' = Candidates
  BY DEF Candidates
<1>3. MaxRot' = MaxRot
  BY <1>2 DEF MaxRot
<1> QED BY <1>1, <1>3 DEF Halo

LEMMA InitInvariant ==
  ASSUME Init
  PROVE  IInv
<1>1. TypeOK
  BY TilingAssumption DEF Init, TypeOK
<1>2. RotatedAccess
  BY DEF Init, RotatedAccess
<1> QED BY <1>1, <1>2 DEF Init, IInv, Progress, WindowPrefix, AtMostTwoReads

(* Only EvaluateTile changes s and seen. *)
LEMMA RowsKept ==
  ASSUME IInv, circuit' = circuit, s' = s, seen' = seen
  PROVE  /\ RotatedAccess' /\ seen' \in [0 .. s' - 1 -> [Queried' -> 0 .. Size - 1]]
         /\ Halo' = Halo /\ TileLen' = TileLen /\ WindowLen' = WindowLen
<1>1. Queried' = Queried /\ Halo' = Halo
  BY CircuitKept
<1>2. TileLen' = TileLen /\ WindowLen' = WindowLen
  BY <1>1 DEF TileLen, WindowLen
<1>3. RotatedAccess'
  BY <1>1 DEF IInv, RotatedAccess, RotationIdx
<1> QED BY <1>1, <1>2, <1>3 DEF IInv, TypeOK

LEMMA OpenWindowStep ==
  ASSUME IInv, OpenWindow
  PROVE  IInv'
<1>1. /\ RotatedAccess' /\ seen' \in [0 .. s' - 1 -> [Queried' -> 0 .. Size - 1]]
      /\ Halo' = Halo /\ TileLen' = TileLen /\ WindowLen' = WindowLen
  BY RowsKept DEF OpenWindow
<1>2. WindowLen \in Nat /\ Halo \in Nat /\ s \in Nat /\ Size \in Nat \ {0}
  <2>1. TypeOK /\ s < Size
    BY DEF IInv, OpenWindow
  <2>2. circuit \in Circuits /\ s \in 0 .. Size
    BY <2>1 DEF TypeOK
  <2> QED BY <2>1, <2>2, Geometry, HaloCovers, TilingAssumption
<1>3. s - Halo \in Int /\ (s - Halo) % Size \in 0 .. Size - 1
  BY <1>2, ModRange
<1>4. TypeOK'
  BY <1>1, <1>2, <1>3 DEF IInv, TypeOK, OpenWindow
<1>5. Progress'
  BY <1>1 DEF Progress, OpenWindow
<1>6. WindowPrefix'
  <2>1. (s - Halo) % Size = (s - Halo + 0) % Size
    BY <1>2
  <2> QED BY <2>1, <1>1, <1>2 DEF WindowPrefix, OpenWindow, WindowRow
<1>7. AtMostTwoReads'
  BY <1>1 DEF AtMostTwoReads, OpenWindow
<1> QED BY <1>1, <1>4, <1>5, <1>6, <1>7 DEF IInv

LEMMA ReadRunStep ==
  ASSUME IInv, ReadRun
  PROVE  IInv'
<1>1. /\ RotatedAccess' /\ seen' \in [0 .. s' - 1 -> [Queried' -> 0 .. Size - 1]]
      /\ Halo' = Halo /\ TileLen' = TileLen /\ WindowLen' = WindowLen
  BY RowsKept DEF ReadRun
<1>2. /\ WindowLen \in Nat /\ Halo \in Nat /\ s \in Nat /\ Size \in Nat \ {0}
      /\ TileLen \in Nat /\ s < Size /\ WindowLen = TileLen + 2 * Halo
      /\ cur \in 0 .. Size - 1 /\ remaining \in Nat /\ reads \in Nat
      /\ out \in Seq(0 .. Size - 1) /\ Len(out) \in Nat
  BY SMTT(40), Geometry, HaloCovers, TilingAssumption DEF IInv, TypeOK, ReadRun, Progress
<1>3. /\ Run \in 1 .. remaining /\ cur + Run <= Size
      /\ Run = remaining \/ cur + Run = Size
  BY <1>2 DEF ReadRun, Run, Least
<1> DEFINE t == [j \in 1 .. Run |-> cur + j - 1]
<1>4. t \in Seq(0 .. Size - 1) /\ Len(t) = Run
  <2>1. \A j \in 1 .. Run : cur + j - 1 \in 0 .. Size - 1
    BY <1>2, <1>3
  <2> QED BY <2>1, <1>3
<1>5. out' = out \o t
  BY DEF ReadRun
<1>6. /\ out' \in Seq(0 .. Size - 1) /\ Len(out') = Len(out) + Run
      /\ \A j \in 1 .. Len(out) : out'[j] = out[j]
      /\ \A j \in Len(out) + 1 .. Len(out) + Run : out'[j] = t[j - Len(out)]
  <2> HIDE DEF t
  <2>1. out \in Seq(0 .. Size - 1) /\ Run \in Nat
    BY <1>2, <1>3
  <2> QED BY <2>1, <1>4, <1>5, Concatenation
<1>7. /\ Len(out) + remaining = WindowLen /\ cur = WindowRow(Len(out))
      /\ \A j \in 1 .. Len(out) : out[j] = WindowRow(j - 1)
  BY DEF IInv, WindowPrefix, ReadRun
<1>8. s - Halo + Len(out) \in Int /\ cur = (s - Halo + Len(out)) % Size
  BY <1>2, <1>7 DEF WindowRow
<1>9. TypeOK'
  BY <1>1, <1>2, <1>3, <1>6 DEF IInv, TypeOK, ReadRun
<1>10. cur' = (s - Halo + Len(out) + Run) % Size
  <2> DEFINE a == s - Halo + Len(out)
  <2>1. a \in Int /\ Run \in Nat /\ cur = a % Size
    BY <1>2, <1>3, <1>8
  <2>2. cur' = IF cur + Run = Size THEN 0 ELSE cur + Run
    BY DEF ReadRun
  <2> HIDE DEF a
  <2>3. /\ cur + Run < Size => (a + Run) % Size = cur + Run
        /\ cur + Run = Size => (a + Run) % Size = 0
    BY <2>1, <1>2, ModShift
  <2>4. cur + Run < Size \/ cur + Run = Size
    BY <1>2, <1>3
  <2>5. cur' = (a + Run) % Size
    BY <2>2, <2>3, <2>4, <1>2
  <2> QED BY <2>5 DEF a
<1>11. \A j \in 1 .. Len(out') : out'[j] = WindowRow(j - 1)
  <2>1. ASSUME NEW j \in 1 .. Len(out') PROVE out'[j] = WindowRow(j - 1)
    <3>1. CASE j <= Len(out)
      BY <3>1, <1>2, <1>6, <1>7
    <3>2. CASE j > Len(out)
      <4> DEFINE i == j - Len(out)
      <4>1. j \in Len(out) + 1 .. Len(out) + Run /\ i \in 1 .. Run /\ i - 1 \in Nat
        BY <3>2, <1>2, <1>3, <1>6
      <4>2. out'[j] = cur + (i - 1) /\ cur + (i - 1) < Size
        <5>1. out'[j] = t[i]
          BY <4>1, <1>6
        <5>2. t[i] = cur + i - 1
          BY <4>1
        <5> HIDE DEF i
        <5> QED BY <5>1, <5>2, <4>1, <1>2, <1>3
      <4>3. (s - Halo + Len(out) + (i - 1)) % Size = cur + (i - 1)
        <5> DEFINE a == s - Halo + Len(out)
        <5>1. a \in Int /\ cur = a % Size
          BY <1>8
        <5> HIDE DEF a, i
        <5>2. (a + (i - 1)) % Size = cur + (i - 1)
          BY <5>1, <4>1, <4>2, <1>2, ModShift
        <5> QED BY <5>2 DEF a
      <4>4. s - Halo + Len(out) + (i - 1) = s - Halo + (j - 1)
        BY <4>1, <1>2
      <4> QED BY <4>2, <4>3, <4>4, <1>2 DEF WindowRow
    <3> QED BY <3>1, <3>2, <1>2, <1>6
  <2> QED BY <2>1
<1>12. WindowPrefix'
  <2>1. Len(out') + remaining' = WindowLen'
    <3>1. remaining' = remaining - Run
      BY DEF ReadRun
    <3>2. Run \in Nat /\ Len(out) + remaining = WindowLen
      BY <1>2, <1>3, <1>7
    <3>3. Len(out') = Len(out) + Run
      BY <1>6
    <3>4. Len(out') + remaining' = WindowLen
      BY <3>1, <3>2, <3>3, <1>2
    <3> QED BY <3>4, <1>1
  <2>2. s' = s /\ Halo' = Halo
    BY <1>1 DEF ReadRun
  <2>3. s - Halo + Len(out) + Run = s - Halo + Len(out')
    BY <1>2, <1>3, <1>6
  <2> QED BY <2>1, <2>2, <2>3, <1>10, <1>11 DEF WindowPrefix, WindowRow
<1>13. reads > 0 => cur = 0
  BY <1>2 DEF IInv, Progress, ReadRun
<1>14. WindowLen <= Size => reads <= 1 /\ (reads > 0 => remaining' = 0)
  <2>1. reads > 0 /\ WindowLen <= Size => Run = remaining
    BY <1>2, <1>3, <1>7, <1>13
  <2>2. reads > 1 /\ WindowLen <= Size => FALSE
    BY <1>2 DEF IInv, Progress, ReadRun
  <2> QED BY <2>1, <2>2, <1>2, <1>3 DEF ReadRun
<1>15. 0 <= s - Halo /\ s + TileLen + Halo <= Size =>
         reads = 0 /\ remaining' = 0
  <2>1. SUFFICES ASSUME 0 <= s - Halo, s + TileLen + Halo <= Size
                 PROVE  reads = 0 /\ remaining' = 0
    OBVIOUS
  <2>2. reads = 0
    BY <2>1, <1>2 DEF IInv, Progress, ReadRun
  <2>3. Len(out) = 0
    BY <2>2 DEF IInv, Progress, ReadRun
  <2>4. s - Halo \in 0 .. Size - 1 /\ cur = s - Halo
    <3>1. s - Halo \in 0 .. Size - 1 /\ s - Halo + Len(out) = s - Halo
      BY <2>1, <2>3, <1>2
    <3>2. cur = (s - Halo) % Size
      BY <3>1, <1>8
    <3> QED BY <3>1, <3>2, <1>2, ModSmall
  <2>5. Run = remaining
    BY <2>1, <2>3, <2>4, <1>2, <1>3, <1>7
  <2> QED BY <2>2, <2>5, <1>2 DEF ReadRun
<1>16. remaining' = 0 \/ cur' = 0
  BY <1>2, <1>3 DEF ReadRun
<1>17. reads' = reads + 1 /\ s' = s
  BY DEF ReadRun
<1>18. Progress'
  BY <1>1, <1>2, <1>14, <1>15, <1>16, <1>17 DEF Progress
<1>19. AtMostTwoReads'
  BY <1>1, <1>2, <1>14, <1>15, <1>17 DEF AtMostTwoReads
<1> QED BY <1>1, <1>9, <1>12, <1>18, <1>19 DEF IInv

LEMMA EvaluateTileStep ==
  ASSUME IInv, EvaluateTile
  PROVE  IInv'
<1>1. Queried' = Queried /\ Halo' = Halo
  BY CircuitKept DEF EvaluateTile
<1>2. /\ WindowLen \in Nat /\ Halo \in Nat /\ s \in Nat /\ Size \in Nat \ {0}
      /\ TileLen \in Nat /\ s + TileLen <= Size /\ WindowLen = TileLen + 2 * Halo
      /\ RotScale \in Nat \ {0} /\ Queried \subseteq Int
      /\ out \in Seq(0 .. Size - 1) /\ Len(out) = WindowLen
      /\ \A j \in 1 .. Len(out) : out[j] = WindowRow(j - 1)
  <2>1. TypeOK /\ WindowPrefix /\ pc = "read" /\ remaining = 0 /\ s < Size
    BY DEF IInv, EvaluateTile, Progress
  <2>2. circuit \in Circuits
    BY <2>1 DEF TypeOK
  <2>3. /\ s \in 0 .. Size /\ out \in Seq(0 .. Size - 1)
        /\ Size \in Nat \ {0} /\ RotScale \in Nat \ {0}
    BY <2>1, TilingAssumption DEF TypeOK
  <2>4. Halo \in Nat /\ Queried \subseteq Int
    BY <2>2, HaloCovers
  <2>5. /\ Len(out) + remaining = WindowLen
        /\ \A j \in 1 .. Len(out) : out[j] = WindowRow(j - 1)
    BY <2>1 DEF WindowPrefix
  <2>6. Len(out) = WindowLen
    BY <2>1, <2>3, <2>5
  <2>7. /\ WindowLen \in Nat /\ TileLen \in Nat
        /\ s + TileLen <= Size /\ WindowLen = TileLen + 2 * Halo
    BY <2>1, Geometry
  <2> QED BY <2>3, <2>4, <2>5, <2>6, <2>7
<1>3. ASSUME NEW i \in s .. s + TileLen - 1, NEW rot \in Queried
      PROVE  /\ out[Local(i - s, rot) + 1] = RotationIdx(i, rot, Size)
             /\ out[Local(i - s, rot) + 1] \in 0 .. Size - 1
  <2> DEFINE d == rot * RotScale
             l == Halo + (i - s) + d
  <2>1. d \in Int /\ - Halo <= d /\ d <= Halo
    BY HaloCovers DEF IInv, TypeOK
  <2>2. l \in 0 .. WindowLen - 1 /\ WindowLen \in Nat \ {0}
    <3> HIDE DEF d
    <3> QED BY <2>1, <1>2
  <2>3. Local(i - s, rot) = l
    BY <2>2, ModSmall DEF Local, RotationIdx
  <2>4. l + 1 \in 1 .. Len(out)
    <3> HIDE DEF l
    <3> QED BY <2>2, <1>2
  <2>5. out[l + 1] = (s - Halo + l) % Size
    <3> HIDE DEF l
    <3>1. (l + 1) - 1 = l
      BY <2>2
    <3> QED BY <2>4, <1>2, <3>1 DEF WindowRow
  <2>6. s - Halo + l = i + d
    <3> HIDE DEF d
    <3> QED BY <2>1, <1>2
  <2>7. i + d \in Int /\ (i + d) % Size \in 0 .. Size - 1
    <3> HIDE DEF d
    <3>1. i + d \in Int
      BY <2>1, <1>2
    <3> QED BY <3>1, <1>2, ModRange
  <2> QED BY <2>3, <2>5, <2>6, <2>7 DEF RotationIdx
<1>4. seen' = [i \in 0 .. s + TileLen - 1 |->
                IF i < s THEN seen[i]
                ELSE [rot \in Queried |-> out[Local(i - s, rot) + 1]]]
      /\ s' = s + TileLen /\ pc' = "tile"
  BY DEF EvaluateTile
<1>5. seen \in [0 .. s - 1 -> [Queried -> 0 .. Size - 1]]
  BY DEF IInv, TypeOK
<1>6. ASSUME NEW i \in 0 .. s + TileLen - 1
      PROVE  /\ seen'[i] \in [Queried -> 0 .. Size - 1]
             /\ \A rot \in Queried : seen'[i][rot] = RotationIdx(i, rot, Size)
  <2>1. CASE i < s
    <3>1. i \in 0 .. s - 1 /\ seen'[i] = seen[i]
      BY <2>1, <1>2, <1>4
    <3> QED BY <3>1, <1>5 DEF IInv, RotatedAccess
  <2>2. CASE ~ (i < s)
    <3>1. i \in s .. s + TileLen - 1
      BY <2>2, <1>2
    <3>2. seen'[i] = [rot \in Queried |-> out[Local(i - s, rot) + 1]]
      BY <2>2, <1>4
    <3> QED BY <3>1, <3>2, <1>3
  <2> QED BY <2>1, <2>2
<1>7. seen' \in [0 .. s' - 1 -> [Queried' -> 0 .. Size - 1]]
  <2> DEFINE D == 0 .. s + TileLen - 1
             T == [Queried -> 0 .. Size - 1]
  <2>1. \A i \in D : seen'[i] \in T
    BY <1>6
  <2>2. seen' = [i \in D |-> seen'[i]]
    BY <1>4
  <2> HIDE DEF D, T
  <2>3. seen' \in [D -> T]
    BY <2>1, <2>2
  <2>4. seen' \in [0 .. s + TileLen - 1 -> [Queried -> 0 .. Size - 1]]
    BY <2>3 DEF D, T
  <2>5. 0 .. s' - 1 = 0 .. s + TileLen - 1
    BY <1>2, <1>4
  <2>6. seen' \in [0 .. s' - 1 -> [Queried -> 0 .. Size - 1]]
    BY <2>4, <2>5
  <2>7. Queried' = Queried
    BY <1>1
  <2> QED BY <2>6, <2>7
<1>8. RotatedAccess'
  <2>1. s' = s + TileLen
    BY <1>4
  <2>2. \A i \in 0 .. s' - 1 : \A rot \in Queried' :
           seen'[i][rot] = RotationIdx(i, rot, Size)
    <3>1. \A i \in 0 .. s + TileLen - 1 : \A rot \in Queried :
             seen'[i][rot] = RotationIdx(i, rot, Size)
      BY <1>6
    <3>2. 0 .. s' - 1 = 0 .. s + TileLen - 1
      BY <2>1, <1>2
    <3> QED BY <3>1, <3>2, <1>1
  <2> QED BY <2>2 DEF RotatedAccess, RotationIdx
<1>9. TypeOK'
  <2>1. s' = s + TileLen /\ pc' = "tile"
    BY <1>4
  <2>2. s' \in 0 .. Size
    BY <2>1, <1>2
  <2> QED BY <2>1, <2>2, <1>7 DEF IInv, TypeOK, EvaluateTile
<1> QED BY <1>4, <1>8, <1>9 DEF IInv, Progress, WindowPrefix, AtMostTwoReads

LEMMA ReturnStep ==
  ASSUME IInv, ShortRead \/ Finish \/ UNCHANGED vars
  PROVE  IInv'
<1>1. CASE ShortRead \/ Finish
  <2>1. RotatedAccess' /\ seen' \in [0 .. s' - 1 -> [Queried' -> 0 .. Size - 1]]
    BY <1>1, RowsKept DEF ShortRead, Finish
  <2>2. TypeOK'
    BY <1>1, <2>1 DEF IInv, TypeOK, ShortRead, Finish
  <2> QED BY <1>1, <2>1, <2>2
          DEF IInv, Progress, WindowPrefix, AtMostTwoReads, ShortRead, Finish
<1>2. CASE UNCHANGED vars
  <2>1. /\ RotatedAccess' /\ seen' \in [0 .. s' - 1 -> [Queried' -> 0 .. Size - 1]]
        /\ Halo' = Halo /\ TileLen' = TileLen /\ WindowLen' = WindowLen
    BY <1>2, RowsKept DEF vars
  <2>2. TypeOK'
    BY <1>2, <2>1 DEF IInv, TypeOK, vars
  <2> QED BY <1>2, <2>1, <2>2
          DEF IInv, Progress, WindowPrefix, WindowRow, AtMostTwoReads, vars
<1> QED BY <1>1, <1>2

LEMMA StepInvariant ==
  ASSUME IInv, [Next]_vars
  PROVE  IInv'
  BY OpenWindowStep, ReadRunStep, EvaluateTileStep, ReturnStep
     DEF Next, Work, Stopped

LEMMA Invariance == Spec => []IInv
<1>1. Init => IInv
  BY InitInvariant
<1>2. IInv /\ [Next]_vars => IInv'
  BY StepInvariant
<1> QED BY <1>1, <1>2, PTL DEF Spec

-----------------------------------------------------------------------------
(* Every variable of the reader keeps its type; in particular the position
   it reads at stays inside the file it believes it has. *)
THEOREM TypeCorrect == Spec => []TypeOK
<1>1. IInv => TypeOK
  BY DEF IInv
<1> QED BY <1>1, Invariance, PTL

(* DiskCoset::window and ReprCoset::window assemble the window that the
   in-RAM TileSpec::window builds, for every domain, tile and halo. *)
THEOREM WindowCorrect == Spec => []WindowPrefix
<1>1. IInv => WindowPrefix
  BY DEF IInv
<1> QED BY <1>1, Invariance, PTL

(* A window that fits in the domain takes at most two positioned reads. *)
THEOREM TwoReadsSuffice == Spec => []AtMostTwoReads
<1>1. IInv => AtMostTwoReads
  BY DEF IInv
<1> QED BY <1>1, Invariance, PTL

(* The tiled evaluator reads, for every circuit, row and rotation, the row
   the full-domain evaluator reads. *)
THEOREM TiledAccessIsDirectAccess == Spec => []RotatedAccess
<1>1. IInv => RotatedAccess
  BY DEF IInv
<1> QED BY <1>1, Invariance, PTL
=============================================================================
