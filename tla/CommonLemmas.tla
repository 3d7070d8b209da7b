---------------------------- MODULE CommonLemmas -----------------------------
(***************************************************************************)
(* Lemmas several proofs need: induction over the naturals in the form of  *)
(* a set that contains 0 and is closed under successor, which needs no     *)
(* operator parameter; functions defined by recursion; slices,             *)
(* concatenations and extensions of sequences written as functions; powers *)
(* of two, digits and shifts; lists, that is, sequences whose elements     *)
(* need no set of their own: what concatenation and flattening make of     *)
(* them, what stands in them, that nothing stands in them twice; and lists *)
(* of queries of the multi-open, told apart by their labels.               *)
(***************************************************************************)
EXTENDS Integers, Sequences, SequencesExt, PowersOfTwo, TLAPS, WellFoundedInduction, SequenceTheorems

(* A set of naturals with 0 and closed under successor holds them all. *)
LEMMA SetInduction ==
  ASSUME NEW S, 0 \in S, \A n \in Nat : n \in S => n + 1 \in S
  PROVE  Nat \subseteq S
<1> DEFINE T == {n \in Nat : n \notin S}
           R == OpToRel(<, Nat)
<1>1. SUFFICES ASSUME T # {} PROVE FALSE
  OBVIOUS
<1>2. PICK x \in T : \A y \in T : ~ (<<y, x>> \in R)
  BY NatLessThanWellFounded, WFMin, <1>1
<1>3. \A y \in T : ~ (y < x)
  BY <1>2 DEF OpToRel
<1>4. x # 0 /\ x \in Nat
  OBVIOUS
<1>5. x - 1 \in Nat /\ x - 1 < x
  BY <1>4
<1>6. x - 1 \in S
  BY <1>3, <1>5
<1>7. (x - 1) + 1 \in S
  BY <1>5, <1>6
<1> QED BY <1>7, <1>4

(* A function defined by recursion on 0 .. n, from a value and a step.     *)
Iterates(g, n, D, a, f) ==
  /\ g \in [0 .. n -> D] /\ g[0] = a
  /\ \A k \in 1 .. n : g[k] = f[<<k, g[k - 1]>>]

LEMMA RecursionExists ==
  ASSUME NEW D, NEW a, a \in D, NEW f, f \in [Nat \X D -> D]
  PROVE  \A n \in Nat : \E g : Iterates(g, n, D, a, f)
<1> DEFINE Is(g, n) == Iterates(g, n, D, a, f)
           S == {n \in Nat : \E g : Is(g, n)}
<1>1. 0 \in S
  <2>1. Is([k \in 0 .. 0 |-> a], 0)
    BY DEF Iterates
  <2> QED BY <2>1
<1>2. ASSUME NEW n \in Nat, n \in S PROVE n + 1 \in S
  <2>1. PICK g : Is(g, n)
    BY <1>2
  <2>2. g \in [0 .. n -> D] /\ g[0] = a /\ \A k \in 1 .. n : g[k] = f[<<k, g[k - 1]>>]
    BY <2>1 DEF Iterates
  <2>3. PICK v : v = f[<<n + 1, g[n]>>]
    OBVIOUS
  <2>4. v \in D
    BY <2>2, <2>3
  <2>5. PICK h : h = [k \in 0 .. n + 1 |-> IF k = n + 1 THEN v ELSE g[k]]
    OBVIOUS
  <2>6. h[n + 1] = v /\ \A k \in 0 .. n : h[k] = g[k]
    BY <2>5
  <2>7. h \in [0 .. n + 1 -> D] /\ h[0] = a
    BY <2>2, <2>4, <2>5
  <2>8. ASSUME NEW k \in 1 .. n + 1 PROVE h[k] = f[<<k, h[k - 1]>>]
    <3>1. CASE k = n + 1
      <4>1. k - 1 = n /\ n \in 0 .. n
        BY <3>1
      <4> QED BY <2>3, <2>6, <3>1, <4>1
    <3>2. CASE k # n + 1
      <4>1. k \in 1 .. n /\ k \in 0 .. n /\ k - 1 \in 0 .. n
        BY <3>2
      <4> QED BY <2>2, <2>6, <4>1
    <3> QED BY <3>1, <3>2
  <2>9. Is(h, n + 1)
    BY <2>7, <2>8 DEF Iterates
  <2> QED BY <2>9
<1>3. Nat \subseteq S
  BY <1>1, <1>2, SetInduction
<1> QED BY <1>3

-----------------------------------------------------------------------------
(* A function on 1 .. n is a sequence. *)
LEMMA FunctionIsSeq ==
  ASSUME NEW S, NEW n \in Nat, NEW f \in [1 .. n -> S]
  PROVE  f \in Seq(S) /\ Len(f) = n
<1>1. f \in Seq(S)
  BY SeqDef
<1>2. Len(f) \in Nat /\ 1 .. Len(f) = 1 .. n
  BY <1>1, LenProperties
<1> QED BY <1>1, <1>2

(* A slice of a sequence, element by element. *)
LEMMA SliceOfSeq ==
  ASSUME NEW S, NEW f \in Seq(S), NEW a \in 1 .. Len(f) + 1, NEW b \in a - 1 .. Len(f)
  PROVE  SubSeq(f, a, b) = [i \in 1 .. b - a + 1 |-> f[a + i - 1]]
<1> DEFINE t == [i \in 1 .. b - a + 1 |-> f[a + i - 1]]
<1>1. Len(f) \in Nat /\ b - a + 1 \in Nat
  BY LenProperties
<1>2. \A i \in 1 .. b - a + 1 : a + i - 1 \in 1 .. Len(f)
  BY <1>1
<1>3. t \in [1 .. b - a + 1 -> S]
  BY <1>1, <1>2, LenProperties
<1>4. t \in Seq(S) /\ Len(t) = b - a + 1
  <2> HIDE DEF t
  <2> QED BY <1>1, <1>3, FunctionIsSeq
<1>5. /\ SubSeq(f, a, b) \in Seq(S)
      /\ Len(SubSeq(f, a, b)) = b - a + 1
      /\ \A i \in 1 .. b - a + 1 : SubSeq(f, a, b)[i] = f[a + i - 1]
  OBVIOUS
<1>6. \A i \in 1 .. b - a + 1 : SubSeq(f, a, b)[i] = t[i]
  BY <1>5
<1> HIDE DEF t
<1>7. SubSeq(f, a, b) = t
  BY <1>4, <1>5, <1>6, SeqEqual
<1> QED BY <1>7 DEF t

LEMMA SliceOf ==
  ASSUME NEW n \in Nat, NEW f, f = [i \in 1 .. n |-> f[i]],
         NEW a \in 1 .. n + 1, NEW b \in a - 1 .. n
  PROVE  /\ Len(f) = n
         /\ SubSeq(f, a, b) = [i \in 1 .. b - a + 1 |-> f[a + i - 1]]
<1>1. PICK S : f \in [1 .. n -> S]
  <2>1. f \in [1 .. n -> {f[i] : i \in 1 .. n}]
    OBVIOUS
  <2> QED BY <2>1
<1>2. f \in Seq(S) /\ Len(f) = n
  BY <1>1, FunctionIsSeq
<1> QED BY <1>2, SliceOfSeq

(* A concatenation, element by element. *)
LEMMA ConcatOf ==
  ASSUME NEW m \in Nat, NEW f, f = [i \in 1 .. m |-> f[i]],
         NEW n \in Nat, NEW g, g = [i \in 1 .. n |-> g[i]]
  PROVE  f \o g = [i \in 1 .. m + n |-> IF i <= m THEN f[i] ELSE g[i - m]]
<1>1. PICK S : f \in [1 .. m -> S] /\ g \in [1 .. n -> S]
  <2> DEFINE R == {f[i] : i \in 1 .. m} \cup {g[i] : i \in 1 .. n}
  <2>1. f \in [1 .. m -> R] /\ g \in [1 .. n -> R]
    OBVIOUS
  <2> QED BY <2>1
<1>2. f \in Seq(S) /\ Len(f) = m /\ g \in Seq(S) /\ Len(g) = n
  BY <1>1, FunctionIsSeq
<1> DEFINE t == [i \in 1 .. m + n |-> IF i <= m THEN f[i] ELSE g[i - m]]
<1>3. t \in [1 .. m + n -> S]
  BY <1>1
<1>4. t \in Seq(S) /\ Len(t) = m + n
  <2> HIDE DEF t
  <2> QED BY <1>3, FunctionIsSeq
<1>5. /\ f \o g \in Seq(S)
      /\ Len(f \o g) = m + n
      /\ \A i \in 1 .. m + n : (f \o g)[i] = t[i]
  BY <1>2, ConcatProperties
<1> HIDE DEF t
<1>6. f \o g = t
  BY <1>4, <1>5, SeqEqual
<1> QED BY <1>6 DEF t

(* A sequence that is given one more element. *)
LEMMA AppendOf ==
  ASSUME NEW n \in Nat, NEW f, f = [i \in 1 .. n |-> f[i]], NEW x
  PROVE  Append(f, x) = [i \in 1 .. n + 1 |-> IF i = n + 1 THEN x ELSE f[i]]
<1>1. PICK S : f \in [1 .. n -> S] /\ x \in S
  <2> DEFINE R == {f[i] : i \in 1 .. n} \cup {x}
  <2>1. f \in [1 .. n -> R] /\ x \in R
    OBVIOUS
  <2> QED BY <2>1
<1>2. f \in Seq(S) /\ Len(f) = n
  BY <1>1, FunctionIsSeq
<1> DEFINE t == [i \in 1 .. n + 1 |-> IF i = n + 1 THEN x ELSE f[i]]
<1>3. t \in [1 .. n + 1 -> S]
  BY <1>1
<1>4. t \in Seq(S) /\ Len(t) = n + 1
  <2> HIDE DEF t
  <2> QED BY <1>3, FunctionIsSeq
<1>5. /\ Append(f, x) \in Seq(S)
      /\ Len(Append(f, x)) = n + 1
      /\ \A i \in 1 .. n + 1 : Append(f, x)[i] = t[i]
  BY <1>1, <1>2, AppendProperties
<1> HIDE DEF t
<1>6. Append(f, x) = t
  BY <1>4, <1>5, SeqEqual
<1> QED BY <1>6 DEF t

-----------------------------------------------------------------------------
(***************************************************************************)
(* Pow2 is defined by CHOOSE: its equation holds once some function is     *)
(* shown to satisfy it.  That function is glued from the tables of the     *)
(* first n powers, any two of which agree where both are defined.          *)
(***************************************************************************)
IsTable(g, n) == /\ g \in [0 .. n -> Nat]
                 /\ g[0] = 1
                 /\ \A k \in 1 .. n : g[k] = 2 * g[k - 1]

LEMMA TablesExist == \A n \in Nat : \E g : IsTable(g, n)
<1> DEFINE S == {n \in Nat : \E g : IsTable(g, n)}
<1>1. 0 \in S
  <2>1. IsTable([k \in 0 .. 0 |-> 1], 0)
    BY DEF IsTable
  <2> QED BY <2>1
<1>2. ASSUME NEW n \in Nat, n \in S PROVE n + 1 \in S
  <2>1. PICK g : IsTable(g, n)
    BY <1>2
  <2> DEFINE h == [k \in 0 .. n + 1 |-> IF k = n + 1 THEN 2 * g[n] ELSE g[k]]
  <2>2. h \in [0 .. n + 1 -> Nat]
    BY <2>1 DEF IsTable
  <2>3. h[0] = 1
    BY <2>1 DEF IsTable
  <2>4. ASSUME NEW k \in 1 .. n + 1 PROVE h[k] = 2 * h[k - 1]
    <3>1. k \in 0 .. n + 1 /\ k - 1 \in 0 .. n /\ k - 1 # n + 1
      BY <2>4
    <3>2. h[k - 1] = g[k - 1]
      BY <3>1
    <3>3. CASE k = n + 1
      BY <3>1, <3>2, <3>3
    <3>4. CASE k # n + 1
      <4>1. k \in 1 .. n
        BY <3>1, <3>4
      <4> QED BY <4>1, <3>1, <3>2, <3>4, <2>1 DEF IsTable
    <3> QED BY <3>3, <3>4
  <2>5. IsTable(h, n + 1)
    BY <2>2, <2>3, <2>4 DEF IsTable
  <2> QED BY <2>5
<1>3. Nat \subseteq S
  BY <1>1, <1>2, SetInduction
<1> QED BY <1>3

LEMMA TablesAgree ==
  ASSUME NEW m \in Nat, NEW n \in Nat, NEW g, NEW h,
         IsTable(g, m), IsTable(h, n)
  PROVE  \A k \in Nat : k <= m /\ k <= n => g[k] = h[k]
<1> DEFINE S == {k \in Nat : k <= m /\ k <= n => g[k] = h[k]}
<1>1. 0 \in S
  BY DEF IsTable
<1>2. ASSUME NEW k \in Nat, k \in S PROVE k + 1 \in S
  <2>1. SUFFICES ASSUME k + 1 <= m, k + 1 <= n PROVE g[k + 1] = h[k + 1]
    OBVIOUS
  <2>2. k + 1 \in 1 .. m /\ k + 1 \in 1 .. n /\ (k + 1) - 1 = k
    BY <2>1
  <2>3. g[k + 1] = 2 * g[k] /\ h[k + 1] = 2 * h[k]
    BY <2>2 DEF IsTable
  <2>4. g[k] = h[k]
    BY <1>2, <2>1
  <2> QED BY <2>3, <2>4
<1>3. Nat \subseteq S
  BY <1>1, <1>2, SetInduction
<1> QED BY <1>3

(* The equation of the definition, and the range of the function. *)
LEMMA Pow2Def ==
  /\ Pow2 \in [Nat -> Nat]
  /\ Pow2[0] = 1
  /\ \A k \in Nat : Pow2[k + 1] = 2 * Pow2[k]
<1> DEFINE f == [n \in Nat |-> (CHOOSE g : IsTable(g, n))[n]]
           Body(p) == [k \in Nat |-> IF k = 0 THEN 1 ELSE 2 * p[k - 1]]
<1>1. \A n \in Nat : IsTable(CHOOSE g : IsTable(g, n), n)
  BY TablesExist
<1>2. f \in [Nat -> Nat] /\ f[0] = 1
  <2>1. ASSUME NEW n \in Nat PROVE f[n] \in Nat
    <3> DEFINE g == CHOOSE g : IsTable(g, n)
    <3>1. IsTable(g, n) /\ n \in 0 .. n /\ f[n] = g[n]
      BY <1>1
    <3> HIDE DEF g, f
    <3> QED BY <3>1 DEF IsTable
  <2>2. f[0] = 1
    BY <1>1 DEF IsTable
  <2> QED BY <2>1, <2>2
<1>3. ASSUME NEW k \in Nat \ {0} PROVE f[k] = 2 * f[k - 1]
  <2> DEFINE g == CHOOSE t : IsTable(t, k)
             h == CHOOSE t : IsTable(t, k - 1)
  <2>1. k - 1 \in Nat /\ k \in 1 .. k /\ k - 1 <= k
    OBVIOUS
  <2>2. IsTable(g, k) /\ IsTable(h, k - 1)
    BY <1>1, <2>1
  <2>3. g[k - 1] = h[k - 1]
    BY <2>1, <2>2, TablesAgree
  <2>4. g[k] = 2 * g[k - 1]
    BY <2>1, <2>2 DEF IsTable
  <2>5. f[k] = g[k] /\ f[k - 1] = h[k - 1]
    BY <2>1
  <2> QED BY <2>3, <2>4, <2>5
<1>4. f = Body(f)
  <2>1. \A k \in Nat : f[k] = IF k = 0 THEN 1 ELSE 2 * f[k - 1]
    <3> HIDE DEF f
    <3>1. ASSUME NEW k \in Nat PROVE f[k] = IF k = 0 THEN 1 ELSE 2 * f[k - 1]
      <4>1. CASE k = 0
        BY <1>2, <4>1
      <4>2. CASE k # 0
        BY <1>3, <4>2
      <4> QED BY <4>1, <4>2
    <3> QED BY <3>1
  <2>2. f = [k \in Nat |-> f[k]]
    OBVIOUS
  <2> HIDE DEF f
  <2> QED BY <2>1, <2>2
<1>5. Pow2 = CHOOSE p : p = Body(p)
  BY DEF Pow2
<1> HIDE DEF f, Body
<1>6. Pow2 = Body(Pow2)
  BY <1>4, <1>5
<1>7. \A k \in Nat : Pow2[k] = IF k = 0 THEN 1 ELSE 2 * Pow2[k - 1]
  BY <1>6 DEF Body
<1>8. Pow2[0] = 1 /\ \A k \in Nat : Pow2[k + 1] = 2 * Pow2[k]
  <2>1. ASSUME NEW k \in Nat PROVE Pow2[k + 1] = 2 * Pow2[k]
    <3>1. k + 1 \in Nat /\ k + 1 # 0 /\ (k + 1) - 1 = k
      OBVIOUS
    <3> QED BY <3>1, <1>7
  <2> QED BY <2>1, <1>7
<1>9. \A k \in Nat : Pow2[k] \in Nat
  <2> DEFINE S == {k \in Nat : Pow2[k] \in Nat}
  <2>1. 0 \in S
    BY <1>8
  <2>2. ASSUME NEW k \in Nat, k \in S PROVE k + 1 \in S
    BY <1>8, <2>2
  <2>3. Nat \subseteq S
    BY <2>1, <2>2, SetInduction
  <2> QED BY <2>3
<1> QED BY <1>6, <1>8, <1>9 DEF Body

LEMMA Pow2Positive == \A k \in Nat : Pow2[k] \in Nat \ {0}
<1> DEFINE S == {k \in Nat : Pow2[k] # 0}
<1>1. 0 \in S
  BY Pow2Def
<1>2. ASSUME NEW k \in Nat, k \in S PROVE k + 1 \in S
  BY Pow2Def, <1>2
<1>3. Nat \subseteq S
  BY <1>1, <1>2, SetInduction
<1> QED BY <1>3, Pow2Def

(* 1 << (a + b) is (1 << a) * (1 << b). *)
LEMMA Pow2Sum == \A a, b \in Nat : Pow2[a + b] = Pow2[a] * Pow2[b]
<1> SUFFICES ASSUME NEW a \in Nat PROVE \A b \in Nat : Pow2[a + b] = Pow2[a] * Pow2[b]
  OBVIOUS
<1> DEFINE S == {b \in Nat : Pow2[a + b] = Pow2[a] * Pow2[b]}
<1>1. 0 \in S
  BY Pow2Def
<1>2. ASSUME NEW b \in Nat, b \in S PROVE b + 1 \in S
  <2>1. a + (b + 1) = (a + b) + 1 /\ a + b \in Nat
    OBVIOUS
  <2>2. Pow2[a + (b + 1)] = 2 * Pow2[a + b]
    BY <2>1, Pow2Def
  <2>3. Pow2[b + 1] = 2 * Pow2[b]
    BY Pow2Def
  <2>4. Pow2[a + b] = Pow2[a] * Pow2[b] /\ Pow2[a] \in Nat /\ Pow2[b] \in Nat
    BY <1>2, Pow2Def
  <2>5. Pow2[a + (b + 1)] = Pow2[a] * Pow2[b + 1]
    BY <2>2, <2>3, <2>4
  <2> QED BY <2>5
<1>3. Nat \subseteq S
  BY <1>1, <1>2, SetInduction
<1> QED BY <1>3

(* A larger shift gives a larger power. *)
LEMMA Pow2Monotone == \A a, b \in Nat : a <= b => Pow2[a] <= Pow2[b]
<1> SUFFICES ASSUME NEW a \in Nat, NEW b \in Nat, a <= b PROVE Pow2[a] <= Pow2[b]
  OBVIOUS
<1>1. b - a \in Nat /\ a + (b - a) = b
  OBVIOUS
<1>2. Pow2[b] = Pow2[a] * Pow2[b - a]
  BY <1>1, Pow2Sum
<1>3. Pow2[b - a] >= 1 /\ Pow2[b - a] \in Nat /\ Pow2[a] \in Nat
  BY <1>1, Pow2Positive
<1> QED BY <1>2, <1>3

-----------------------------------------------------------------------------
LEMMA DivMod ==
  ASSUME NEW a \in Nat, NEW p \in Nat \ {0}
  PROVE  /\ a = (a \div p) * p + (a % p)
         /\ a % p \in 0 .. p - 1
         /\ a \div p \in Nat
OBVIOUS

LEMMA DivDiv ==
  ASSUME NEW a \in Nat, NEW p \in Nat \ {0}, NEW r \in Nat \ {0}
  PROVE  (a \div p) \div r = a \div (p * r)
OBVIOUS

LEMMA DivSmall ==
  ASSUME NEW a \in Nat, NEW p \in Nat, a < p
  PROVE  a \div p = 0
OBVIOUS

(* A digit is a c-bit number. *)
LEMMA DigitRange ==
  ASSUME NEW s \in Nat, NEW w \in Nat, NEW c \in Nat
  PROVE  Digit(s, w, c) \in 0 .. Pow2[c] - 1 /\ Shr(s, w * c) \in Nat
<1>1. w * c \in Nat
  OBVIOUS
<1>2. Pow2[w * c] \in Nat \ {0} /\ Pow2[c] \in Nat \ {0}
  BY <1>1, Pow2Positive
<1>3. Shr(s, w * c) \in Nat
  BY <1>2, DivMod DEF Shr
<1> QED BY <1>2, <1>3, DivMod DEF Digit

(* One step of Horner's rule: shifting out one window less appends a digit. *)
LEMMA ShrStep ==
  ASSUME NEW s \in Nat, NEW w \in Nat, NEW c \in Nat
  PROVE  Shr(s, w * c) = Shr(s, (w + 1) * c) * Pow2[c] + Digit(s, w, c)
<1> DEFINE p == Pow2[w * c]
           r == Pow2[c]
<1>1. w * c \in Nat /\ (w + 1) * c = w * c + c
  OBVIOUS
<1>2. p \in Nat \ {0} /\ r \in Nat \ {0}
  BY <1>1, Pow2Positive
<1>3. Pow2[(w + 1) * c] = p * r
  BY <1>1, Pow2Sum
<1> HIDE DEF p, r
<1>4. s \div p \in Nat
  BY <1>2, DivMod
<1>5. s \div p = ((s \div p) \div r) * r + ((s \div p) % r)
  BY <1>2, <1>4, DivMod
<1>6. (s \div p) \div r = s \div (p * r)
  BY <1>2, DivDiv
<1> QED BY <1>3, <1>5, <1>6 DEF Shr, Digit, p, r

LEMMA ShrZero == ASSUME NEW s \in Nat PROVE Shr(s, 0) = s
<1>1. Pow2[0] = 1
  BY Pow2Def
<1> QED BY <1>1 DEF Shr

(* Nothing is left of a scalar shifted by at least its length. *)
LEMMA ShrPastTheEnd ==
  ASSUME NEW b \in Nat, NEW k \in Nat, b <= k, NEW s \in 0 .. Pow2[b] - 1
  PROVE  Shr(s, k) = 0
<1>1. Pow2[b] \in Nat /\ Pow2[k] \in Nat /\ Pow2[b] <= Pow2[k]
  BY Pow2Positive, Pow2Monotone
<1>2. s \in Nat /\ s < Pow2[k]
  BY <1>1
<1> QED BY <1>1, <1>2, DivSmall DEF Shr
-----------------------------------------------------------------------------
(***************************************************************************)
(* Lists: sequences whose elements need no set of their own.               *)
(***************************************************************************)
List(s) == Len(s) \in Nat /\ s = [k \in 1 .. Len(s) |-> s[k]]

LEMMA ListOf ==
  ASSUME NEW n, n \in Nat, NEW f, f = [k \in 1 .. n |-> f[k]]
  PROVE  List(f) /\ Len(f) = n /\ DOMAIN f = 1 .. n
<1>1. 1 \in 1 .. n + 1 /\ 0 \in 1 - 1 .. n
  OBVIOUS
<1>2. Len(f) = n
  BY <1>1, SliceOf
<1> QED BY <1>2 DEF List

LEMMA ListDomain == ASSUME NEW f, List(f) PROVE Len(f) \in Nat /\ DOMAIN f = 1 .. Len(f)
BY DEF List

LEMMA NoItems == List(<< >>) /\ Len(<< >>) = 0
<1>1. << >> = [k \in 1 .. 0 |-> << >>[k]]
  OBVIOUS
<1> QED BY <1>1, ListOf

LEMMA OneItem == ASSUME NEW x PROVE List(<<x>>) /\ Len(<<x>>) = 1 /\ <<x>>[1] = x
<1>1. <<x>> = [k \in 1 .. 1 |-> <<x>>[k]]
  OBVIOUS
<1> QED BY <1>1, ListOf

LEMMA ListConcat ==
  ASSUME NEW f, NEW g, List(f), List(g)
  PROVE  /\ List(f \o g) /\ Len(f \o g) = Len(f) + Len(g)
         /\ \A k \in 1 .. Len(f) : (f \o g)[k] = f[k]
         /\ \A k \in 1 .. Len(g) : (f \o g)[Len(f) + k] = g[k]
<1> DEFINE m == Len(f)
           n == Len(g)
           h == f \o g
<1>1. m \in Nat /\ n \in Nat
  BY DEF List
<1>2. f = [k \in 1 .. m |-> f[k]] /\ g = [k \in 1 .. n |-> g[k]]
  BY DEF List
<1> HIDE DEF m, n
<1>3. h = [i \in 1 .. m + n |-> IF i <= m THEN f[i] ELSE g[i - m]]
  BY <1>1, <1>2, ConcatOf
<1>4. h = [i \in 1 .. m + n |-> h[i]]
  BY <1>3
<1>5. \A k \in 1 .. m : h[k] = f[k]
  BY <1>1, <1>3
<1>6. ASSUME NEW k \in 1 .. n PROVE h[m + k] = g[k]
  <2>1. m + k \in 1 .. m + n /\ ~(m + k <= m) /\ (m + k) - m = k
    BY <1>1
  <2> QED BY <1>3, <2>1
<1> HIDE DEF h
<1>7. List(h) /\ Len(h) = m + n
  BY <1>1, <1>4, ListOf
<1> QED BY <1>5, <1>6, <1>7 DEF h, m, n

(* A place in a concatenation is a place in either part. *)
LEMMA ConcatPlace ==
  ASSUME NEW f, NEW g, List(f), List(g), NEW k, k \in 1 .. Len(f \o g)
  PROVE  \/ k \in 1 .. Len(f) /\ (f \o g)[k] = f[k]
         \/ \E j \in 1 .. Len(g) : k = Len(f) + j /\ (f \o g)[k] = g[j]
<1>1. Len(f) \in Nat /\ Len(g) \in Nat /\ Len(f \o g) = Len(f) + Len(g)
  BY ListConcat DEF List
<1>2. CASE k <= Len(f)
  BY <1>1, <1>2, ListConcat
<1>3. CASE ~(k <= Len(f))
  <2>1. PICK j : j = k - Len(f)
    OBVIOUS
  <2>2. j \in 1 .. Len(g) /\ k = Len(f) + j
    BY <1>1, <1>3, <2>1
  <2>3. (f \o g)[k] = g[j]
    BY <2>2, ListConcat
  <2> QED BY <2>2, <2>3
<1> QED BY <1>2, <1>3

-----------------------------------------------------------------------------
(* Flattening is a recursive function of the number of parts. *)
Partial(fs, g, m) == g = [i \in 1 .. m |-> IF i = 1 THEN fs[i] ELSE g[i - 1] \o fs[i]]

LEMMA PartialExists ==
  ASSUME NEW fs PROVE \A n \in Nat : \E g : Partial(fs, g, n + 1)
<1> DEFINE S == {n \in Nat : \E g : Partial(fs, g, n + 1)}
<1>1. 0 \in S
  <2>1. Partial(fs, [i \in 1 .. 1 |-> fs[i]], 0 + 1)
    BY DEF Partial
  <2> QED BY <2>1
<1>2. ASSUME NEW n \in Nat, n \in S PROVE n + 1 \in S
  <2>1. PICK g : Partial(fs, g, n + 1)
    BY <1>2
  <2> DEFINE h == [i \in 1 .. n + 2 |-> IF i = n + 2 THEN g[n + 1] \o fs[i] ELSE g[i]]
  <2>2. ASSUME NEW i \in 1 .. n + 2
        PROVE  h[i] = IF i = 1 THEN fs[i] ELSE h[i - 1] \o fs[i]
    <3>1. CASE i = n + 2
      <4>1. h[i] = g[n + 1] \o fs[i]
        BY <3>1
      <4>2. i # 1 /\ i - 1 = n + 1 /\ n + 1 \in 1 .. n + 2 /\ n + 1 # n + 2
        <5> HIDE DEF h
        <5> QED BY <3>1
      <4>3. h[n + 1] = g[n + 1]
        BY <4>2
      <4> HIDE DEF h
      <4> QED BY <4>1, <4>2, <4>3
    <3>2. CASE i # n + 2
      <4>1. i \in 1 .. n + 1 /\ (i # 1 => i - 1 \in 1 .. n + 2 /\ i - 1 # n + 2)
        BY <3>2
      <4>2. h[i] = g[i] /\ (i # 1 => h[i - 1] = g[i - 1])
        BY <3>2, <4>1
      <4>3. g[i] = IF i = 1 THEN fs[i] ELSE g[i - 1] \o fs[i]
        BY <2>1, <4>1 DEF Partial
      <4> HIDE DEF h
      <4> QED BY <4>2, <4>3
    <3> QED BY <3>1, <3>2
  <2>3. h = [i \in 1 .. n + 2 |-> h[i]]
    OBVIOUS
  <2> HIDE DEF h
  <2>4. Partial(fs, h, n + 2)
    BY <2>2, <2>3 DEF Partial
  <2>5. (n + 1) + 1 = n + 2 /\ n + 1 \in Nat
    OBVIOUS
  <2> QED BY <2>4, <2>5
<1>3. Nat \subseteq S
  BY <1>1, <1>2, SetInduction
<1> QED BY <1>3

(* The elements of t are those of the first m parts. *)
Gathers(fs, m, t) ==
  /\ List(t)
  /\ \A x \in 1 .. Len(t) : \E k \in 1 .. m : \E j \in 1 .. Len(fs[k]) : t[x] = fs[k][j]
  /\ \A k \in 1 .. m : \A j \in 1 .. Len(fs[k]) : \E x \in 1 .. Len(t) : t[x] = fs[k][j]

LEMMA GathersMore ==
  ASSUME NEW fs, NEW m \in Nat, NEW t, Gathers(fs, m, t), List(fs[m + 1])
  PROVE  Gathers(fs, m + 1, t \o fs[m + 1])
<1>1. PICK g : g = fs[m + 1]
  OBVIOUS
<1>2. PICK u : u = t \o g
  OBVIOUS
<1>3. List(t) /\ List(g) /\ List(u) /\ Len(t) \in Nat /\ Len(g) \in Nat /\ Len(u) = Len(t) + Len(g)
  BY <1>1, <1>2, ListConcat DEF Gathers, List
<1>4. ASSUME NEW x \in 1 .. Len(u)
      PROVE  \E k \in 1 .. m + 1 : \E j \in 1 .. Len(fs[k]) : u[x] = fs[k][j]
  <2>1. CASE x \in 1 .. Len(t) /\ u[x] = t[x]
    <3>1. PICK k \in 1 .. m : \E j \in 1 .. Len(fs[k]) : t[x] = fs[k][j]
      BY <2>1 DEF Gathers
    <3>2. k \in 1 .. m + 1
      OBVIOUS
    <3> QED BY <2>1, <3>1, <3>2
  <2>2. CASE \E j \in 1 .. Len(g) : u[x] = g[j]
    BY <1>1, <2>2
  <2> QED BY SMTT(40), <1>2, <1>3, <2>1, <2>2, ConcatPlace
<1>5. ASSUME NEW k \in 1 .. m + 1, NEW j \in 1 .. Len(fs[k])
      PROVE  \E x \in 1 .. Len(u) : u[x] = fs[k][j]
  <2>1. CASE k \in 1 .. m
    <3>1. PICK x \in 1 .. Len(t) : t[x] = fs[k][j]
      BY <2>1 DEF Gathers
    <3>2. u[x] = t[x] /\ x \in 1 .. Len(u)
      BY <1>2, <1>3, ListConcat
    <3> QED BY <3>1, <3>2
  <2>2. CASE k = m + 1
    <3>1. j \in 1 .. Len(g) /\ fs[k][j] = g[j]
      BY <1>1, <2>2
    <3>2. u[Len(t) + j] = g[j] /\ Len(t) + j \in 1 .. Len(u)
      BY <1>2, <1>3, <3>1, ListConcat
    <3> QED BY <3>1, <3>2
  <2> QED BY <2>1, <2>2
<1> QED BY <1>1, <1>2, <1>3, <1>4, <1>5 DEF Gathers

LEMMA FlattenIs ==
  ASSUME NEW n, n \in Nat \ {0}, NEW fs, Len(fs) = n
  PROVE  \E g : Partial(fs, g, n) /\ FlattenSeq(fs) = g[n]
<1> DEFINE F == CHOOSE g : g = [i \in 1 .. Len(fs) |-> IF i = 1 THEN fs[i] ELSE g[i - 1] \o fs[i]]
<1>1. FlattenSeq(fs) = F[Len(fs)]
  BY DEF FlattenSeq
<1>2. \E g : Partial(fs, g, n)
  <2>1. n - 1 \in Nat /\ (n - 1) + 1 = n
    OBVIOUS
  <2> QED BY <2>1, PartialExists
<1>3. Partial(fs, F, n)
  BY <1>2 DEF Partial
<1> HIDE DEF F
<1> QED BY <1>1, <1>3

LEMMA FlattenOf ==
  ASSUME NEW n, n \in Nat, NEW fs, fs = [k \in 1 .. n |-> fs[k]],
         \A k \in 1 .. n : List(fs[k])
  PROVE  Gathers(fs, n, FlattenSeq(fs))
<1>1. Len(fs) = n
  BY ListOf
<1>2. CASE n = 0
  <2>1. fs = << >>
    BY <1>2
  <2>2. FlattenSeq(fs) = << >>
    BY <1>1, <1>2, <2>1 DEF FlattenSeq
  <2> QED BY <1>2, <2>2, NoItems DEF Gathers
<1>3. CASE n # 0
  <2>1. PICK g : Partial(fs, g, n) /\ FlattenSeq(fs) = g[n]
    BY <1>1, <1>3, FlattenIs
  <2>2. g[1] = fs[1] /\ \A i \in 2 .. n : g[i] = g[i - 1] \o fs[i]
    <3>1. \A i \in 1 .. n : g[i] = IF i = 1 THEN fs[i] ELSE g[i - 1] \o fs[i]
      BY <2>1 DEF Partial
    <3>2. 1 \in 1 .. n /\ \A i \in 2 .. n : i \in 1 .. n /\ i # 1
      BY <1>3
    <3> QED BY <3>1, <3>2
  <2> DEFINE S == {m \in Nat : m + 1 <= n => Gathers(fs, m + 1, g[m + 1])}
  <2>3. 0 \in S
    <3>1. List(fs[1])
      BY <1>3
    <3>2. PICK t : t = fs[1]
      OBVIOUS
    <3>3. List(t) /\ Gathers(fs, 1, t)
      BY <3>1, <3>2 DEF Gathers
    <3> QED BY <2>2, <3>2, <3>3
  <2>4. ASSUME NEW m \in Nat, m \in S PROVE m + 1 \in S
    <3>1. SUFFICES ASSUME (m + 1) + 1 <= n PROVE Gathers(fs, (m + 1) + 1, g[(m + 1) + 1])
      OBVIOUS
    <3>2. (m + 1) + 1 \in 2 .. n /\ ((m + 1) + 1) - 1 = m + 1 /\ m + 1 <= n /\ m + 1 \in Nat
      BY <3>1
    <3>3. g[(m + 1) + 1] = g[m + 1] \o fs[(m + 1) + 1]
      BY <2>2, <3>2
    <3>4. Gathers(fs, m + 1, g[m + 1]) /\ List(fs[(m + 1) + 1])
      BY <2>4, <3>2
    <3>5. PICK t : t = g[m + 1]
      OBVIOUS
    <3>6. Gathers(fs, (m + 1) + 1, t \o fs[(m + 1) + 1])
      BY <3>2, <3>4, <3>5, GathersMore
    <3> QED BY <3>3, <3>5, <3>6
  <2>5. Nat \subseteq S
    BY <2>3, <2>4, SetInduction
  <2>6. n - 1 \in Nat /\ (n - 1) + 1 = n
    BY <1>3
  <2> QED BY <2>1, <2>5, <2>6
<1> QED BY <1>2, <1>3

-----------------------------------------------------------------------------
(***************************************************************************)
(* More of lists: what flattening does to the order.                       *)
(***************************************************************************)
LEMMA ListEqual ==
  ASSUME NEW f, NEW g, List(f), List(g), Len(f) = Len(g), \A k \in 1 .. Len(f) : f[k] = g[k]
  PROVE  f = g
<1>1. PICK n : n = Len(f)
  OBVIOUS
<1>2. f = [k \in 1 .. n |-> f[k]] /\ g = [k \in 1 .. n |-> g[k]] /\ \A k \in 1 .. n : f[k] = g[k]
  BY <1>1 DEF List
<1> QED BY <1>2

(* h is f, of m items, and then g, of n. *)
Join(h, f, m, g, n) ==
  /\ List(h) /\ Len(h) = m + n /\ m \in Nat /\ n \in Nat
  /\ \A k \in 1 .. m : h[k] = f[k]
  /\ \A k \in 1 .. n : h[m + k] = g[k]

LEMMA Joins ==
  ASSUME NEW f, NEW g, NEW h, NEW m, NEW n, List(f), List(g), m = Len(f), n = Len(g), h = f \o g
  PROVE  Join(h, f, m, g, n)
<1>1. m \in Nat /\ n \in Nat
  BY ListDomain
<1>2. /\ List(f \o g) /\ Len(f \o g) = Len(f) + Len(g)
      /\ \A k \in 1 .. Len(f) : (f \o g)[k] = f[k]
      /\ \A k \in 1 .. Len(g) : (f \o g)[Len(f) + k] = g[k]
  BY ListConcat
<1> QED BY <1>1, <1>2 DEF Join

(* The same items in the same order, whatever was put together first. *)
Assoc(a, b, d) == (a \o b) \o d = a \o (b \o d)

LEMMA ConcatAssoc ==
  ASSUME NEW a, NEW b, NEW d, List(a), List(b), List(d) PROVE Assoc(a, b, d)
<1>1. PICK p, q, u, v : p = a \o b /\ q = b \o d /\ u = p \o d /\ v = a \o q
  OBVIOUS
<1>2. PICK l, m, n : l = Len(a) /\ m = Len(b) /\ n = Len(d)
  OBVIOUS
<1>3. l \in Nat /\ m \in Nat /\ n \in Nat
  BY <1>2, ListDomain
<1>4. /\ List(p) /\ Len(p) = l + m /\ \A k \in 1 .. l : p[k] = a[k]
      /\ \A k \in 1 .. m : p[l + k] = b[k]
  BY <1>1, <1>2, ListConcat
<1>5. /\ List(q) /\ Len(q) = m + n /\ \A k \in 1 .. m : q[k] = b[k]
      /\ \A k \in 1 .. n : q[m + k] = d[k]
  BY <1>1, <1>2, ListConcat
<1>6. /\ List(u) /\ Len(u) = l + m + n /\ \A k \in 1 .. l + m : u[k] = p[k]
      /\ \A k \in 1 .. n : u[l + m + k] = d[k]
  BY <1>1, <1>2, <1>4, ListConcat
<1>7. /\ List(v) /\ Len(v) = l + (m + n) /\ \A k \in 1 .. l : v[k] = a[k]
      /\ \A k \in 1 .. m + n : v[l + k] = q[k]
  BY <1>1, <1>2, <1>5, ListConcat
<1>8. ASSUME NEW k \in 1 .. l + m + n PROVE u[k] = v[k]
  <2>1. CASE k <= l
    <3>1. k \in 1 .. l /\ k \in 1 .. l + m
      BY <1>3, <2>1
    <3> QED BY <1>4, <1>6, <1>7, <3>1
  <2>2. CASE l < k /\ k <= l + m
    <3>1. PICK j : j = k - l
      OBVIOUS
    <3>2. j \in 1 .. m /\ k = l + j /\ j \in 1 .. m + n /\ k \in 1 .. l + m
      BY <1>3, <2>2, <3>1
    <3>3. u[k] = p[k] /\ p[k] = b[j]
      BY <1>4, <1>6, <3>2
    <3>4. v[k] = q[j] /\ q[j] = b[j]
      BY <1>5, <1>7, <3>2
    <3> QED BY <3>3, <3>4
  <2>3. CASE l + m < k
    <3>1. PICK j : j = k - l - m
      OBVIOUS
    <3>2. j \in 1 .. n /\ k = l + m + j /\ m + j \in 1 .. m + n /\ k = l + (m + j)
      BY <1>3, <2>3, <3>1
    <3>3. u[k] = d[j]
      BY <1>6, <3>2
    <3>4. v[k] = q[m + j] /\ q[m + j] = d[j]
      BY <1>5, <1>7, <3>2
    <3> QED BY <3>3, <3>4
  <2> QED BY <1>3, <2>1, <2>2, <2>3
<1>9. l + m + n = l + (m + n)
  BY <1>3
<1>10. u = v
  BY <1>6, <1>7, <1>8, <1>9, ListEqual
<1> QED BY <1>1, <1>10 DEF Assoc

LEMMA ConcatNone == ASSUME NEW a, List(a) PROVE << >> \o a = a /\ a \o << >> = a
<1>1. PICK e : e = << >>
  OBVIOUS
<1>2. List(e) /\ Len(e) = 0
  BY <1>1, NoItems
<1>3. PICK n : n = Len(a)
  OBVIOUS
<1>4. n \in Nat
  BY <1>3, ListDomain
<1>5. PICK u, v : u = e \o a /\ v = a \o e
  OBVIOUS
<1>6. /\ List(u) /\ Len(u) = 0 + n /\ \A k \in 1 .. n : u[0 + k] = a[k]
      /\ List(v) /\ Len(v) = n + 0 /\ \A k \in 1 .. n : v[k] = a[k]
  BY <1>2, <1>3, <1>5, ListConcat
<1>7. Len(u) = n /\ Len(v) = n /\ \A k \in 1 .. n : u[k] = a[k]
  BY <1>4, <1>6
<1> QED BY <1>1, <1>3, <1>5, <1>6, <1>7, ListEqual

(* The first m entries, and those after them. *)
Upto(t, m) == [k \in 1 .. m |-> t[k]]
Beyond(t, m) == [k \in 1 .. Len(t) - m |-> t[m + k]]

LEMMA UptoIs ==
  ASSUME NEW t, NEW m, m \in Nat
  PROVE  List(Upto(t, m)) /\ Len(Upto(t, m)) = m /\ \A k \in 1 .. m : Upto(t, m)[k] = t[k]
<1>1. Upto(t, m) = [k \in 1 .. m |-> Upto(t, m)[k]]
  BY DEF Upto
<1> QED BY <1>1, ListOf DEF Upto

LEMMA SplitAt ==
  ASSUME NEW t, List(t), NEW m, m \in 0 .. Len(t)
  PROVE  /\ t = Upto(t, m) \o Beyond(t, m) /\ Upto(t, m) = SubSeq(t, 1, m)
         /\ List(Upto(t, m)) /\ Len(Upto(t, m)) = m
         /\ List(Beyond(t, m)) /\ Len(Beyond(t, m)) = Len(t) - m
<1>1. PICK n : n = Len(t)
  OBVIOUS
<1>2. n \in Nat /\ m \in Nat /\ m <= n /\ n - m \in Nat
  BY <1>1, ListDomain
<1>3. PICK u, v : u = Upto(t, m) /\ v = Beyond(t, m)
  OBVIOUS
<1>4. List(u) /\ Len(u) = m /\ \A k \in 1 .. m : u[k] = t[k]
  BY <1>2, <1>3, UptoIs
<1>5. v = [k \in 1 .. n - m |-> v[k]] /\ \A k \in 1 .. n - m : v[k] = t[m + k]
  BY <1>1, <1>3 DEF Beyond
<1>6. List(v) /\ Len(v) = n - m
  BY <1>2, <1>5, ListOf
<1>7. PICK w : w = u \o v
  OBVIOUS
<1>8. Join(w, u, m, v, n - m)
  BY <1>4, <1>6, <1>7, Joins
<1>9. ASSUME NEW k \in 1 .. n PROVE t[k] = w[k]
  <2>1. CASE k <= m
    BY <1>2, <1>4, <1>8, <2>1 DEF Join
  <2>2. CASE ~(k <= m)
    <3>1. PICK j : j = k - m
      OBVIOUS
    <3>2. j \in 1 .. n - m /\ k = m + j
      BY <1>2, <2>2, <3>1
    <3> QED BY <1>5, <1>8, <3>2 DEF Join
  <2> QED BY <2>1, <2>2
<1>10. List(w) /\ Len(w) = n
  BY <1>2, <1>8 DEF Join
<1>11. t = w
  BY <1>1, <1>9, <1>10, ListEqual
<1>12. u = SubSeq(t, 1, m)
  <2>1. t = [k \in 1 .. n |-> t[k]] /\ 1 \in 1 .. n + 1 /\ m \in 1 - 1 .. n
    BY <1>1, <1>2 DEF List
  <2>2. SubSeq(t, 1, m) = [k \in 1 .. m - 1 + 1 |-> t[1 + k - 1]]
    BY <1>2, <2>1, SliceOf
  <2>3. m - 1 + 1 = m /\ \A k \in 1 .. m : 1 + k - 1 = k
    BY <1>2
  <2>4. [k \in 1 .. m |-> t[1 + k - 1]] = [k \in 1 .. m |-> t[k]]
    BY <2>3
  <2> QED BY <1>3, <2>2, <2>3, <2>4 DEF Upto
<1> QED BY <1>1, <1>3, <1>4, <1>6, <1>7, <1>11, <1>12

LEMMA PartialSame ==
  ASSUME NEW n \in Nat, NEW m \in Nat, m <= n, NEW fs, NEW gs, NEW g, NEW h,
         Partial(fs, g, n), Partial(gs, h, m), \A k \in 1 .. m : fs[k] = gs[k]
  PROVE  \A i \in 1 .. m : g[i] = h[i]
<1> DEFINE S == {i \in Nat : i + 1 <= m => g[i + 1] = h[i + 1]}
<1>1. \A i \in 1 .. n : g[i] = IF i = 1 THEN fs[i] ELSE g[i - 1] \o fs[i]
  BY DEF Partial
<1>2. \A i \in 1 .. m : h[i] = IF i = 1 THEN gs[i] ELSE h[i - 1] \o gs[i]
  BY DEF Partial
<1>3. 0 \in S
  BY <1>1, <1>2
<1>4. ASSUME NEW i \in Nat, i \in S PROVE i + 1 \in S
  <2>1. SUFFICES ASSUME i + 2 <= m PROVE g[i + 2] = h[i + 2]
    OBVIOUS
  <2>2. i + 2 \in 1 .. n /\ i + 2 \in 1 .. m /\ i + 2 # 1 /\ (i + 2) - 1 = i + 1 /\ i + 1 <= m
    BY <2>1
  <2>3. g[i + 1] = h[i + 1]
    BY <1>4, <2>2
  <2> HIDE DEF S
  <2> QED BY <1>1, <1>2, <2>2, <2>3
<1>5. Nat \subseteq S
  <2> HIDE DEF S
  <2> QED BY <1>3, <1>4, SetInduction
<1>6. ASSUME NEW i \in 1 .. m PROVE g[i] = h[i]
  <2>1. i - 1 \in Nat /\ (i - 1) + 1 = i /\ i <= m
    OBVIOUS
  <2>2. i - 1 \in S
    BY <1>5, <2>1
  <2> QED BY <2>1, <2>2
<1> QED BY <1>6

LEMMA FlattenMore ==
  ASSUME NEW m \in Nat, NEW fs, \A k \in 1 .. m + 1 : List(fs[k])
  PROVE  FlattenSeq(Upto(fs, m + 1)) = FlattenSeq(Upto(fs, m)) \o fs[m + 1]
<1>1. PICK n : n = m + 1
  OBVIOUS
<1>2. n \in Nat \ {0} /\ n \in 1 .. n
  BY <1>1
<1>3. PICK F, G : F = Upto(fs, n) /\ G = Upto(fs, m)
  OBVIOUS
<1>4. Len(F) = n /\ (\A k \in 1 .. n : F[k] = fs[k]) /\ Len(G) = m /\ (\A k \in 1 .. m : G[k] = fs[k])
  BY <1>2, <1>3, UptoIs
<1>5. PICK g : Partial(F, g, n) /\ FlattenSeq(F) = g[n]
  BY <1>2, <1>4, FlattenIs
<1>6. g[n] = IF n = 1 THEN F[n] ELSE g[n - 1] \o F[n]
  BY <1>2, <1>5 DEF Partial
<1>7. CASE m = 0
  <2>1. G = << >>
    BY <1>3, <1>7 DEF Upto
  <2>2. FlattenSeq(G) = << >>
    BY <1>4, <1>7, <2>1 DEF FlattenSeq
  <2>3. FlattenSeq(F) = fs[n] /\ List(fs[n])
    BY <1>1, <1>2, <1>4, <1>5, <1>6, <1>7
  <2> QED BY <1>1, <1>3, <2>2, <2>3, ConcatNone
<1>8. CASE m # 0
  <2>1. m \in Nat \ {0} /\ m <= n /\ n # 1 /\ n - 1 = m /\ m \in 1 .. m
    BY <1>1, <1>8
  <2>2. PICK h : Partial(G, h, m) /\ FlattenSeq(G) = h[m]
    BY <1>4, <2>1, FlattenIs
  <2>3. \A k \in 1 .. m : F[k] = G[k]
    BY <1>1, <1>4
  <2>4. \A i \in 1 .. m : g[i] = h[i]
    BY <1>2, <1>5, <2>1, <2>2, <2>3, PartialSame
  <2>5. g[m] = h[m]
    BY <2>1, <2>4
  <2> QED BY <1>1, <1>2, <1>3, <1>4, <1>5, <1>6, <2>1, <2>2, <2>5
<1> QED BY <1>7, <1>8

(* Two lists of lists of the same shape: what stands at one place came from one place. *)
Aligned(fs, gs, m, t, u) ==
  /\ List(t) /\ List(u) /\ Len(t) = Len(u)
  /\ \A x \in 1 .. Len(t) : \E k \in 1 .. m : \E j \in 1 .. Len(fs[k]) : t[x] = fs[k][j] /\ u[x] = gs[k][j]

LEMMA AlignedMore ==
  ASSUME NEW m \in Nat, NEW fs, NEW gs, NEW t, NEW u, Aligned(fs, gs, m, t, u),
         List(fs[m + 1]), List(gs[m + 1]), Len(fs[m + 1]) = Len(gs[m + 1])
  PROVE  Aligned(fs, gs, m + 1, t \o fs[m + 1], u \o gs[m + 1])
<1>1. PICK p, q, v, w : p = fs[m + 1] /\ q = gs[m + 1] /\ v = t \o p /\ w = u \o q
  OBVIOUS
<1>2. PICK l, n : l = Len(t) /\ n = Len(p)
  OBVIOUS
<1>3. List(t) /\ List(u) /\ Len(u) = l /\ List(p) /\ List(q) /\ Len(q) = n
  BY <1>1, <1>2 DEF Aligned
<1>4. Join(v, t, l, p, n)
  BY <1>1, <1>2, <1>3, Joins
<1>5. Join(w, u, l, q, n)
  BY <1>1, <1>3, Joins
<1>6. l \in Nat /\ n \in Nat
  BY <1>2, <1>3, ListDomain
<1>7. ASSUME NEW x \in 1 .. l + n
      PROVE  \E k \in 1 .. m + 1 : \E j \in 1 .. Len(fs[k]) : v[x] = fs[k][j] /\ w[x] = gs[k][j]
  <2>1. CASE x <= l
    <3>1. x \in 1 .. l
      BY <1>6, <2>1
    <3>2. PICK k \in 1 .. m : \E j \in 1 .. Len(fs[k]) : t[x] = fs[k][j] /\ u[x] = gs[k][j]
      BY <1>2, <3>1 DEF Aligned
    <3>3. k \in 1 .. m + 1 /\ v[x] = t[x] /\ w[x] = u[x]
      BY <1>4, <1>5, <3>1 DEF Join
    <3> QED BY <3>2, <3>3
  <2>2. CASE ~(x <= l)
    <3>1. PICK j : j = x - l
      OBVIOUS
    <3>2. j \in 1 .. n /\ x = l + j
      BY <1>6, <2>2, <3>1
    <3>3. v[x] = p[j] /\ w[x] = q[j]
      BY <1>4, <1>5, <3>2 DEF Join
    <3>4. m + 1 \in 1 .. m + 1
      OBVIOUS
    <3> QED BY <1>1, <1>2, <3>2, <3>3, <3>4
  <2> QED BY <2>1, <2>2
<1> QED BY <1>1, <1>4, <1>5, <1>7 DEF Aligned, Join

AlignedTo(fs, gs, m) == Aligned(fs, gs, m, FlattenSeq(Upto(fs, m)), FlattenSeq(Upto(gs, m)))

LEMMA FlattenAligned ==
  ASSUME NEW n, n \in Nat, NEW fs, NEW gs, fs = [k \in 1 .. n |-> fs[k]], gs = [k \in 1 .. n |-> gs[k]],
         \A k \in 1 .. n : List(fs[k]) /\ List(gs[k]) /\ Len(fs[k]) = Len(gs[k])
  PROVE  Aligned(fs, gs, n, FlattenSeq(fs), FlattenSeq(gs))
<1> DEFINE S == {m \in Nat : m <= n => AlignedTo(fs, gs, m)}
<1>1. 0 \in S
  <2>1. Upto(fs, 0) = << >> /\ Upto(gs, 0) = << >>
    BY DEF Upto
  <2>2. FlattenSeq(<< >>) = << >>
    BY NoItems DEF FlattenSeq
  <2>3. Aligned(fs, gs, 0, << >>, << >>)
    BY NoItems DEF Aligned
  <2>4. AlignedTo(fs, gs, 0)
    BY <2>1, <2>2, <2>3 DEF AlignedTo
  <2> QED BY <2>4
<1>2. ASSUME NEW m \in Nat, m \in S PROVE m + 1 \in S
  <2>1. SUFFICES ASSUME m + 1 <= n PROVE AlignedTo(fs, gs, m + 1)
    OBVIOUS
  <2>2. AlignedTo(fs, gs, m)
    BY <1>2, <2>1
  <2>3. \A k \in 1 .. m + 1 : k \in 1 .. n
    BY <2>1
  <2>4. m + 1 \in 1 .. n
    BY <2>1
  <2>5. FlattenSeq(Upto(fs, m + 1)) = FlattenSeq(Upto(fs, m)) \o fs[m + 1]
    BY <2>3, FlattenMore
  <2>6. FlattenSeq(Upto(gs, m + 1)) = FlattenSeq(Upto(gs, m)) \o gs[m + 1]
    BY <2>3, FlattenMore
  <2>7. List(fs[m + 1]) /\ List(gs[m + 1]) /\ Len(fs[m + 1]) = Len(gs[m + 1])
    BY <2>4
  <2> QED BY ZenonT(60), <2>2, <2>5, <2>6, <2>7, AlignedMore DEF AlignedTo
<1>3. Nat \subseteq S
  <2> HIDE DEF S
  <2> QED BY <1>1, <1>2, SetInduction
<1>4. AlignedTo(fs, gs, n)
  BY <1>3
<1>5. Upto(fs, n) = fs /\ Upto(gs, n) = gs
  BY DEF Upto
<1> QED BY <1>4, <1>5 DEF AlignedTo

-----------------------------------------------------------------------------
(***************************************************************************)
(* The greatest of a set of naturals, and bounds.                          *)
(***************************************************************************)
LEMMA MaxIs ==
  ASSUME NEW S, S \subseteq Nat, NEW x, x \in S, NEW b, b \in Nat, \A y \in S : y <= b
  PROVE  Max(S) \in S /\ \A y \in S : y <= Max(S)
<1> DEFINE Bounds == {m \in Nat : \A y \in S : y <= m}
           Found  == {m \in Nat : m \in Bounds => \E z \in S : \A y \in S : y <= z}
<1>1. 0 \in Found
  <2>1. SUFFICES ASSUME 0 \in Bounds PROVE \A y \in S : y <= x
    OBVIOUS
  <2>2. \A y \in S : y = 0
    BY <2>1
  <2> QED BY <2>2
<1>2. ASSUME NEW m \in Nat, m \in Found PROVE m + 1 \in Found
  <2>1. SUFFICES ASSUME m + 1 \in Bounds PROVE \E z \in S : \A y \in S : y <= z
    OBVIOUS
  <2>2. CASE m + 1 \in S
    BY <2>1, <2>2
  <2>3. CASE m + 1 \notin S
    <3>1. \A y \in S : y <= m
      BY <2>1, <2>3
    <3> QED BY <1>2, <3>1
  <2> QED BY <2>2, <2>3
<1>3. Nat \subseteq Found
  BY <1>1, <1>2, SetInduction
<1>4. b \in Bounds
  OBVIOUS
<1>5. PICK z \in S : \A y \in S : y <= z
  BY <1>3, <1>4
<1>6. \A y \in S : z >= y
  BY <1>5
<1>7. Max(S) \in S /\ \A y \in S : Max(S) >= y
  BY <1>6 DEF Max
<1> QED BY <1>7

LEMMA MaxOfTwo ==
  ASSUME NEW a, NEW b, a \in Nat, b \in Nat
  PROVE  Max({a, b}) \in Nat /\ Max({a, b}) <= a + b
<1>1. Max({a, b}) \in {a, b}
  <2>1. PICK S : S = {a, b}
    OBVIOUS
  <2>2. S \subseteq Nat /\ a \in S /\ a + b \in Nat /\ \A y \in S : y <= a + b
    BY <2>1
  <2>3. Max(S) \in S
    BY <2>2, MaxIs
  <2> QED BY <2>1, <2>3
<1> QED BY <1>1

(* Finitely many naturals are bounded. *)
LEMMA BoundExists ==
  ASSUME NEW n, n \in Nat, NEW f, \A i \in 1 .. n : f[i] \in Nat
  PROVE  \E b \in Nat : \A i \in 1 .. n : f[i] <= b
<1> DEFINE Bound(m) == \E b \in Nat : \A i \in 1 .. m : f[i] <= b
           S == {m \in Nat : m <= n => Bound(m)}
<1>1. 0 \in S
  OBVIOUS
<1>2. ASSUME NEW m \in Nat, m \in S PROVE m + 1 \in S
  <2>1. SUFFICES ASSUME m + 1 <= n PROVE \E b \in Nat : \A i \in 1 .. m + 1 : f[i] <= b
    OBVIOUS
  <2>2. PICK b \in Nat : \A i \in 1 .. m : f[i] <= b
    BY <1>2, <2>1
  <2>3. f[m + 1] \in Nat
    BY <2>1
  <2>4. b + f[m + 1] \in Nat /\ b <= b + f[m + 1] /\ f[m + 1] <= b + f[m + 1]
    BY <2>3
  <2>5. ASSUME NEW i \in 1 .. m + 1 PROVE f[i] <= b + f[m + 1]
    <3>1. CASE i = m + 1
      BY <2>4, <3>1
    <3>2. CASE i # m + 1
      <4>1. i \in 1 .. m /\ f[i] \in Nat
        BY <2>1, <3>2
      <4>2. f[i] <= b
        BY <2>2, <4>1
      <4> QED BY <2>3, <2>4, <4>1, <4>2
    <3> QED BY <3>1, <3>2
  <2> QED BY <2>4, <2>5
<1>3. Nat \subseteq S
  BY <1>1, <1>2, SetInduction
<1> HIDE DEF Bound
<1>4. Bound(n)
  BY <1>3
<1> QED BY <1>4 DEF Bound

LEMMA SeqIs ==
  ASSUME NEW S, NEW s, s \in Seq(S)
  PROVE  /\ List(s) /\ Len(s) \in Nat /\ DOMAIN s = 1 .. Len(s)
         /\ \A k \in 1 .. Len(s) : s[k] \in S
<1>1. s \in [1 .. Len(s) -> S] /\ Len(s) \in Nat
  BY LenProperties
<1> QED BY <1>1 DEF List

LEMMA RangeOf == ASSUME NEW s, List(s) PROVE ToSet(s) = {s[k] : k \in 1 .. Len(s)}
BY ListDomain DEF ToSet

LEMMA FlattenNone == FlattenSeq(<< >>) = << >>
BY NoItems DEF FlattenSeq

LEMMA TwoItems == ASSUME NEW d, NEW e PROVE List(<<d, e>>)
<1>1. <<d, e>> = [k \in 1 .. 2 |-> <<d, e>>[k]]
  OBVIOUS
<1> QED BY <1>1, ListOf

LEMMA FiveItems == ASSUME NEW v, NEW w, NEW x, NEW y, NEW z PROVE List(<<v, w, x, y, z>>)
<1>1. <<v, w, x, y, z>> = [k \in 1 .. 5 |-> <<v, w, x, y, z>>[k]]
  OBVIOUS
<1> QED BY <1>1, ListOf

LEMMA ListFlatten ==
  ASSUME NEW n, n \in Nat, NEW fs, fs = [k \in 1 .. n |-> fs[k]], \A k \in 1 .. n : List(fs[k])
  PROVE  List(FlattenSeq(fs))
BY FlattenOf DEF Gathers

LEMMA UptoMore ==
  ASSUME NEW t, NEW m, m \in Nat PROVE Upto(t, m + 1) = Upto(t, m) \o <<t[m + 1]>>
<1>1. PICK u, w, v, z : u = Upto(t, m) /\ w = <<t[m + 1]>> /\ v = Upto(t, m + 1) /\ z = u \o w
  OBVIOUS
<1>2. List(u) /\ Len(u) = m /\ \A k \in 1 .. m : u[k] = t[k]
  BY <1>1, UptoIs
<1>3. List(v) /\ Len(v) = m + 1 /\ \A k \in 1 .. m + 1 : v[k] = t[k]
  BY <1>1, UptoIs
<1>4. List(w) /\ Len(w) = 1 /\ w[1] = t[m + 1]
  BY <1>1, OneItem
<1>5. Join(z, u, m, w, 1)
  BY <1>1, <1>2, <1>4, Joins
<1>6. List(z) /\ Len(z) = m + 1
  BY <1>5 DEF Join
<1>7. ASSUME NEW k \in 1 .. m + 1 PROVE v[k] = z[k]
  <2>1. CASE k \in 1 .. m
    BY <1>2, <1>3, <1>5, <2>1 DEF Join
  <2>2. CASE k = m + 1
    BY <1>3, <1>4, <1>5, <2>2 DEF Join
  <2> QED BY <2>1, <2>2
<1> QED BY <1>1, <1>3, <1>6, <1>7, ListEqual

(* The same of four and of five lists. *)
AssocThree(a, b, d, e) == ((a \o b) \o d) \o e = a \o (b \o (d \o e))
AssocFour(a, b, d, e, f) == (((a \o b) \o d) \o e) \o f = a \o (b \o (d \o (e \o f)))

LEMMA Regroup ==
  ASSUME NEW a, NEW b, NEW d, NEW e, List(a), List(b), List(d), List(e)
  PROVE  AssocThree(a, b, d, e)
<1>1. PICK u, v : u = a \o b /\ v = d \o e
  OBVIOUS
<1>2. List(u) /\ List(d) /\ List(e)
  BY <1>1, ListConcat
<1>3. Assoc(u, d, e)
  BY <1>2, ConcatAssoc
<1>4. List(a) /\ List(b) /\ List(v)
  BY <1>1, ListConcat
<1>5. Assoc(a, b, v)
  BY <1>4, ConcatAssoc
<1> QED BY <1>1, <1>3, <1>5 DEF Assoc, AssocThree

LEMMA RegroupFour ==
  ASSUME NEW a, NEW b, NEW d, NEW e, NEW f, List(a), List(b), List(d), List(e), List(f)
  PROVE  AssocFour(a, b, d, e, f)
<1>1. PICK u, v : u = a \o b /\ v = d \o (e \o f)
  OBVIOUS
<1>2. List(u) /\ List(d) /\ List(e) /\ List(f)
  BY <1>1, ListConcat
<1>3. AssocThree(u, d, e, f)
  BY <1>2, Regroup
<1>4. PICK w : w = e \o f
  OBVIOUS
<1>5. List(v)
  <2>1. List(w)
    BY <1>4, ListConcat
  <2>2. List(d \o w)
    BY <2>1, ListConcat
  <2> QED BY <1>1, <1>4, <2>2
<1>6. List(a) /\ List(b) /\ List(v)
  BY <1>5
<1>7. Assoc(a, b, v)
  BY <1>6, ConcatAssoc
<1> QED BY <1>1, <1>3, <1>7 DEF Assoc, AssocThree, AssocFour

(* A prefix is what something follows. *)
LEMMA PrefixOf ==
  ASSUME NEW s, NEW t, List(s), List(t)
  PROVE  /\ \A r : List(r) /\ t = s \o r => IsPrefix(s, t)
         /\ IsPrefix(s, t) => Len(s) <= Len(t) /\ \A k \in 1 .. Len(s) : s[k] = t[k]
<1>1. PICK m, n : m = Len(s) /\ n = Len(t)
  OBVIOUS
<1>2. m \in Nat /\ n \in Nat
  BY <1>1, ListDomain
<1>3. SubSeq(s, 1, m) = Upto(s, m) /\ (m <= n => SubSeq(t, 1, m) = Upto(t, m))
  <2>1. m \in 0 .. Len(s) /\ (m <= n => m \in 0 .. Len(t))
    BY <1>1, <1>2
  <2> QED BY <2>1, SplitAt
<1>4. ASSUME NEW r, List(r), t = s \o r PROVE IsPrefix(s, t)
  <2>1. PICK l : l = Len(r)
    OBVIOUS
  <2>2. Join(t, s, m, r, l)
    BY <1>1, <1>4, <2>1, Joins
  <2>3. n = m + l /\ l \in Nat /\ \A k \in 1 .. m : t[k] = s[k]
    BY <1>1, <2>2 DEF Join
  <2>4. m <= n
    BY <1>2, <2>3
  <2>5. Upto(t, m) = Upto(s, m)
    BY <2>3 DEF Upto
  <2> QED BY <1>1, <1>3, <2>4, <2>5 DEF IsPrefix
<1>5. ASSUME IsPrefix(s, t) PROVE m <= n /\ \A k \in 1 .. m : s[k] = t[k]
  <2>1. m <= n /\ Upto(s, m) = Upto(t, m)
    BY <1>1, <1>3, <1>5 DEF IsPrefix
  <2>2. \A k \in 1 .. m : Upto(s, m)[k] = s[k] /\ Upto(t, m)[k] = t[k]
    BY DEF Upto
  <2> QED BY <2>1, <2>2
<1> QED BY <1>1, <1>4, <1>5

-----------------------------------------------------------------------------
(* s is among the items of t. *)
Has(t, s) == \E k \in 1 .. Len(t) : t[k] = s

LEMMA HasConcat ==
  ASSUME NEW f, NEW g, List(f), List(g), NEW s, Has(f, s) \/ Has(g, s) PROVE Has(f \o g, s)
<1>1. PICK h, m, n : h = f \o g /\ m = Len(f) /\ n = Len(g)
  OBVIOUS
<1>2. Join(h, f, m, g, n)
  BY <1>1, Joins
<1>3. CASE Has(f, s)
  <2>1. PICK k \in 1 .. m : f[k] = s
    BY <1>1, <1>3 DEF Has
  <2>2. k \in 1 .. Len(h) /\ h[k] = s
    BY <1>2, <2>1 DEF Join
  <2> QED BY <1>1, <2>2 DEF Has
<1>4. CASE Has(g, s)
  <2>1. PICK k \in 1 .. n : g[k] = s
    BY <1>1, <1>4 DEF Has
  <2>2. m + k \in 1 .. Len(h) /\ h[m + k] = s
    BY <1>2, <2>1 DEF Join
  <2> QED BY <1>1, <2>2 DEF Has
<1> QED BY <1>3, <1>4

LEMMA HasOf ==
  ASSUME NEW n, n \in Nat, NEW f, f = [k \in 1 .. n |-> f[k]], NEW k, k \in 1 .. n PROVE Has(f, f[k])
BY ListOf DEF Has

LEMMA HasFlatten ==
  ASSUME NEW n, n \in Nat, NEW fs, fs = [k \in 1 .. n |-> fs[k]], \A k \in 1 .. n : List(fs[k]),
         NEW k, k \in 1 .. n, NEW s, Has(fs[k], s)
  PROVE  Has(FlattenSeq(fs), s)
<1>1. PICK t : t = FlattenSeq(fs)
  OBVIOUS
<1>2. Gathers(fs, n, t)
  BY <1>1, FlattenOf
<1>3. PICK j \in 1 .. Len(fs[k]) : fs[k][j] = s
  BY DEF Has
<1>4. PICK x \in 1 .. Len(t) : t[x] = fs[k][j]
  BY <1>2 DEF Gathers
<1> QED BY <1>1, <1>3, <1>4 DEF Has

LEMMA HasTwo == ASSUME NEW d, NEW e PROVE Has(<<d, e>>, d) /\ Has(<<d, e>>, e)
<1>1. PICK t : t = <<d, e>>
  OBVIOUS
<1>2. Len(t) = 2 /\ t[1] = d /\ t[2] = e
  BY <1>1
<1>3. 1 \in 1 .. Len(t) /\ 2 \in 1 .. Len(t)
  BY <1>2
<1> QED BY <1>1, <1>2, <1>3 DEF Has

LEMMA HasFive ==
  ASSUME NEW v, NEW w, NEW x, NEW y, NEW z, NEW t, t = <<v, w, x, y, z>>
  PROVE  Has(t, v) /\ Has(t, w) /\ Has(t, x) /\ Has(t, y) /\ Has(t, z)
<1>2. Len(t) = 5 /\ t[1] = v /\ t[2] = w /\ t[3] = x /\ t[4] = y /\ t[5] = z
  OBVIOUS
<1>3. 1 \in 1 .. Len(t) /\ 2 \in 1 .. Len(t) /\ 3 \in 1 .. Len(t) /\ 4 \in 1 .. Len(t) /\ 5 \in 1 .. Len(t)
  BY <1>2
<1> QED BY <1>2, <1>3 DEF Has

-----------------------------------------------------------------------------
(* No item stands at two places. *)
Distinct(t) == List(t) /\ \A k, l \in 1 .. Len(t) : t[k] = t[l] => k = l

NoneShared(s, t) == \A k \in 1 .. Len(s) : \A l \in 1 .. Len(t) : s[k] # t[l]

LEMMA DistinctConcat == ASSUME NEW s, NEW t, Distinct(s), Distinct(t), NoneShared(s, t) PROVE Distinct(s \o t)
<1>1. PICK u, m, n : u = s \o t /\ m = Len(s) /\ n = Len(t)
  OBVIOUS
<1>2. Join(u, s, m, t, n)
  BY <1>1, Joins DEF Distinct
<1>3. List(u) /\ Len(u) = m + n /\ m \in Nat /\ n \in Nat
  BY <1>2 DEF Join
<1>4. /\ \A k \in 1 .. m : u[k] = s[k]
      /\ \A k \in 1 .. n : u[m + k] = t[k]
  BY <1>2 DEF Join
<1>5. /\ \A k, l \in 1 .. m : s[k] = s[l] => k = l
      /\ \A k, l \in 1 .. n : t[k] = t[l] => k = l
      /\ \A k \in 1 .. m : \A l \in 1 .. n : s[k] # t[l]
  BY <1>1 DEF Distinct, NoneShared
<1>6. ASSUME NEW k \in 1 .. m + n PROVE k \in 1 .. m \/ \E x \in 1 .. n : k = m + x
  <2>1. CASE k \in 1 .. m
    BY <2>1
  <2>2. CASE k \notin 1 .. m
    <3>1. PICK x : x = k - m
      OBVIOUS
    <3>2. x \in 1 .. n /\ k = m + x
      BY <1>3, <2>2, <3>1
    <3> QED BY <3>2
  <2> QED BY <2>1, <2>2
<1>7. ASSUME NEW k \in 1 .. m + n, NEW l \in 1 .. m + n, u[k] = u[l] PROVE k = l
  <2>1. CASE k \in 1 .. m /\ l \in 1 .. m
    BY <1>4, <1>5, <1>7, <2>1
  <2>2. CASE k \in 1 .. m /\ \E x \in 1 .. n : l = m + x
    BY <1>4, <1>5, <1>7, <2>2
  <2>3. CASE l \in 1 .. m /\ \E x \in 1 .. n : k = m + x
    BY <1>4, <1>5, <1>7, <2>3
  <2>4. ASSUME NEW x \in 1 .. n, NEW y \in 1 .. n, k = m + x, l = m + y PROVE k = l
    <3>1. u[k] = t[x] /\ u[l] = t[y]
      BY <1>4, <2>4
    <3>2. x = y
      BY <1>5, <1>7, <3>1
    <3> QED BY <2>4, <3>2
  <2> QED BY <1>6, <2>1, <2>2, <2>3, <2>4
<1> QED BY <1>1, <1>3, <1>7 DEF Distinct

LEMMA ApartFlatten ==
  ASSUME NEW n, n \in Nat, NEW fs, fs = [k \in 1 .. n |-> fs[k]], \A k \in 1 .. n : List(fs[k]),
         NEW t, \A k \in 1 .. n : NoneShared(fs[k], t)
  PROVE  NoneShared(FlattenSeq(fs), t)
<1>1. PICK u : u = FlattenSeq(fs)
  OBVIOUS
<1>2. Gathers(fs, n, u)
  BY <1>1, FlattenOf
<1>3. ASSUME NEW x \in 1 .. Len(u), NEW l \in 1 .. Len(t) PROVE u[x] # t[l]
  <2>1. PICK k \in 1 .. n : \E j \in 1 .. Len(fs[k]) : u[x] = fs[k][j]
    BY <1>2 DEF Gathers
  <2>2. NoneShared(fs[k], t)
    OBVIOUS
  <2> QED BY <2>1, <2>2 DEF NoneShared
<1> QED BY <1>1, <1>3 DEF NoneShared

LEMMA DistinctFlatten ==
  ASSUME NEW n, n \in Nat, NEW fs, fs = [k \in 1 .. n |-> fs[k]], \A k \in 1 .. n : Distinct(fs[k]),
         \A k, l \in 1 .. n : k # l => NoneShared(fs[k], fs[l])
  PROVE  Distinct(FlattenSeq(fs))
<1>1. \A k \in 1 .. n : List(fs[k])
  BY DEF Distinct
<1> DEFINE S == {m \in Nat : m <= n => Distinct(FlattenSeq(Upto(fs, m)))}
<1>2. 0 \in S
  <2>1. PICK e : e = Upto(fs, 0)
    OBVIOUS
  <2>2. e = << >>
    BY <2>1 DEF Upto
  <2>3. FlattenSeq(e) = << >>
    <3>1. Len(e) = 0
      BY <2>2, NoItems
    <3> QED BY <2>2, <3>1 DEF FlattenSeq
  <2>4. Distinct(<< >>)
    BY NoItems DEF Distinct
  <2> QED BY <2>1, <2>3, <2>4
<1>3. ASSUME NEW m \in Nat, m \in S PROVE m + 1 \in S
  <2>1. SUFFICES ASSUME m + 1 <= n PROVE Distinct(FlattenSeq(Upto(fs, m + 1)))
    OBVIOUS
  <2>2. PICK a, b, d : a = Upto(fs, m) /\ b = FlattenSeq(a) /\ d = fs[m + 1]
    OBVIOUS
  <2>3. m \in 0 .. n /\ m + 1 \in 1 .. n /\ \A k \in 1 .. m + 1 : k \in 1 .. n
    BY <2>1
  <2>4. Distinct(b) /\ Distinct(d)
    BY <1>3, <2>1, <2>2, <2>3
  <2>5. Len(a) = m /\ \A k \in 1 .. m : a[k] = fs[k]
    BY <2>2, UptoIs
  <2>6. a = [k \in 1 .. m |-> a[k]]
    BY <2>2 DEF Upto
  <2>7. ASSUME NEW k \in 1 .. m PROVE List(a[k]) /\ NoneShared(a[k], d)
    <3>1. k \in 1 .. n /\ k # m + 1
      BY <2>3
    <3> QED BY <1>1, <2>2, <2>3, <2>5, <3>1
  <2>8. NoneShared(b, d)
    BY <2>2, <2>6, <2>7, ApartFlatten
  <2>9. FlattenSeq(Upto(fs, m + 1)) = b \o d
    BY <1>1, <2>2, <2>3, FlattenMore
  <2> QED BY <2>4, <2>8, <2>9, DistinctConcat
<1>4. Nat \subseteq S
  <2> HIDE DEF S
  <2> QED BY <1>2, <1>3, SetInduction
<1>5. Upto(fs, n) = fs
  BY DEF Upto
<1> QED BY <1>4, <1>5

LEMMA DistinctOf ==
  ASSUME NEW n, n \in Nat, NEW fs, fs = [k \in 1 .. n |-> fs[k]],
         \A k, l \in 1 .. n : fs[k] = fs[l] => k = l
  PROVE  Distinct(fs)
BY ListOf DEF Distinct

LEMMA DistinctTwo == ASSUME NEW a, NEW b, a # b PROVE Distinct(<<a, b>>)
<1>1. PICK s : s = <<a, b>>
  OBVIOUS
<1>2. PICK n \in Nat : n = 2
  OBVIOUS
<1>3. s = [k \in 1 .. n |-> s[k]]
  BY <1>1, <1>2
<1>4. s[1] = a /\ s[2] = b
  BY <1>1
<1>5. \A k, l \in 1 .. n : s[k] = s[l] => k = l
  BY <1>2, <1>4
<1>6. Distinct(s)
  BY <1>3, <1>5, DistinctOf
<1> QED BY <1>1, <1>6

-----------------------------------------------------------------------------
(* Two lists whose items have, one by one, the same field at. *)
SameAt(s, t) ==
  /\ List(s) /\ List(t) /\ Len(s) = Len(t)
  /\ \A k \in 1 .. Len(t) : s[k].at = t[k].at

LEMMA SameAtConcat ==
  ASSUME NEW t, NEW s, NEW u, NEW r, SameAt(t, s), SameAt(u, r) PROVE SameAt(t \o u, s \o r)
<1>1. PICK a, b : a = t \o u /\ b = s \o r
  OBVIOUS
<1>2. PICK m, n : m = Len(t) /\ n = Len(u)
  OBVIOUS
<1>3. List(t) /\ List(s) /\ List(u) /\ List(r) /\ Len(s) = m /\ Len(r) = n
  BY <1>2 DEF SameAt
<1>4. Join(a, t, m, u, n)
  BY <1>1, <1>2, <1>3, Joins
<1>5. Join(b, s, m, r, n)
  BY <1>1, <1>3, Joins
<1>6. m \in Nat /\ n \in Nat /\ List(a) /\ List(b) /\ Len(a) = m + n /\ Len(b) = m + n
  BY <1>4, <1>5 DEF Join
<1>7. ASSUME NEW k \in 1 .. m + n PROVE a[k].at = b[k].at
  <2>1. CASE k \in 1 .. m
    <3>1. a[k] = t[k] /\ b[k] = s[k]
      BY <1>4, <1>5, <2>1 DEF Join
    <3> QED BY <1>3, <2>1, <3>1 DEF SameAt
  <2>2. CASE k \notin 1 .. m
    <3>1. PICK j : j = k - m
      OBVIOUS
    <3>2. j \in 1 .. n /\ k = m + j
      BY <1>6, <2>2, <3>1
    <3>3. a[k] = u[j] /\ b[k] = r[j]
      BY <1>4, <1>5, <3>2 DEF Join
    <3> QED BY <1>3, <3>2, <3>3 DEF SameAt
  <2> QED BY <2>1, <2>2
<1> QED BY <1>1, <1>6, <1>7 DEF SameAt

LEMMA SameAtFlatten ==
  ASSUME NEW n, n \in Nat, NEW fs, NEW gs, fs = [k \in 1 .. n |-> fs[k]], gs = [k \in 1 .. n |-> gs[k]],
         \A k \in 1 .. n : SameAt(fs[k], gs[k])
  PROVE  SameAt(FlattenSeq(fs), FlattenSeq(gs))
<1>1. PICK t, u : t = FlattenSeq(fs) /\ u = FlattenSeq(gs)
  OBVIOUS
<1>2. \A k \in 1 .. n : List(fs[k]) /\ List(gs[k]) /\ Len(fs[k]) = Len(gs[k])
  BY DEF SameAt
<1>3. Aligned(fs, gs, n, t, u)
  BY <1>1, <1>2, FlattenAligned
<1>4. ASSUME NEW x \in 1 .. Len(u) PROVE t[x].at = u[x].at
  <2>1. x \in 1 .. Len(t)
    BY <1>3 DEF Aligned
  <2>2. PICK k \in 1 .. n : \E j \in 1 .. Len(fs[k]) : t[x] = fs[k][j] /\ u[x] = gs[k][j]
    BY <1>3, <2>1 DEF Aligned
  <2> QED BY <1>2, <2>2 DEF SameAt
<1> QED BY <1>1, <1>3, <1>4 DEF Aligned, SameAt

LEMMA SameAtOf ==
  ASSUME NEW n, n \in Nat, NEW fs, NEW gs, fs = [k \in 1 .. n |-> fs[k]], gs = [k \in 1 .. n |-> gs[k]],
         \A k \in 1 .. n : fs[k].at = gs[k].at
  PROVE  SameAt(fs, gs)
<1>1. List(fs) /\ Len(fs) = n /\ List(gs) /\ Len(gs) = n
  BY ListOf
<1> QED BY <1>1 DEF SameAt

LEMMA SameAtTwo ==
  ASSUME NEW a, NEW b, NEW d, NEW e, a.at = d.at, b.at = e.at PROVE SameAt(<<a, b>>, <<d, e>>)
<1>1. PICK s, t : s = <<a, b>> /\ t = <<d, e>>
  OBVIOUS
<1>2. PICK n \in Nat : n = 2
  OBVIOUS
<1>5. s = [k \in 1 .. n |-> s[k]] /\ t = [k \in 1 .. n |-> t[k]]
  BY <1>1, <1>2
<1>3. \A k \in 1 .. n : s[k].at = t[k].at
  BY <1>1, <1>2
<1>4. List(s) /\ Len(s) = n
  BY <1>2, <1>5, ListOf
<1>6. List(t) /\ Len(t) = n
  BY <1>2, <1>5, ListOf
<1> QED BY <1>1, <1>3, <1>4, <1>6 DEF SameAt

LEMMA SameAtFive ==
  ASSUME NEW a, NEW b, NEW d, NEW e, NEW f, NEW u, NEW v, NEW w, NEW x, NEW y,
         a.at = u.at, b.at = v.at, d.at = w.at, e.at = x.at, f.at = y.at
  PROVE  SameAt(<<a, b, d, e, f>>, <<u, v, w, x, y>>)
<1>1. PICK s, t : s = <<a, b, d, e, f>> /\ t = <<u, v, w, x, y>>
  OBVIOUS
<1>2. PICK n \in Nat : n = 5
  OBVIOUS
<1>5. s = [k \in 1 .. n |-> s[k]] /\ t = [k \in 1 .. n |-> t[k]]
  BY <1>1, <1>2
<1>3. \A k \in 1 .. n : s[k].at = t[k].at
  BY <1>1, <1>2
<1>4. List(s) /\ Len(s) = n
  BY <1>2, <1>5, ListOf
<1>6. List(t) /\ Len(t) = n
  BY <1>2, <1>5, ListOf
<1> QED BY <1>1, <1>3, <1>4, <1>6 DEF SameAt

-----------------------------------------------------------------------------
(* What tells two queries of the multi-open apart: the kind of polynomial, *)
(* the circuit, the column or argument, the row.                           *)
Label(q, sort) ==
  IF sort = "kind" THEN q.of.of ELSE IF sort = "circuit" THEN q.of.i ELSE IF sort = "place" THEN q.of.j ELSE q.at

LabelsIn(t, sort, S) == List(t) /\ \A k \in 1 .. Len(t) : Label(t[k], sort) \in S

LEMMA LabelsApart ==
  ASSUME NEW s, NEW t, NEW sort, NEW S, NEW T, LabelsIn(s, sort, S), LabelsIn(t, sort, T), S \cap T = {}
  PROVE  NoneShared(s, t)
<1>1. ASSUME NEW k \in 1 .. Len(s), NEW l \in 1 .. Len(t), s[k] = t[l] PROVE FALSE
  <2>1. Label(s[k], sort) \in S /\ Label(t[l], sort) \in T
    BY DEF LabelsIn
  <2> QED BY <1>1, <2>1
<1> QED BY <1>1 DEF NoneShared

LEMMA LabelledMore ==
  ASSUME NEW t, NEW sort, NEW S, NEW T, LabelsIn(t, sort, S), S \subseteq T PROVE LabelsIn(t, sort, T)
BY DEF LabelsIn

LEMMA LabelledConcat ==
  ASSUME NEW s, NEW t, NEW sort, NEW S, LabelsIn(s, sort, S), LabelsIn(t, sort, S) PROVE LabelsIn(s \o t, sort, S)
<1>1. PICK u, m, n : u = s \o t /\ m = Len(s) /\ n = Len(t)
  OBVIOUS
<1>2. Join(u, s, m, t, n)
  BY <1>1, Joins DEF LabelsIn
<1>3. ASSUME NEW k \in 1 .. m + n PROVE Label(u[k], sort) \in S
  <2>1. CASE k \in 1 .. m
    <3>1. u[k] = s[k]
      BY <1>2, <2>1 DEF Join
    <3>2. Label(s[k], sort) \in S
      BY <1>1, <2>1 DEF LabelsIn
    <3> QED BY <3>1, <3>2
  <2>2. CASE k \notin 1 .. m
    <3>1. PICK x : x = k - m
      OBVIOUS
    <3>2. m \in Nat /\ n \in Nat
      BY <1>2 DEF Join
    <3>3. x \in 1 .. n /\ k = m + x
      BY <2>2, <3>1, <3>2
    <3>4. u[k] = t[x]
      BY <1>2, <3>3 DEF Join
    <3>5. Label(t[x], sort) \in S
      BY <1>1, <3>3 DEF LabelsIn
    <3> QED BY <3>4, <3>5
  <2> QED BY <2>1, <2>2
<1>4. List(u) /\ Len(u) = m + n
  BY <1>2 DEF Join
<1> QED BY <1>1, <1>3, <1>4 DEF LabelsIn

LEMMA LabelledFlatten ==
  ASSUME NEW n, n \in Nat, NEW fs, fs = [k \in 1 .. n |-> fs[k]], NEW sort, NEW S,
         \A k \in 1 .. n : LabelsIn(fs[k], sort, S)
  PROVE  LabelsIn(FlattenSeq(fs), sort, S)
<1>1. PICK u : u = FlattenSeq(fs)
  OBVIOUS
<1>2. \A k \in 1 .. n : List(fs[k])
  BY DEF LabelsIn
<1>3. Gathers(fs, n, u)
  BY <1>1, <1>2, FlattenOf
<1>4. ASSUME NEW x \in 1 .. Len(u) PROVE Label(u[x], sort) \in S
  <2>1. PICK k \in 1 .. n : \E j \in 1 .. Len(fs[k]) : u[x] = fs[k][j]
    BY <1>3 DEF Gathers
  <2> QED BY <2>1 DEF LabelsIn
<1> QED BY <1>1, <1>3, <1>4 DEF LabelsIn, Gathers

LEMMA LabelledOf ==
  ASSUME NEW n, n \in Nat, NEW fs, fs = [k \in 1 .. n |-> fs[k]], NEW sort, NEW S,
         \A k \in 1 .. n : Label(fs[k], sort) \in S
  PROVE  LabelsIn(fs, sort, S)
BY ListOf DEF LabelsIn

LEMMA LabelledTwo ==
  ASSUME NEW a, NEW b, NEW sort, NEW S, Label(a, sort) \in S, Label(b, sort) \in S
  PROVE  LabelsIn(<<a, b>>, sort, S)
<1>1. PICK s : s = <<a, b>>
  OBVIOUS
<1>2. PICK n \in Nat : n = 2
  OBVIOUS
<1>3. s = [k \in 1 .. n |-> s[k]]
  BY <1>1, <1>2
<1>4. s[1] = a /\ s[2] = b
  BY <1>1
<1>5. \A k \in 1 .. n : Label(s[k], sort) \in S
  BY <1>2, <1>4
<1>6. LabelsIn(s, sort, S)
  BY <1>3, <1>5, LabelledOf
<1> QED BY <1>1, <1>6

-----------------------------------------------------------------------------
(* Queries of one circuit, of some kinds, no two the same. *)
Part(t, i, K) == Distinct(t) /\ LabelsIn(t, "kind", K) /\ LabelsIn(t, "circuit", {i})

LEMMA PartConcat ==
  ASSUME NEW s, NEW t, NEW i, NEW K, NEW L, Part(s, i, K), Part(t, i, L), K \cap L = {}
  PROVE  Part(s \o t, i, K \cup L)
<1>1. LabelsIn(s, "kind", K) /\ LabelsIn(t, "kind", L) /\ LabelsIn(s, "circuit", {i}) /\ LabelsIn(t, "circuit", {i})
  BY DEF Part
<1>2. NoneShared(s, t)
  BY <1>1, LabelsApart
<1>3. Distinct(s \o t)
  BY <1>2, DistinctConcat DEF Part
<1>4. LabelsIn(s, "kind", K \cup L) /\ LabelsIn(t, "kind", K \cup L)
  BY <1>1, LabelledMore
<1>5. LabelsIn(s \o t, "kind", K \cup L) /\ LabelsIn(s \o t, "circuit", {i})
  BY <1>1, <1>4, LabelledConcat
<1> QED BY <1>3, <1>5 DEF Part

(* A list of queries, one for each place or row. *)
OneEach(fs, n, i, kind) ==
  /\ n \in Nat /\ fs = [k \in 1 .. n |-> fs[k]]
  /\ \A k \in 1 .. n : Label(fs[k], "kind") = kind /\ Label(fs[k], "circuit") = i
  /\ \A k, l \in 1 .. n :
       Label(fs[k], "place") = Label(fs[l], "place") /\ Label(fs[k], "row") = Label(fs[l], "row") => k = l

LEMMA PartOf == ASSUME NEW fs, NEW n, NEW i, NEW kind, OneEach(fs, n, i, kind) PROVE Part(fs, i, {kind})
<1>0. /\ n \in Nat /\ fs = [k \in 1 .. n |-> fs[k]]
      /\ \A k \in 1 .. n : Label(fs[k], "kind") \in {kind} /\ Label(fs[k], "circuit") \in {i}
      /\ \A k, l \in 1 .. n : fs[k] = fs[l] => k = l
  BY DEF OneEach
<1>1. LabelsIn(fs, "kind", {kind}) /\ LabelsIn(fs, "circuit", {i})
  BY <1>0, LabelledOf
<1>2. Distinct(fs)
  BY <1>0, DistinctOf
<1> QED BY <1>1, <1>2 DEF Part

(* Lists of one argument each. *)
OfPlace(t, i, K, k) == Part(t, i, K) /\ LabelsIn(t, "place", {k})

LEMMA PartFlatten ==
  ASSUME NEW n, n \in Nat, NEW fs, fs = [k \in 1 .. n |-> fs[k]], NEW i, NEW K,
         \A k \in 1 .. n : OfPlace(fs[k], i, K, k)
  PROVE  Part(FlattenSeq(fs), i, K)
<1>0. \A k \in 1 .. n : Part(fs[k], i, K) /\ LabelsIn(fs[k], "place", {k})
  BY DEF OfPlace
<1>1. ASSUME NEW k \in 1 .. n, NEW l \in 1 .. n, k # l PROVE NoneShared(fs[k], fs[l])
  <2>1. {k} \cap {l} = {}
    BY <1>1
  <2> QED BY <1>0, <2>1, LabelsApart
<1>2. Distinct(FlattenSeq(fs))
  BY <1>0, <1>1, DistinctFlatten DEF Part
<1>3. LabelsIn(FlattenSeq(fs), "kind", K)
  BY <1>0, LabelledFlatten DEF Part
<1>4. LabelsIn(FlattenSeq(fs), "circuit", {i})
  BY <1>0, LabelledFlatten DEF Part
<1> QED BY <1>2, <1>3, <1>4 DEF Part

(* Lists of queries of different kinds. *)
OfKinds(t, K) == Distinct(t) /\ LabelsIn(t, "kind", K)

LEMMA KindsConcat ==
  ASSUME NEW s, NEW t, NEW K, NEW L, OfKinds(s, K), OfKinds(t, L), K \cap L = {} PROVE OfKinds(s \o t, K \cup L)
<1>1. NoneShared(s, t)
  BY LabelsApart DEF OfKinds
<1>2. Distinct(s \o t)
  BY <1>1, DistinctConcat DEF OfKinds
<1>3. LabelsIn(s, "kind", K \cup L) /\ LabelsIn(t, "kind", K \cup L)
  BY LabelledMore DEF OfKinds
<1>4. LabelsIn(s \o t, "kind", K \cup L)
  BY <1>3, LabelledConcat
<1> QED BY <1>2, <1>4 DEF OfKinds
=============================================================================
