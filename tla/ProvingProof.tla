---------------------------- MODULE ProvingProof -----------------------------
(***************************************************************************)
(* What Proving promises, for every circuit, scheme and number of rows.    *)
(***************************************************************************)
EXTENDS Proving, CommonLemmas, FiniteSetTheorems

-----------------------------------------------------------------------------
(***************************************************************************)
(* What keygen leaves: numbers are naturals, lists are lists.              *)
(***************************************************************************)
LEMMA DegreeIs == ASSUME NEW circ \in Circuits PROVE Degree(circ) \in Nat /\ Degree(circ) >= 3
<1> DEFINE lk  == circ.lookups
           shf == circ.shuffles
           gt  == circ.gates
           L == {Max({4, 2 + lk[i].input + lk[i].table}) : i \in DOMAIN lk}
           H == {2 + Max({shf[i].input, shf[i].table}) : i \in DOMAIN shf}
           G == {gt[i].degree : i \in DOMAIN gt}
           m == circ.minDegree
           S == {3, m} \cup L \cup H \cup G
<1> DEFINE R == [queries : QueryLists, input : Nat, table : Nat]
           Q == [queries : QueryLists, degree : Nat]
<1>1. lk \in Seq(R) /\ shf \in Seq(R) /\ gt \in Seq(Q) /\ m \in Nat
  BY CircuitsAssumption DEF ArgumentLists
<1> HIDE DEF lk, shf, gt, m
<1>2. \A x \in R : x.input \in Nat /\ x.table \in Nat
  OBVIOUS
<1>3. \A x \in Q : x.degree \in Nat
  OBVIOUS
<1> HIDE DEF R, Q
<1>4. /\ Len(lk) \in Nat /\ DOMAIN lk = 1 .. Len(lk)
      /\ \A i \in DOMAIN lk : lk[i].input \in Nat /\ lk[i].table \in Nat
  BY <1>1, <1>2, SeqIs
<1>5. /\ Len(shf) \in Nat /\ DOMAIN shf = 1 .. Len(shf)
      /\ \A i \in DOMAIN shf : shf[i].input \in Nat /\ shf[i].table \in Nat
  BY <1>1, <1>2, SeqIs
<1>6. /\ Len(gt) \in Nat /\ DOMAIN gt = 1 .. Len(gt)
      /\ \A i \in DOMAIN gt : gt[i].degree \in Nat
  BY <1>1, <1>3, SeqIs
<1>7. PICK lb \in Nat : \A y \in L : y \in Nat /\ y <= lb
  <2> DEFINE f == [i \in DOMAIN lk |-> 6 + lk[i].input + lk[i].table]
  <2>1. \A i \in 1 .. Len(lk) : f[i] \in Nat
    BY <1>4
  <2>2. PICK b \in Nat : \A i \in 1 .. Len(lk) : f[i] <= b
    <3> HIDE DEF f
    <3> QED BY <1>4, <2>1, BoundExists
  <2>3. ASSUME NEW i \in DOMAIN lk
        PROVE  /\ Max({4, 2 + lk[i].input + lk[i].table}) \in Nat
               /\ Max({4, 2 + lk[i].input + lk[i].table}) <= b
    <3>1. PICK a \in Nat : a = 2 + lk[i].input + lk[i].table
      BY <1>4
    <3>2. Max({4, a}) \in Nat /\ Max({4, a}) <= 4 + a
      BY MaxOfTwo
    <3>3. f[i] <= b /\ f[i] = 6 + lk[i].input + lk[i].table
      BY <1>4, <2>2
    <3>4. PICK x : x = Max({4, a})
      OBVIOUS
    <3>5. PICK y : y = f[i]
      OBVIOUS
    <3>6. x \in Nat /\ x <= 4 + a
      BY <3>2, <3>4
    <3>7. lk[i].input \in Nat /\ lk[i].table \in Nat
      BY <1>4
    <3>8. y <= b /\ y = 6 + lk[i].input + lk[i].table
      BY <3>3, <3>5
    <3>9. x <= b
      <4> HIDE DEF f
      <4> QED BY <3>1, <3>6, <3>7, <3>8
    <3> QED BY <3>1, <3>2, <3>4, <3>9
  <2> QED BY <2>3
<1>8. PICK hb \in Nat : \A y \in H : y \in Nat /\ y <= hb
  <2> DEFINE f == [i \in DOMAIN shf |-> 2 + shf[i].input + shf[i].table]
  <2>1. \A i \in 1 .. Len(shf) : f[i] \in Nat
    BY <1>5
  <2>2. PICK b \in Nat : \A i \in 1 .. Len(shf) : f[i] <= b
    <3> HIDE DEF f
    <3> QED BY <1>5, <2>1, BoundExists
  <2>3. ASSUME NEW i \in DOMAIN shf
        PROVE  /\ 2 + Max({shf[i].input, shf[i].table}) \in Nat
               /\ 2 + Max({shf[i].input, shf[i].table}) <= b
    <3>1. shf[i].input \in Nat /\ shf[i].table \in Nat
      BY <1>5
    <3>2. PICK x : x = Max({shf[i].input, shf[i].table})
      OBVIOUS
    <3>3. x \in Nat /\ x <= shf[i].input + shf[i].table
      BY <3>1, <3>2, MaxOfTwo
    <3>4. f[i] <= b /\ f[i] = 2 + shf[i].input + shf[i].table
      BY <1>5, <2>2
    <3>5. 2 + x \in Nat /\ 2 + x <= b
      <4> HIDE DEF f
      <4> QED BY <3>1, <3>3, <3>4
    <3> QED BY <3>2, <3>5
  <2> QED BY <2>3
<1>9. PICK gb \in Nat : \A y \in G : y \in Nat /\ y <= gb
  <2> DEFINE f == [i \in DOMAIN gt |-> gt[i].degree]
  <2>1. \A i \in 1 .. Len(gt) : f[i] \in Nat
    BY <1>6
  <2>2. PICK b \in Nat : \A i \in 1 .. Len(gt) : f[i] <= b
    <3> HIDE DEF f
    <3> QED BY <1>6, <2>1, BoundExists
  <2> QED BY <1>6, <2>2
<1> HIDE DEF L, H, G
<1>10. S \subseteq Nat /\ 3 \in S
  BY <1>1, <1>7, <1>8, <1>9
<1>11. PICK b \in Nat : b = 3 + m + lb + hb + gb
  BY <1>1
<1>12. \A y \in S : y <= b
  BY <1>1, <1>7, <1>8, <1>9, <1>11
<1>13. Max(S) \in S /\ 3 <= Max(S)
  <2> HIDE DEF S
  <2> QED BY <1>10, <1>11, <1>12, MaxIs
<1>14. Degree(circ) = Max(S)
  BY DEF Degree, S, L, H, G, lk, shf, gt, m
<1> QED BY <1>10, <1>13, <1>14

LEMMA SetsIs == ASSUME NEW circ \in Circuits PROVE PermSets(circ) \in Nat /\ QuotientDegree(circ) \in Nat
<1>1. Degree(circ) \in Nat /\ Degree(circ) >= 3
  BY DegreeIs
<1>2. PICK n \in Nat : n = Len(circ.perm)
  BY CircuitsAssumption
<1>3. PICK d : d = Degree(circ) - 2
  OBVIOUS
<1>4. d \in Nat \ {0} /\ Degree(circ) - 1 \in Nat
  BY <1>1, <1>3
<1>5. (n + d - 1) \div d \in Nat
  <2>1. PICK a : a = n + d - 1
    OBVIOUS
  <2>2. a \in Nat
    BY <1>4, <2>1
  <2> QED BY <1>4, <2>1, <2>2, DivMod
<1> QED BY <1>2, <1>3, <1>4, <1>5 DEF PermSets, ChunkLen, QuotientDegree

LEMMA IndicesIs ==
  ASSUME NEW S, NEW phases, phases \in Seq(S), NEW phase
  PROVE  /\ List(IndicesOf(phases, phase))
         /\ \A k \in 1 .. Len(IndicesOf(phases, phase)) :
              /\ IndicesOf(phases, phase)[k] \in 1 .. Len(phases)
              /\ phases[IndicesOf(phases, phase)[k]] = phase
         /\ \A i \in 1 .. Len(phases) : phases[i] = phase =>
              \E k \in 1 .. Len(IndicesOf(phases, phase)) : IndicesOf(phases, phase)[k] = i
<1> DEFINE fs == [k \in 1 .. Len(phases) |-> IF phases[k] = phase THEN <<k>> ELSE << >>]
<1>1. Len(phases) \in Nat /\ DOMAIN phases = 1 .. Len(phases)
  BY SeqIs
<1>2. PICK t : t = IndicesOf(phases, phase)
  OBVIOUS
<1>3. t = FlattenSeq(fs)
  BY <1>1, <1>2 DEF IndicesOf
<1>4. fs = [k \in 1 .. Len(phases) |-> fs[k]]
  OBVIOUS
<1>5. ASSUME NEW k \in 1 .. Len(phases)
      PROVE  /\ List(fs[k])
             /\ \A j \in 1 .. Len(fs[k]) : fs[k][j] = k /\ phases[k] = phase
             /\ phases[k] = phase => fs[k][1] = k /\ 1 \in 1 .. Len(fs[k])
  <2>1. CASE phases[k] = phase
    <3>1. fs[k] = <<k>>
      BY <2>1
    <3> HIDE DEF fs
    <3>2. List(fs[k]) /\ Len(fs[k]) = 1 /\ fs[k][1] = k
      BY <3>1, OneItem
    <3> QED BY <2>1, <3>2
  <2>2. CASE phases[k] # phase
    <3>1. fs[k] = << >>
      BY <2>2
    <3> HIDE DEF fs
    <3>2. List(fs[k]) /\ Len(fs[k]) = 0
      BY <3>1, NoItems
    <3> QED BY <2>2, <3>2
  <2> QED BY <2>1, <2>2
<1> HIDE DEF fs
<1>6. Gathers(fs, Len(phases), t)
  BY <1>1, <1>3, <1>4, <1>5, FlattenOf
<1>7. \A k \in 1 .. Len(t) : t[k] \in 1 .. Len(phases) /\ phases[t[k]] = phase
  <2> SUFFICES ASSUME NEW k \in 1 .. Len(t) PROVE t[k] \in 1 .. Len(phases) /\ phases[t[k]] = phase
    OBVIOUS
  <2>1. PICK i \in 1 .. Len(phases) : \E j \in 1 .. Len(fs[i]) : t[k] = fs[i][j]
    BY <1>6 DEF Gathers
  <2>2. t[k] = i /\ phases[i] = phase
    BY <1>5, <2>1
  <2> QED BY <2>2
<1>8. ASSUME NEW i \in 1 .. Len(phases), phases[i] = phase PROVE \E k \in 1 .. Len(t) : t[k] = i
  <2>1. 1 \in 1 .. Len(fs[i]) /\ fs[i][1] = i
    BY <1>5, <1>8
  <2>2. PICK k \in 1 .. Len(t) : t[k] = fs[i][1]
    BY <1>6, <2>1 DEF Gathers
  <2> QED BY <2>1, <2>2
<1> QED BY <1>2, <1>6, <1>7, <1>8 DEF Gathers

LEMMA CollectedIs == ASSUME NEW circ \in Circuits PROVE List(Collected(circ))
<1>1. ASSUME NEW R, NEW args, args \in Seq(R), \A x \in R : x.queries \in QueryLists
      PROVE  List(QueriesOf(args))
  <2> DEFINE fs == [i \in 1 .. Len(args) |-> args[i].queries]
  <2>1. /\ Len(args) \in Nat /\ DOMAIN args = 1 .. Len(args)
        /\ \A i \in 1 .. Len(args) : args[i] \in R
    BY <1>1, SeqIs
  <2>2. QueriesOf(args) = FlattenSeq(fs)
    BY <2>1 DEF QueriesOf
  <2>3. fs = [i \in 1 .. Len(args) |-> fs[i]]
    OBVIOUS
  <2>4. \A i \in 1 .. Len(args) : fs[i] \in QueryLists
    BY <1>1, <2>1
  <2> HIDE DEF fs
  <2>5. \A i \in 1 .. Len(args) : List(fs[i])
    BY <2>4, SeqIs DEF QueryLists
  <2>6. Gathers(fs, Len(args), QueriesOf(args))
    BY <2>1, <2>2, <2>3, <2>5, FlattenOf
  <2> QED BY <2>6 DEF Gathers
<1> DEFINE R == [queries : QueryLists, input : Nat, table : Nat]
           Q == [queries : QueryLists, degree : Nat]
           a == circ.lookups
           b == circ.shuffles
           g == circ.gates
           p == [i \in DOMAIN circ.perm |-> circ.perm[i] \o <<0>>]
<1>2. a \in Seq(R) /\ b \in Seq(R) /\ g \in Seq(Q)
  BY CircuitsAssumption DEF ArgumentLists
<1>3. (\A x \in R : x.queries \in QueryLists) /\ \A x \in Q : x.queries \in QueryLists
  OBVIOUS
<1> HIDE DEF R, Q, a, b, g
<1>4. List(QueriesOf(a)) /\ List(QueriesOf(b)) /\ List(QueriesOf(g))
  BY <1>1, <1>2, <1>3
<1>5. List(p)
  <2>1. Len(circ.perm) \in Nat /\ DOMAIN circ.perm = 1 .. Len(circ.perm)
    BY CircuitsAssumption, SeqIs
  <2>2. p = [i \in 1 .. Len(circ.perm) |-> p[i]]
    BY <2>1
  <2> HIDE DEF p
  <2> QED BY <2>1, <2>2, ListOf
<1>6. Collected(circ) = ((QueriesOf(g) \o QueriesOf(a)) \o QueriesOf(b)) \o p
  BY DEF Collected, a, b, g, p
<1> HIDE DEF p
<1>7. List(QueriesOf(g) \o QueriesOf(a))
  BY <1>4, ListConcat
<1>8. List((QueriesOf(g) \o QueriesOf(a)) \o QueriesOf(b))
  BY <1>4, <1>7, ListConcat
<1> QED BY <1>5, <1>6, <1>8, ListConcat

LEMMA QueriesIs == ASSUME NEW circ \in Circuits, NEW type PROVE List(Queries(circ, type))
<1> DEFINE all == Collected(circ)
           n == Len(all)
           fs == [k \in 1 .. n |->
                    IF all[k][1] = type /\ \A l \in 1 .. k - 1 : all[l] # all[k] THEN <<all[k]>> ELSE << >>]
<1>1. n \in Nat /\ DOMAIN all = 1 .. n
  <2> HIDE DEF all
  <2> QED BY CollectedIs, ListDomain DEF all
<1>2. Queries(circ, type) = FlattenSeq(fs)
  BY <1>1 DEF Queries
<1>3. fs = [k \in 1 .. n |-> fs[k]]
  OBVIOUS
<1>4. \A k \in 1 .. n : fs[k] = <<all[k]>> \/ fs[k] = << >>
  OBVIOUS
<1> HIDE DEF fs, n, all
<1>5. \A k \in 1 .. n : List(fs[k])
  BY <1>4, NoItems, OneItem
<1>6. Gathers(fs, n, Queries(circ, type))
  BY <1>1, <1>2, <1>3, <1>5, FlattenOf
<1> QED BY <1>6 DEF Gathers

LEMMA PhasesIs ==
  ASSUME NEW circ \in Circuits
  PROVE  \E top \in Nat : /\ Phases(circ) = [i \in 1 .. top + 1 |-> i - 1]
                          /\ \A col \in DOMAIN circ.adv : circ.adv[col] <= top
<1> DEFINE adv == circ.adv
           S == {0} \cup ToSet(adv)
<1>1. DOMAIN adv = 1 .. Len(adv) /\ \A k \in 1 .. Len(adv) : adv[k] \in 0 .. 255
  <2>1. adv \in Seq(0 .. 255)
    BY CircuitsAssumption
  <2> HIDE DEF adv
  <2> QED BY <2>1, SeqIs
<1> HIDE DEF adv
<1>2. S \subseteq 0 .. 255 /\ 0 \in S /\ \A col \in DOMAIN adv : adv[col] \in S
  <2>1. ASSUME NEW x \in ToSet(adv) PROVE x \in 0 .. 255
    <3>1. PICK i \in DOMAIN adv : x = adv[i]
      BY DEF ToSet
    <3> QED BY <1>1, <3>1
  <2>2. \A col \in DOMAIN adv : adv[col] \in ToSet(adv)
    BY DEF ToSet
  <2> QED BY <2>1, <2>2
<1>3. PICK top : top = Max(S)
  OBVIOUS
<1>4. top \in S /\ \A y \in S : y <= top
  <2> HIDE DEF S
  <2>1. S \subseteq Nat /\ 255 \in Nat /\ \A y \in S : y <= 255
    BY <1>2
  <2> QED BY <1>2, <1>3, <2>1, MaxIs
<1>5. Phases(circ) = [i \in 1 .. top + 1 |-> i - 1]
  BY <1>3 DEF Phases, adv
<1> HIDE DEF S
<1>6. top \in Nat
  BY <1>2, <1>4
<1>7. \A col \in DOMAIN adv : adv[col] <= top
  BY <1>2, <1>4
<1> QED BY <1>5, <1>6, <1>7 DEF adv

-----------------------------------------------------------------------------
(***************************************************************************)
(* What a session works with.                                              *)
(***************************************************************************)
LEMMA TheCircuit ==
  ASSUME input \in Inputs
  PROVE  /\ c \in Circuits /\ vk = Keygen(c)
         /\ Len(input.instances) \in Nat /\ Proofs = 1 .. Len(input.instances)
         /\ \A i \in Proofs : input.instances[i] \in Seq(Nat)
<1>1. c \in Circuits /\ input.instances \in InstanceSets[c]
  BY DEF Inputs, c
<1>2. vk = Keygen(c)
  BY <1>1 DEF vk, Keys
<1>3. input.instances \in Seq(Seq(Nat))
  BY <1>1, CircuitsAssumption
<1>4. PICK x : x = input.instances
  OBVIOUS
<1>5. Len(x) \in Nat /\ DOMAIN x = 1 .. Len(x) /\ \A i \in 1 .. Len(x) : x[i] \in Seq(Nat)
  BY <1>3, <1>4, SeqIs
<1> QED BY <1>1, <1>2, <1>4, <1>5 DEF Proofs

LEMMA TheKey ==
  ASSUME input \in Inputs
  PROVE  /\ vk.sets \in Nat /\ vk.pieces \in Nat
         /\ List(vk.queries["advice"]) /\ List(vk.queries["fixed"])
         /\ \E top \in Nat : /\ vk.phases = [i \in 1 .. top + 1 |-> i - 1]
                             /\ \A col \in DOMAIN c.adv : c.adv[col] <= top
<1>1. c \in Circuits /\ vk = Keygen(c)
  BY TheCircuit
<1>2. vk.sets = PermSets(c) /\ vk.pieces = QuotientDegree(c) /\ vk.phases = Phases(c)
  BY <1>1 DEF Keygen
<1>3. vk.queries["advice"] = Queries(c, "advice") /\ vk.queries["fixed"] = Queries(c, "fixed")
  BY <1>1 DEF Keygen
<1>4. vk.sets \in Nat /\ vk.pieces \in Nat
  BY <1>1, <1>2, SetsIs
<1>5. List(Queries(c, "advice")) /\ List(Queries(c, "fixed"))
  BY <1>1, QueriesIs
<1>6. \E top \in Nat : /\ Phases(c) = [i \in 1 .. top + 1 |-> i - 1]
                       /\ \A col \in DOMAIN c.adv : c.adv[col] <= top
  BY <1>1, PhasesIs
<1> QED BY <1>2, <1>3, <1>4, <1>5, <1>6

LEMMA TheLists ==
  ASSUME input \in Inputs
  PROVE  /\ Len(c.adv) \in Nat /\ DOMAIN c.adv = 1 .. Len(c.adv)
         /\ Len(c.chal) \in Nat /\ DOMAIN c.chal = 1 .. Len(c.chal)
         /\ Len(c.perm) \in Nat /\ DOMAIN c.perm = 1 .. Len(c.perm)
         /\ Len(c.lookups) \in Nat /\ DOMAIN c.lookups = 1 .. Len(c.lookups)
         /\ Len(c.shuffles) \in Nat /\ DOMAIN c.shuffles = 1 .. Len(c.shuffles)
         /\ \A col \in DOMAIN c.adv : c.adv[col] \in Nat
         /\ \A idx \in DOMAIN c.chal : c.chal[idx] \in Nat
<1>1. c \in Circuits
  BY TheCircuit
<1> HIDE DEF c
<1>2. /\ c.adv \in Seq(0 .. 255) /\ c.chal \in Seq(0 .. 255)
      /\ c.perm \in Seq(ColumnTypes \X (Nat \ {0}))
      /\ c.lookups \in ArgumentLists /\ c.shuffles \in ArgumentLists
  BY <1>1, CircuitsAssumption
<1>3. /\ Len(c.adv) \in Nat /\ DOMAIN c.adv = 1 .. Len(c.adv)
      /\ \A col \in 1 .. Len(c.adv) : c.adv[col] \in 0 .. 255
  BY <1>2, SeqIs
<1>4. /\ Len(c.chal) \in Nat /\ DOMAIN c.chal = 1 .. Len(c.chal)
      /\ \A col \in 1 .. Len(c.chal) : c.chal[col] \in 0 .. 255
  BY SMTT(40), <1>2, SeqIs
<1>5. Len(c.perm) \in Nat /\ DOMAIN c.perm = 1 .. Len(c.perm)
  BY <1>2, SeqIs
<1>6. Len(c.lookups) \in Nat /\ DOMAIN c.lookups = 1 .. Len(c.lookups)
  BY <1>2, SeqIs DEF ArgumentLists
<1>7. Len(c.shuffles) \in Nat /\ DOMAIN c.shuffles = 1 .. Len(c.shuffles)
  BY <1>2, SeqIs DEF ArgumentLists
<1>8. \A x \in 0 .. 255 : x \in Nat
  OBVIOUS
<1> QED BY ZenonT(60), <1>3, <1>4, <1>5, <1>6, <1>7, <1>8

-----------------------------------------------------------------------------
(***************************************************************************)
(* What is written and what is read: elements and slots.                   *)
(***************************************************************************)
Received(e) == e.kind \in {"point", "scalar"}

(* e stands where the slot s is read: a point or scalar meant for s, or, of *)
(* what is not sent, the same.                                             *)
MeantFor(e, s) == IF Received(s) THEN e.kind = s.kind /\ Meant(s, e) ELSE e = s

Fits(t, s) ==
  /\ List(t) /\ List(s) /\ Len(t) = Len(s)
  /\ \A k \in 1 .. Len(s) : MeantFor(t[k], s[k])

LEMMA FitsConcat ==
  ASSUME NEW t, NEW s, NEW u, NEW r, Fits(t, s), Fits(u, r) PROVE Fits(t \o u, s \o r)
<1>1. PICK a, b : a = t \o u /\ b = s \o r
  OBVIOUS
<1>2. PICK m, n : m = Len(t) /\ n = Len(u)
  OBVIOUS
<1>3. List(t) /\ List(s) /\ List(u) /\ List(r) /\ Len(s) = m /\ Len(r) = n
  BY <1>2 DEF Fits
<1>4. Join(a, t, m, u, n)
  BY <1>1, <1>2, <1>3, Joins
<1>5. Join(b, s, m, r, n)
  BY <1>1, <1>3, Joins
<1>6. m \in Nat /\ n \in Nat /\ List(a) /\ List(b) /\ Len(a) = m + n /\ Len(b) = m + n
  BY <1>4, <1>5 DEF Join
<1>7. ASSUME NEW k \in 1 .. m + n PROVE MeantFor(a[k], b[k])
  <2>1. CASE k \in 1 .. m
    <3>1. a[k] = t[k] /\ b[k] = s[k]
      BY <1>4, <1>5, <2>1 DEF Join
    <3> QED BY <1>3, <2>1, <3>1 DEF Fits
  <2>2. CASE k \notin 1 .. m
    <3>1. PICK j : j = k - m
      OBVIOUS
    <3>2. j \in 1 .. n /\ k = m + j
      BY <1>6, <2>2, <3>1
    <3>3. a[k] = u[j] /\ b[k] = r[j]
      BY <1>4, <1>5, <3>2 DEF Join
    <3> QED BY <1>3, <3>2, <3>3 DEF Fits
  <2> QED BY <2>1, <2>2
<1> QED BY <1>1, <1>6, <1>7 DEF Fits

LEMMA FitsParts ==
  ASSUME NEW a, NEW b, NEW s, NEW r, List(a), List(b), List(s), List(r), Len(a) = Len(s),
         Fits(a \o b, s \o r)
  PROVE  Fits(a, s) /\ Fits(b, r)
<1>1. PICK t, u : t = a \o b /\ u = s \o r
  OBVIOUS
<1>2. PICK m, n, l : m = Len(a) /\ n = Len(b) /\ l = Len(r)
  OBVIOUS
<1>3. Join(t, a, m, b, n)
  BY <1>1, <1>2, Joins
<1>4. Join(u, s, m, r, l)
  BY <1>1, <1>2, Joins
<1>5. m \in Nat /\ n \in Nat /\ l \in Nat /\ Len(t) = m + n /\ Len(u) = m + l
  BY <1>3, <1>4 DEF Join
<1>6. Len(t) = Len(u) /\ \A k \in 1 .. Len(u) : MeantFor(t[k], u[k])
  BY <1>1 DEF Fits
<1>7. n = l
  BY <1>5, <1>6
<1>8. ASSUME NEW k \in 1 .. m PROVE MeantFor(a[k], s[k])
  <2>1. k \in 1 .. Len(u)
    BY <1>5
  <2>2. t[k] = a[k] /\ u[k] = s[k]
    BY <1>3, <1>4 DEF Join
  <2> QED BY <1>6, <2>1, <2>2
<1>9. ASSUME NEW k \in 1 .. n PROVE MeantFor(b[k], r[k])
  <2>1. m + k \in 1 .. Len(u)
    BY <1>5, <1>7
  <2>2. t[m + k] = b[k] /\ u[m + k] = r[k]
    BY <1>3, <1>4, <1>7 DEF Join
  <2> QED BY <1>6, <2>1, <2>2
<1> QED BY <1>2, <1>7, <1>8, <1>9 DEF Fits

(* What fits a script in two parts is in two parts. *)
FitsInParts(t, s, r) == \E a, b : t = a \o b /\ Fits(a, s) /\ Fits(b, r)

LEMMA FitsSplit ==
  ASSUME NEW t, NEW s, NEW r, List(s), List(r), Fits(t, s \o r)
  PROVE  FitsInParts(t, s, r)
<1>1. PICK m, l, u : m = Len(s) /\ l = Len(r) /\ u = s \o r
  OBVIOUS
<1>2. Join(u, s, m, r, l)
  BY <1>1, Joins
<1>3. List(t) /\ Len(t) = m + l /\ m \in Nat /\ l \in Nat
  BY <1>1, <1>2 DEF Join, Fits
<1>4. m \in 0 .. Len(t)
  BY <1>3
<1>5. PICK a, b : a = Upto(t, m) /\ b = Beyond(t, m)
  OBVIOUS
<1>6. t = a \o b /\ List(a) /\ List(b) /\ Len(a) = m
  BY <1>3, <1>4, <1>5, SplitAt
<1>7. Fits(a, s) /\ Fits(b, r)
  BY <1>1, <1>6, FitsParts
<1> QED BY <1>6, <1>7 DEF FitsInParts

LEMMA FitsFlatten ==
  ASSUME NEW n, n \in Nat, NEW fs, NEW gs, fs = [k \in 1 .. n |-> fs[k]], gs = [k \in 1 .. n |-> gs[k]],
         \A k \in 1 .. n : Fits(fs[k], gs[k])
  PROVE  Fits(FlattenSeq(fs), FlattenSeq(gs))
<1>1. PICK t, u : t = FlattenSeq(fs) /\ u = FlattenSeq(gs)
  OBVIOUS
<1>2. \A k \in 1 .. n : List(fs[k]) /\ List(gs[k]) /\ Len(fs[k]) = Len(gs[k])
  BY DEF Fits
<1>3. Aligned(fs, gs, n, t, u)
  BY <1>1, <1>2, FlattenAligned
<1>4. ASSUME NEW x \in 1 .. Len(u) PROVE MeantFor(t[x], u[x])
  <2>1. x \in 1 .. Len(t)
    BY <1>3 DEF Aligned
  <2>2. PICK k \in 1 .. n : \E j \in 1 .. Len(fs[k]) : t[x] = fs[k][j] /\ u[x] = gs[k][j]
    BY <1>3, <2>1 DEF Aligned
  <2> QED BY <1>2, <2>2 DEF Fits
<1> QED BY <1>1, <1>3, <1>4 DEF Aligned, Fits

-----------------------------------------------------------------------------
(***************************************************************************)
(* Items that are written after the phases: none of them is a challenge of *)
(* a phase.                                                                *)
(***************************************************************************)
Plain(s) == List(s) /\ \A k \in 1 .. Len(s) : s[k].of # "challenge"

LEMMA PlainConcat ==
  ASSUME NEW f, NEW g, Plain(f), Plain(g) PROVE Plain(f \o g)
<1>1. PICK h : h = f \o g
  OBVIOUS
<1>2. List(h)
  BY <1>1, ListConcat DEF Plain
<1>3. ASSUME NEW k \in 1 .. Len(h) PROVE h[k].of # "challenge"
  BY <1>1, ConcatPlace DEF Plain
<1> QED BY <1>1, <1>2, <1>3 DEF Plain

LEMMA PlainOf ==
  ASSUME NEW n, n \in Nat, NEW f, f = [k \in 1 .. n |-> f[k]],
         \A k \in 1 .. n : f[k].of # "challenge"
  PROVE  Plain(f)
BY ListOf DEF Plain

LEMMA PlainFlatten ==
  ASSUME NEW n, n \in Nat, NEW fs, fs = [k \in 1 .. n |-> fs[k]],
         \A k \in 1 .. n : Plain(fs[k])
  PROVE  Plain(FlattenSeq(fs))
<1>1. \A k \in 1 .. n : List(fs[k])
  BY DEF Plain
<1>2. PICK t : t = FlattenSeq(fs)
  OBVIOUS
<1>3. Gathers(fs, n, t)
  BY <1>1, <1>2, FlattenOf
<1>4. ASSUME NEW x \in 1 .. Len(t) PROVE t[x].of # "challenge"
  <2>1. PICK k \in 1 .. n : \E j \in 1 .. Len(fs[k]) : t[x] = fs[k][j]
    BY <1>3 DEF Gathers
  <2> QED BY <2>1 DEF Plain
<1> QED BY <1>2, <1>3, <1>4 DEF Gathers, Plain

(* Every item of it is what the other party has a slot for, and is no       *)
(* column's: it has no version.                                            *)
Quiet(e) ==
  /\ e.of \notin {"challenge", "advice"} /\ e.kind # "prefix" /\ MeantFor(e, e)
  /\ e = Element(e.kind, e.of, e.i, e.j, e.r, 0)

Clean(s) == List(s) /\ \A k \in 1 .. Len(s) : Quiet(s[k])

LEMMA CleanPlain == \A s : Clean(s) => Plain(s)
BY DEF Clean, Quiet, Plain

LEMMA CleanFits == ASSUME NEW s, Clean(s) PROVE Fits(s, s)
BY DEF Clean, Quiet, Fits

LEMMA CleanConcat ==
  ASSUME NEW f, NEW g, Clean(f), Clean(g) PROVE Clean(f \o g)
<1>1. PICK h : h = f \o g
  OBVIOUS
<1>2. List(h)
  BY <1>1, ListConcat DEF Clean
<1>3. ASSUME NEW k \in 1 .. Len(h) PROVE Quiet(h[k])
  BY <1>1, ConcatPlace DEF Clean
<1> QED BY <1>1, <1>2, <1>3 DEF Clean

LEMMA CleanOf ==
  ASSUME NEW n, n \in Nat, NEW f, f = [k \in 1 .. n |-> f[k]],
         \A k \in 1 .. n : Quiet(f[k])
  PROVE  Clean(f)
BY ListOf DEF Clean

LEMMA CleanOne == ASSUME NEW e, Quiet(e) PROVE Clean(<<e>>)
BY OneItem DEF Clean

LEMMA CleanNone == Clean(<< >>)
BY NoItems DEF Clean

LEMMA CleanTwo == ASSUME NEW d, NEW e, Quiet(d), Quiet(e) PROVE Clean(<<d, e>>)
<1>1. <<d, e>> = [k \in 1 .. 2 |-> <<d, e>>[k]]
  OBVIOUS
<1>2. \A k \in 1 .. 2 : Quiet(<<d, e>>[k])
  OBVIOUS
<1> QED BY <1>1, <1>2, CleanOf

LEMMA CleanFlatten ==
  ASSUME NEW n, n \in Nat, NEW fs, fs = [k \in 1 .. n |-> fs[k]],
         \A k \in 1 .. n : Clean(fs[k])
  PROVE  Clean(FlattenSeq(fs))
<1>1. \A k \in 1 .. n : List(fs[k])
  BY DEF Clean
<1>2. PICK t : t = FlattenSeq(fs)
  OBVIOUS
<1>3. Gathers(fs, n, t)
  BY <1>1, <1>2, FlattenOf
<1>4. ASSUME NEW x \in 1 .. Len(t) PROVE Quiet(t[x])
  <2>1. PICK k \in 1 .. n : \E j \in 1 .. Len(fs[k]) : t[x] = fs[k][j]
    BY <1>3 DEF Gathers
  <2> QED BY <2>1 DEF Clean
<1> QED BY <1>2, <1>3, <1>4 DEF Gathers, Clean

LEMMA Fields ==
  /\ \A of, i, j : Pt(of, i, j).of = of /\ (of \notin {"challenge", "advice"} => Quiet(Pt(of, i, j)))
  /\ \A of, i, j, r : Sc(of, i, j, r).of = of /\ (of \notin {"challenge", "advice"} => Quiet(Sc(of, i, j, r)))
  /\ \A of, j : Sq(of, j).of = of /\ Sq(of, j).j = j /\ (of \notin {"challenge", "advice"} => Quiet(Sq(of, j)))
<1>1. ASSUME NEW of, NEW i, NEW j, of \notin {"challenge", "advice"} PROVE Quiet(Pt(of, i, j))
  <2>1. PICK e : e = Pt(of, i, j)
    OBVIOUS
  <2>2. [e EXCEPT !.v = 0] = e
    BY <2>1 DEF Pt, Element
  <2>3. e = Element(e.kind, e.of, e.i, e.j, e.r, 0) /\ e.kind = "point" /\ e.of = of
    BY <2>1 DEF Pt, Element
  <2> QED BY <1>1, <2>1, <2>2, <2>3 DEF Quiet, MeantFor, Meant
<1>2. ASSUME NEW of, NEW i, NEW j, NEW r, of \notin {"challenge", "advice"} PROVE Quiet(Sc(of, i, j, r))
  <2>1. PICK e : e = Sc(of, i, j, r)
    OBVIOUS
  <2>2. [e EXCEPT !.v = 0] = e
    BY <2>1 DEF Sc, Element
  <2>3. e = Element(e.kind, e.of, e.i, e.j, e.r, 0) /\ e.kind = "scalar" /\ e.of = of
    BY <2>1 DEF Sc, Element
  <2> QED BY <1>2, <2>1, <2>2, <2>3 DEF Quiet, MeantFor, Meant
<1>3. ASSUME NEW of, NEW j, of \notin {"challenge", "advice"} PROVE Quiet(Sq(of, j))
  <2>1. PICK e : e = Sq(of, j)
    OBVIOUS
  <2>2. e = Element(e.kind, e.of, e.i, e.j, e.r, 0) /\ e.kind = "squeeze" /\ e.of = of
    BY <2>1 DEF Sq, Element
  <2> QED BY <1>3, <2>1, <2>2 DEF Quiet, MeantFor, Received
<1>4. /\ \A of, i, j : Pt(of, i, j).of = of
      /\ \A of, i, j, r : Sc(of, i, j, r).of = of
      /\ \A of, j : Sq(of, j).of = of /\ Sq(of, j).j = j
  BY DEF Pt, Sc, Sq, Element
<1> QED BY <1>1, <1>2, <1>3, <1>4

(* What is written circuit by circuit, or argument by argument. *)
LEMMA CleanPerCircuit ==
  ASSUME input \in Inputs, NEW fs, fs = [i \in Proofs |-> fs[i]], \A i \in Proofs : Clean(fs[i])
  PROVE  Clean(FlattenSeq(fs))
<1>1. PICK n : n \in Nat /\ Proofs = 1 .. n
  BY TheCircuit
<1> QED BY <1>1, CleanFlatten

LEMMA PairClean ==
  /\ \A i, l : Clean(LookupCommitPermuted(i, l))
  /\ \A i, s : Clean(ShuffleEvaluate(i, s))
<1>1. ASSUME NEW i, NEW l PROVE Clean(LookupCommitPermuted(i, l))
  <2>1. PICK d, e : d = Pt("lookup input", i, l) /\ e = Pt("lookup table", i, l)
    OBVIOUS
  <2>2. Quiet(d) /\ Quiet(e)
    BY <2>1, Fields
  <2> QED BY <2>1, <2>2, CleanTwo DEF LookupCommitPermuted
<1>2. ASSUME NEW i, NEW s PROVE Clean(ShuffleEvaluate(i, s))
  <2>1. PICK d, e : d = Sc("shuffle", i, s, 0) /\ e = Sc("shuffle", i, s, 1)
    OBVIOUS
  <2>2. Quiet(d) /\ Quiet(e)
    BY <2>1, Fields
  <2> QED BY <2>1, <2>2, CleanTwo DEF ShuffleEvaluate
<1> QED BY <1>1, <1>2

LEMMA CommitsClean ==
  ASSUME input \in Inputs
  PROVE  /\ Clean(ForEachCircuit(LAMBDA i : ForEach(DOMAIN c.lookups, LAMBDA l : LookupCommitPermuted(i, l))))
         /\ Clean(ForEachCircuit(PermutationCommit))
         /\ Clean(ForEachCircuit(LAMBDA i : [l \in DOMAIN c.lookups |-> LookupCommitProduct(i, l)]))
         /\ Clean(ForEachCircuit(LAMBDA i : [s \in DOMAIN c.shuffles |-> ShuffleCommitProduct(i, s)]))
<1>1. PICK m : m \in Nat /\ DOMAIN c.lookups = 1 .. m
  BY TheLists
<1>2. PICK q : q \in Nat /\ DOMAIN c.shuffles = 1 .. q
  BY TheLists
<1>3. vk.sets \in Nat
  BY TheKey
<1>4. ASSUME NEW i PROVE Clean(FlattenSeq([l \in DOMAIN c.lookups |-> LookupCommitPermuted(i, l)]))
  <2>1. \A l : Clean(LookupCommitPermuted(i, l))
    BY PairClean
  <2> QED BY <1>1, <2>1, CleanFlatten
<1>5. ASSUME NEW i PROVE Clean(PermutationCommit(i))
  BY <1>3, CleanOf, Fields DEF PermutationCommit
<1>6. ASSUME NEW i PROVE Clean([l \in DOMAIN c.lookups |-> LookupCommitProduct(i, l)])
  <2> DEFINE f == [l \in DOMAIN c.lookups |-> LookupCommitProduct(i, l)]
  <2>1. f = [l \in 1 .. m |-> f[l]]
    BY <1>1
  <2>2. \A l \in 1 .. m : Quiet(f[l])
    BY <1>1, Fields DEF LookupCommitProduct
  <2> HIDE DEF f
  <2>3. Clean(f)
    BY <1>1, <2>1, <2>2, CleanOf
  <2> QED BY <2>3 DEF f
<1>7. ASSUME NEW i PROVE Clean([s \in DOMAIN c.shuffles |-> ShuffleCommitProduct(i, s)])
  <2> DEFINE f == [s \in DOMAIN c.shuffles |-> ShuffleCommitProduct(i, s)]
  <2>1. f = [s \in 1 .. q |-> f[s]]
    BY <1>2
  <2>2. \A s \in 1 .. q : Quiet(f[s])
    BY <1>2, Fields DEF ShuffleCommitProduct
  <2> HIDE DEF f
  <2>3. Clean(f)
    BY <1>2, <2>1, <2>2, CleanOf
  <2> QED BY <2>3 DEF f
<1> HIDE DEF Proofs, c
<1>8. Clean(ForEachCircuit(LAMBDA i : ForEach(DOMAIN c.lookups, LAMBDA l : LookupCommitPermuted(i, l))))
  <2> DEFINE f == [i \in Proofs |-> FlattenSeq([l \in DOMAIN c.lookups |-> LookupCommitPermuted(i, l)])]
  <2>1. f = [i \in Proofs |-> f[i]] /\ \A i \in Proofs : Clean(f[i])
    BY <1>4
  <2>2. ForEachCircuit(LAMBDA i : ForEach(DOMAIN c.lookups, LAMBDA l : LookupCommitPermuted(i, l)))
          = FlattenSeq(f)
    BY DEF ForEachCircuit, ForEach
  <2> HIDE DEF f
  <2> QED BY <2>1, <2>2, CleanPerCircuit
<1>9. Clean(ForEachCircuit(PermutationCommit))
  BY <1>5, CleanPerCircuit DEF ForEachCircuit, ForEach
<1>10. Clean(ForEachCircuit(LAMBDA i : [l \in DOMAIN c.lookups |-> LookupCommitProduct(i, l)]))
  BY <1>6, CleanPerCircuit DEF ForEachCircuit, ForEach
<1>11. Clean(ForEachCircuit(LAMBDA i : [s \in DOMAIN c.shuffles |-> ShuffleCommitProduct(i, s)]))
  BY <1>7, CleanPerCircuit DEF ForEachCircuit, ForEach
<1> QED BY <1>8, <1>9, <1>10, <1>11

LEMMA FiveClean ==
  ASSUME NEW v, NEW w, NEW x, NEW y, NEW z, Quiet(v), Quiet(w),
         Quiet(x), Quiet(y), Quiet(z)
  PROVE  Clean(<<v, w, x, y, z>>)
<1>1. <<v, w, x, y, z>> = [k \in 1 .. 5 |-> <<v, w, x, y, z>>[k]]
  OBVIOUS
<1>2. \A k \in 1 .. 5 : Quiet(<<v, w, x, y, z>>[k])
  OBVIOUS
<1> QED BY <1>1, <1>2, CleanOf

LEMMA VanishingClean ==
  ASSUME input \in Inputs
  PROVE  Clean(VanishingCommit) /\ Clean(VanishingConstruct) /\ Clean(VanishingEvaluate)
<1>1. Clean(VanishingCommit)
  BY CleanOne, Fields DEF VanishingCommit
<1>2. Clean(VanishingEvaluate)
  BY CleanOne, Fields DEF VanishingEvaluate
<1>3. Clean(VanishingConstruct)
  <2>1. vk.pieces \in Nat
    BY TheKey
  <2> QED BY <2>1, CleanOf, Fields DEF VanishingConstruct
<1> QED BY <1>1, <1>2, <1>3

(* The value of a column, of whatever version, is meant for its slot. *)
LEMMA Versions ==
  /\ \A of, i, j, v : MeantFor(Element("point", of, i, j, 0, v), Pt(of, i, j))
  /\ \A of, i, j, r, v : MeantFor(Element("scalar", of, i, j, r, v), Sc(of, i, j, r))
<1>1. ASSUME NEW of, NEW i, NEW j, NEW v PROVE MeantFor(Element("point", of, i, j, 0, v), Pt(of, i, j))
  <2>1. [Element("point", of, i, j, 0, v) EXCEPT !.v = 0] = Pt(of, i, j)
    BY DEF Pt, Element
  <2> QED BY <2>1 DEF MeantFor, Received, Meant, Pt, Element
<1>2. ASSUME NEW of, NEW i, NEW j, NEW r, NEW v
      PROVE  MeantFor(Element("scalar", of, i, j, r, v), Sc(of, i, j, r))
  <2>1. [Element("scalar", of, i, j, r, v) EXCEPT !.v = 0] = Sc(of, i, j, r)
    BY DEF Sc, Element
  <2> QED BY <2>1 DEF MeantFor, Received, Meant, Sc, Element
<1> QED BY <1>1, <1>2

AdviceEvals ==
  ForEachCircuit(LAMBDA i : LET qs == vk.queries["advice"] IN
    [k \in DOMAIN qs |-> Sc("advice", i, qs[k][2], Point(qs[k][3]))])

LEMMA ColumnEvalsFit ==
  ASSUME input \in Inputs,
         NEW written, written = ForEachCircuit(LAMBDA i : LET qs == vk.queries["advice"] IN
                [k \in DOMAIN qs |->
                   Element("scalar", "advice", i, qs[k][2], Point(qs[k][3]), advices[i][qs[k][2]])])
  PROVE  /\ Plain(written) /\ Fits(written, AdviceEvals)
         /\ Clean(LET qs == vk.queries["fixed"] IN
                    [k \in DOMAIN qs |-> Sc("fixed", 0, qs[k][2], Point(qs[k][3]))]
                      \o VanishingEvaluate \o SigmaEvaluate)
<1> DEFINE qs == vk.queries["advice"]
           fx == vk.queries["fixed"]
<1>2. PICK m : m \in Nat /\ DOMAIN qs = 1 .. m
  BY TheKey, ListDomain
<1>4. PICK n : n \in Nat /\ DOMAIN fx = 1 .. n
  BY TheKey, ListDomain
<1> HIDE DEF qs, fx
<1> DEFINE f(i) == [k \in DOMAIN qs |->
                      Element("scalar", "advice", i, qs[k][2], Point(qs[k][3]), advices[i][qs[k][2]])]
           g(i) == [k \in DOMAIN qs |-> Sc("advice", i, qs[k][2], Point(qs[k][3]))]
<1>5. ASSUME NEW i PROVE Plain(f(i)) /\ Fits(f(i), g(i))
  <2>1. PICK u, v : u = f(i) /\ v = g(i)
    OBVIOUS
  <2>2. u = [k \in 1 .. m |-> u[k]] /\ \A k \in 1 .. m : u[k].of # "challenge"
    BY <1>2, <2>1 DEF Element
  <2>3. v = [k \in 1 .. m |-> v[k]]
    BY <1>2, <2>1
  <2>4. \A k \in 1 .. m : MeantFor(u[k], v[k])
    BY <1>2, <2>1, Versions
  <2>5. Plain(u)
    BY <1>2, <2>2, PlainOf
  <2>6. List(u) /\ Len(u) = m /\ List(v) /\ Len(v) = m
    BY <1>2, <2>2, <2>3, ListOf
  <2>7. Fits(u, v)
    BY <2>4, <2>6 DEF Fits
  <2> QED BY <2>1, <2>5, <2>7
<1>6. Clean([k \in DOMAIN fx |-> Sc("fixed", 0, fx[k][2], Point(fx[k][3]))])
  <2> DEFINE ev == [k \in DOMAIN fx |-> Sc("fixed", 0, fx[k][2], Point(fx[k][3]))]
  <2>1. ev = [k \in 1 .. n |-> ev[k]]
    BY <1>4
  <2>2. \A k \in 1 .. n : Quiet(ev[k])
    BY <1>4, Fields
  <2> HIDE DEF ev
  <2>3. Clean(ev)
    BY <1>4, <2>1, <2>2, CleanOf
  <2> QED BY <2>3 DEF ev
<1>7. Clean(SigmaEvaluate)
  <2>1. PICK p : p \in Nat /\ DOMAIN c.perm = 1 .. p
    BY TheLists
  <2> DEFINE ev == [k \in DOMAIN c.perm |-> Sc("sigma", 0, k, 0)]
  <2>2. ev = [k \in 1 .. p |-> ev[k]] /\ \A k \in 1 .. p : Quiet(ev[k])
    BY <2>1, Fields
  <2> HIDE DEF ev
  <2>3. Clean(ev)
    BY <2>1, <2>2, CleanOf
  <2> QED BY <2>3 DEF ev, SigmaEvaluate
<1>8. Plain(written) /\ Fits(written, AdviceEvals)
  <2>1. PICK p : p \in Nat /\ Proofs = 1 .. p
    BY TheCircuit
  <2>2. PICK fs, gs : fs = [i \in Proofs |-> f(i)] /\ gs = [i \in Proofs |-> g(i)]
    OBVIOUS
  <2>3. written = FlattenSeq(fs) /\ AdviceEvals = FlattenSeq(gs)
    BY <2>2 DEF AdviceEvals, ForEachCircuit, ForEach, qs
  <2> HIDE DEF f, g
  <2>4. \A i \in 1 .. p : Plain(fs[i]) /\ Fits(fs[i], gs[i])
    BY <1>5, <2>1, <2>2
  <2>5. fs = [i \in 1 .. p |-> fs[i]] /\ gs = [i \in 1 .. p |-> gs[i]]
    BY <2>1, <2>2
  <2>6. Plain(FlattenSeq(fs))
    BY <2>1, <2>4, <2>5, PlainFlatten
  <2>7. Fits(FlattenSeq(fs), FlattenSeq(gs))
    BY <2>1, <2>4, <2>5, FitsFlatten
  <2> QED BY <2>3, <2>6, <2>7
<1>9. PICK w : w = [k \in DOMAIN fx |-> Sc("fixed", 0, fx[k][2], Point(fx[k][3]))]
  OBVIOUS
<1>10. Clean(w \o VanishingEvaluate)
  BY <1>6, <1>9, CleanConcat, VanishingClean
<1>11. Clean((w \o VanishingEvaluate) \o SigmaEvaluate)
  BY <1>7, <1>10, CleanConcat
<1>12. w \o VanishingEvaluate \o SigmaEvaluate = (w \o VanishingEvaluate) \o SigmaEvaluate
  OBVIOUS
<1>13. Clean([k \in DOMAIN fx |-> Sc("fixed", 0, fx[k][2], Point(fx[k][3]))]
               \o VanishingEvaluate \o SigmaEvaluate)
  BY <1>9, <1>11, <1>12
<1> QED BY <1>8, <1>13 DEF qs, fx

LEMMA ArgumentEvalsClean ==
  ASSUME input \in Inputs
  PROVE  /\ Clean(ForEachCircuit(PermutationEvaluate))
         /\ Clean(ForEachCircuit(LAMBDA i : ForEach(DOMAIN c.lookups, LAMBDA l : LookupEvaluate(i, l))))
         /\ Clean(ForEachCircuit(LAMBDA i : ForEach(DOMAIN c.shuffles, LAMBDA s : ShuffleEvaluate(i, s))))
<1>1. PICK m : m \in Nat /\ DOMAIN c.lookups = 1 .. m
  BY TheLists
<1>2. PICK q : q \in Nat /\ DOMAIN c.shuffles = 1 .. q
  BY TheLists
<1>3. vk.sets \in Nat
  BY TheKey
<1>4. ASSUME NEW i PROVE Clean(PermutationEvaluate(i))
  <2> DEFINE h(s) == <<Sc("permutation", i, s, 0), Sc("permutation", i, s, 1)>>
             t(s) == IF s < vk.sets THEN <<Sc("permutation", i, s, LastRow)>> ELSE << >>
             f == [s \in 1 .. vk.sets |-> h(s) \o t(s)]
  <2>1. \A s : Clean(h(s))
    <3> SUFFICES ASSUME NEW s PROVE Clean(h(s))
      OBVIOUS
    <3>1. PICK d, e : d = Sc("permutation", i, s, 0) /\ e = Sc("permutation", i, s, 1)
      OBVIOUS
    <3> QED BY <3>1, CleanTwo, Fields
  <2>2. \A s : Clean(t(s))
    <3> SUFFICES ASSUME NEW s PROVE Clean(t(s))
      OBVIOUS
    <3>1. PICK e : e = Sc("permutation", i, s, LastRow)
      OBVIOUS
    <3>2. Clean(<<e>>)
      BY <3>1, CleanOne, Fields
    <3> QED BY <3>1, <3>2, CleanNone
  <2>3. PermutationEvaluate(i) = FlattenSeq(f)
    BY DEF PermutationEvaluate, ForEach
  <2> HIDE DEF h, t
  <2>4. \A s \in 1 .. vk.sets : Clean(f[s])
    BY <2>1, <2>2, CleanConcat
  <2>5. f = [s \in 1 .. vk.sets |-> f[s]]
    OBVIOUS
  <2> HIDE DEF f
  <2> QED BY <1>3, <2>3, <2>4, <2>5, CleanFlatten
<1>5. ASSUME NEW i PROVE Clean(FlattenSeq([l \in DOMAIN c.lookups |-> LookupEvaluate(i, l)]))
  <2>1. ASSUME NEW l PROVE Clean(LookupEvaluate(i, l))
    <3>1. PICK v, w, x, y, z :
            /\ v = Sc("lookup product", i, l, 0) /\ w = Sc("lookup product", i, l, 1)
            /\ x = Sc("lookup input", i, l, 0) /\ y = Sc("lookup input", i, l, Point(-1))
            /\ z = Sc("lookup table", i, l, 0)
      OBVIOUS
    <3>2. /\ Quiet(v) /\ Quiet(w) /\ Quiet(x)
          /\ Quiet(y) /\ Quiet(z)
      BY <3>1, Fields
    <3>3. LookupEvaluate(i, l) = <<v, w, x, y, z>>
      BY <3>1 DEF LookupEvaluate
    <3> QED BY <3>2, <3>3, FiveClean
  <2> QED BY <1>1, <2>1, CleanFlatten
<1>6. ASSUME NEW i PROVE Clean(FlattenSeq([s \in DOMAIN c.shuffles |-> ShuffleEvaluate(i, s)]))
  <2>1. \A s : Clean(ShuffleEvaluate(i, s))
    BY PairClean
  <2> QED BY <1>2, <2>1, CleanFlatten
<1> HIDE DEF Proofs, c
<1>7. Clean(ForEachCircuit(PermutationEvaluate))
  BY <1>4, CleanPerCircuit DEF ForEachCircuit, ForEach
<1>8. Clean(ForEachCircuit(LAMBDA i : ForEach(DOMAIN c.lookups, LAMBDA l : LookupEvaluate(i, l))))
  <2> DEFINE f == [i \in Proofs |-> FlattenSeq([l \in DOMAIN c.lookups |-> LookupEvaluate(i, l)])]
  <2>1. f = [i \in Proofs |-> f[i]] /\ \A i \in Proofs : Clean(f[i])
    BY <1>5
  <2>2. ForEachCircuit(LAMBDA i : ForEach(DOMAIN c.lookups, LAMBDA l : LookupEvaluate(i, l))) = FlattenSeq(f)
    BY DEF ForEachCircuit, ForEach
  <2> HIDE DEF f
  <2> QED BY <2>1, <2>2, CleanPerCircuit
<1>9. Clean(ForEachCircuit(LAMBDA i : ForEach(DOMAIN c.shuffles, LAMBDA s : ShuffleEvaluate(i, s))))
  <2> DEFINE f == [i \in Proofs |-> FlattenSeq([s \in DOMAIN c.shuffles |-> ShuffleEvaluate(i, s)])]
  <2>1. f = [i \in Proofs |-> f[i]] /\ \A i \in Proofs : Clean(f[i])
    BY <1>6
  <2>2. ForEachCircuit(LAMBDA i : ForEach(DOMAIN c.shuffles, LAMBDA s : ShuffleEvaluate(i, s))) = FlattenSeq(f)
    BY DEF ForEachCircuit, ForEach
  <2> HIDE DEF f
  <2> QED BY <2>1, <2>2, CleanPerCircuit
<1> QED BY <1>7, <1>8, <1>9

-----------------------------------------------------------------------------
(***************************************************************************)
(* The queries and the claims are lists: so many points, so many openings. *)
(***************************************************************************)
LEMMA ListPerCircuit ==
  ASSUME input \in Inputs, NEW fs, fs = [i \in Proofs |-> fs[i]], \A i \in Proofs : List(fs[i])
  PROVE  List(FlattenSeq(fs))
<1>1. PICK n : n \in Nat /\ Proofs = 1 .. n
  BY TheCircuit
<1> QED BY <1>1, ListFlatten

LEMMA AllButLastIs == ASSUME input \in Inputs PROVE \E m \in Nat : AllButLast = 1 .. m
<1>1. PICK s \in Nat : s = vk.sets
  BY TheKey
<1>2. CASE s = 0
  <2>1. AllButLast = 1 .. 0
    BY <1>1, <1>2 DEF AllButLast
  <2> QED BY <2>1
<1>3. CASE s # 0
  <2>1. AllButLast = 1 .. s - 1 /\ s - 1 \in Nat
    BY <1>1, <1>3 DEF AllButLast
  <2> QED BY <2>1
<1> QED BY <1>2, <1>3

(* Four lists per circuit, then three lists. *)
LEMMA QueriesAreLists ==
  ASSUME input \in Inputs, NEW a, NEW p, NEW l, NEW s, NEW f, NEW g, NEW v,
         \A i \in Proofs : List(a[i]), \A i \in Proofs : List(p[i]),
         \A i \in Proofs : List(l[i]), \A i \in Proofs : List(s[i]),
         List(f), List(g), List(v)
  PROVE  List(FlattenSeq([i \in Proofs |-> ((a[i] \o p[i]) \o l[i]) \o s[i]]) \o f \o g \o v)
<1> DEFINE each == [i \in Proofs |-> ((a[i] \o p[i]) \o l[i]) \o s[i]]
<1>1. ASSUME NEW i \in Proofs PROVE List(each[i])
  <2>1. List(a[i] \o p[i])
    BY ListConcat
  <2>2. List((a[i] \o p[i]) \o l[i])
    BY <2>1, ListConcat
  <2>3. List(((a[i] \o p[i]) \o l[i]) \o s[i])
    BY <2>2, ListConcat
  <2> QED BY <2>3
<1>2. each = [i \in Proofs |-> each[i]]
  OBVIOUS
<1> HIDE DEF each
<1>3. PICK t : t = FlattenSeq(each)
  OBVIOUS
<1>4. List(t)
  BY <1>1, <1>2, <1>3, ListPerCircuit
<1>5. List(t \o f)
  BY <1>4, ListConcat
<1>6. List((t \o f) \o g)
  BY <1>5, ListConcat
<1>7. List(((t \o f) \o g) \o v)
  BY <1>6, ListConcat
<1> QED BY <1>3, <1>7 DEF each

LEMMA ProverQueriesList == ASSUME input \in Inputs PROVE List(ProverQueries)
<1> DEFINE qs == vk.queries["advice"]
           fx == vk.queries["fixed"]
           a == [i \in Proofs |-> [k \in DOMAIN qs |-> Query(AdvicePoly(i, qs[k][2]), qs[k][3])]]
           p == [i \in Proofs |-> PermutationOpens(i)]
           l == [i \in Proofs |-> LookupOpens(i)]
           s == [i \in Proofs |-> ShuffleOpens(i)]
           f == [k \in DOMAIN fx |-> Query(Pt("fixed", 0, fx[k][2]), fx[k][3])]
<1>1. PICK n : n \in Nat /\ DOMAIN qs = 1 .. n
  BY TheKey, ListDomain
<1>2. PICK r : r \in Nat /\ DOMAIN fx = 1 .. r
  BY TheKey, ListDomain
<1>3. PICK m : m \in Nat /\ DOMAIN c.lookups = 1 .. m
  BY TheLists
<1>4. PICK q : q \in Nat /\ DOMAIN c.shuffles = 1 .. q
  BY TheLists
<1>5. PICK b \in Nat : AllButLast = 1 .. b
  BY AllButLastIs
<1>6. PICK u : u \in Nat /\ DOMAIN c.perm = 1 .. u
  BY TheLists
<1>7. vk.sets \in Nat
  BY TheKey
<1>8. ProverQueries =
        FlattenSeq([i \in Proofs |-> ((a[i] \o p[i]) \o l[i]) \o s[i]]) \o f \o SigmaOpens \o VanishingOpens
  BY DEF ProverQueries, ForEachCircuit, ForEach
<1> HIDE DEF qs, fx
<1>9. \A i \in Proofs : List(a[i])
  BY <1>1, ListOf
<1>10. ASSUME NEW i \in Proofs PROVE List(p[i])
  <2> DEFINE h == [x \in 1 .. vk.sets |->
                     <<Query(Pt("permutation", i, x), 0), Query(Pt("permutation", i, x), 1)>>]
             t == [k \in AllButLast |-> Query(Pt("permutation", i, vk.sets - k), -(vk.blinding + 1))]
  <2>1. List(FlattenSeq(h))
    BY <1>7, TwoItems, ListFlatten
  <2>2. List(t)
    BY <1>5, ListOf
  <2>3. p[i] = FlattenSeq(h) \o t
    BY DEF PermutationOpens, ForEach
  <2> HIDE DEF h, t, p
  <2> QED BY <2>1, <2>2, <2>3, ListConcat
<1>11. ASSUME NEW i \in Proofs PROVE List(l[i])
  BY <1>3, FiveItems, ListFlatten DEF LookupOpens, ForEach
<1>12. ASSUME NEW i \in Proofs PROVE List(s[i])
  BY <1>4, TwoItems, ListFlatten DEF ShuffleOpens, ForEach
<1>13. List(f)
  BY <1>2, ListOf
<1>14. List(SigmaOpens)
  BY <1>6, ListOf DEF SigmaOpens
<1>15. List(VanishingOpens)
  BY TwoItems DEF VanishingOpens
<1> HIDE DEF a, p, l, s, f
<1> QED BY <1>8, <1>9, <1>10, <1>11, <1>12, <1>13, <1>14, <1>15, QueriesAreLists

LEMMA ClaimsList == ASSUME input \in Inputs PROVE List(Claims)
<1> DEFINE qs == vk.queries["advice"]
           fx == vk.queries["fixed"]
           a == [i \in Proofs |-> [k \in DOMAIN qs |-> ReadClaim(Pt("advice", i, qs[k][2]), qs[k][3])]]
           p == [i \in Proofs |-> PermutationClaims(i)]
           l == [i \in Proofs |-> LookupClaims(i)]
           s == [i \in Proofs |-> ShuffleClaims(i)]
           f == [k \in DOMAIN fx |-> KeyClaim(Pt("fixed", 0, fx[k][2]), fx[k][3])]
<1>1. PICK n : n \in Nat /\ DOMAIN qs = 1 .. n
  BY TheKey, ListDomain
<1>2. PICK r : r \in Nat /\ DOMAIN fx = 1 .. r
  BY TheKey, ListDomain
<1>3. PICK m : m \in Nat /\ DOMAIN c.lookups = 1 .. m
  BY TheLists
<1>4. PICK q : q \in Nat /\ DOMAIN c.shuffles = 1 .. q
  BY TheLists
<1>5. PICK b \in Nat : AllButLast = 1 .. b
  BY AllButLastIs
<1>6. PICK u : u \in Nat /\ DOMAIN c.perm = 1 .. u
  BY TheLists
<1>7. vk.sets \in Nat
  BY TheKey
<1>8. Claims =
        FlattenSeq([i \in Proofs |-> ((a[i] \o p[i]) \o l[i]) \o s[i]]) \o f \o SigmaClaims \o VanishingClaims
  BY DEF Claims, ForEachCircuit, ForEach
<1> HIDE DEF qs, fx
<1>9. \A i \in Proofs : List(a[i])
  BY <1>1, ListOf
<1>10. ASSUME NEW i \in Proofs PROVE List(p[i])
  <2> DEFINE h == [x \in 1 .. vk.sets |->
                     <<ReadClaim(Pt("permutation", i, x), 0), ReadClaim(Pt("permutation", i, x), 1)>>]
             t == [k \in AllButLast |-> ReadClaim(Pt("permutation", i, vk.sets - k), -(vk.blinding + 1))]
  <2>1. List(FlattenSeq(h))
    BY <1>7, TwoItems, ListFlatten
  <2>2. List(t)
    BY <1>5, ListOf
  <2>3. p[i] = FlattenSeq(h) \o t
    BY DEF PermutationClaims, ForEach
  <2> HIDE DEF h, t, p
  <2> QED BY <2>1, <2>2, <2>3, ListConcat
<1>11. ASSUME NEW i \in Proofs PROVE List(l[i])
  BY <1>3, FiveItems, ListFlatten DEF LookupClaims, ForEach
<1>12. ASSUME NEW i \in Proofs PROVE List(s[i])
  BY <1>4, TwoItems, ListFlatten DEF ShuffleClaims, ForEach
<1>13. List(f)
  BY <1>2, ListOf
<1>14. List(SigmaClaims)
  BY <1>6, ListOf DEF SigmaClaims
<1>15. List(VanishingClaims)
  BY TwoItems DEF VanishingClaims
<1> HIDE DEF a, p, l, s, f
<1> QED BY <1>8, <1>9, <1>10, <1>11, <1>12, <1>13, <1>14, <1>15, QueriesAreLists

(* The points of a list of queries are finitely many. *)
LEMMA GwcIs ==
  ASSUME NEW queries, List(queries)
  PROVE  \E m \in Nat : ProveGwc(queries) = <<Sq("v", 1)>> \o [k \in 1 .. m |-> Pt("quotient", 0, k)]
<1> DEFINE points == {queries[q].at : q \in DOMAIN queries}
<1>1. PICK m : m = Cardinality(points)
  OBVIOUS
<1>2. m \in Nat
  <2>1. Len(queries) \in Nat /\ DOMAIN queries = 1 .. Len(queries)
    BY ListDomain
  <2>2. IsFiniteSet(1 .. Len(queries))
    BY <2>1, FS_Interval
  <2> DEFINE at == [q \in DOMAIN queries |-> queries[q].at]
  <2>3. at \in Surjection(DOMAIN queries, points)
    BY DEF Surjection
  <2>4. IsFiniteSet(points)
    <3> HIDE DEF points, at
    <3> QED BY <2>1, <2>2, <2>3, FS_Surjection
  <2> HIDE DEF points
  <2> QED BY <1>1, <2>4, FS_CardinalityType
<1>3. ProveGwc(queries) = <<Sq("v", 1)>> \o [k \in 1 .. m |-> Pt("quotient", 0, k)]
  BY <1>1 DEF ProveGwc
<1> HIDE DEF points
<1> QED BY <1>2, <1>3

LEMMA OpeningClean ==
  /\ Clean(ProveShplonk)
  /\ \A queries : List(queries) => Clean(ProveGwc(queries))
<1>1. Clean(ProveShplonk)
  <2>1. PICK v, w, x, y, z : /\ v = Sq("y", 1) /\ w = Sq("v", 1) /\ x = Pt("quotient", 0, 1)
                             /\ y = Sq("u", 1) /\ z = Pt("quotient", 0, 2)
    OBVIOUS
  <2>2. /\ Quiet(v) /\ Quiet(w) /\ Quiet(x)
        /\ Quiet(y) /\ Quiet(z)
    BY <2>1, Fields
  <2>3. ProveShplonk = <<v, w, x, y, z>>
    BY <2>1 DEF ProveShplonk
  <2> QED BY <2>2, <2>3, FiveClean
<1>2. ASSUME NEW queries, List(queries) PROVE Clean(ProveGwc(queries))
  <2>1. PICK m \in Nat : ProveGwc(queries) = <<Sq("v", 1)>> \o [k \in 1 .. m |-> Pt("quotient", 0, k)]
    BY <1>2, GwcIs
  <2>2. Clean([k \in 1 .. m |-> Pt("quotient", 0, k)])
    BY CleanOf, Fields
  <2>3. Clean(<<Sq("v", 1)>>)
    BY CleanOne, Fields
  <2> QED BY <2>1, <2>2, <2>3, CleanConcat
<1> QED BY <1>1, <1>2

-----------------------------------------------------------------------------
(***************************************************************************)
(* What a step adds to a transcript, and what of it is sent.               *)
(***************************************************************************)
(* Everything that is sent is an item, a point or a scalar. *)
LEMMA SentIs ==
  ASSUME NEW items, List(items)
  PROVE  /\ List(Sent(items))
         /\ \A x \in 1 .. Len(Sent(items)) : Sent(items)[x].kind \in {"point", "scalar"}
<1> DEFINE n == Len(items)
           fs == [k \in DOMAIN items |->
                    IF items[k].kind \in {"point", "scalar"} THEN <<items[k]>> ELSE << >>]
<1>1. n \in Nat /\ DOMAIN items = 1 .. n
  BY ListDomain
<1>2. PICK t : t = Sent(items)
  OBVIOUS
<1>3. t = FlattenSeq(fs)
  BY <1>2 DEF Sent
<1>4. fs = [k \in 1 .. n |-> fs[k]]
  BY <1>1
<1>5. ASSUME NEW k \in 1 .. n
      PROVE  List(fs[k]) /\ \A j \in 1 .. Len(fs[k]) : fs[k][j].kind \in {"point", "scalar"}
  <2>1. CASE items[k].kind \in {"point", "scalar"}
    <3>1. fs[k] = <<items[k]>>
      BY <1>1, <2>1
    <3> HIDE DEF fs
    <3>2. List(fs[k]) /\ Len(fs[k]) = 1 /\ fs[k][1] = items[k]
      BY <3>1, OneItem
    <3> QED BY <2>1, <3>2
  <2>2. CASE items[k].kind \notin {"point", "scalar"}
    <3>1. fs[k] = << >>
      BY <1>1, <2>2
    <3> HIDE DEF fs
    <3>2. List(fs[k]) /\ Len(fs[k]) = 0
      BY <3>1, NoItems
    <3> QED BY <3>2
  <2> QED BY <2>1, <2>2
<1> HIDE DEF fs, n
<1>6. Gathers(fs, n, t)
  BY <1>1, <1>3, <1>4, <1>5, FlattenOf
<1>7. ASSUME NEW x \in 1 .. Len(t) PROVE t[x].kind \in {"point", "scalar"}
  <2>1. PICK k \in 1 .. n : \E j \in 1 .. Len(fs[k]) : t[x] = fs[k][j]
    BY <1>6 DEF Gathers
  <2> QED BY <1>5, <2>1
<1> QED BY <1>2, <1>6, <1>7 DEF Gathers

(* An instance value is neither an advice column nor a challenge. *)
Value(e, version) == e.of = "instance" /\ e.kind = "common" /\ e.v = version
Values(s, version) == List(s) /\ \A k \in 1 .. Len(s) : Value(s[k], version)

LEMMA ValuesFlatten ==
  ASSUME NEW version, NEW n, n \in Nat, NEW fs, fs = [k \in 1 .. n |-> fs[k]],
         \A k \in 1 .. n : Values(fs[k], version)
  PROVE  Values(FlattenSeq(fs), version)
<1>1. \A k \in 1 .. n : List(fs[k])
  BY DEF Values
<1>2. PICK t : t = FlattenSeq(fs)
  OBVIOUS
<1>3. Gathers(fs, n, t)
  BY <1>1, <1>2, FlattenOf
<1>4. ASSUME NEW x \in 1 .. Len(t) PROVE Value(t[x], version)
  <2>1. PICK k \in 1 .. n : \E j \in 1 .. Len(fs[k]) : t[x] = fs[k][j]
    BY <1>3 DEF Gathers
  <2> QED BY <2>1 DEF Values
<1> QED BY <1>2, <1>3, <1>4 DEF Gathers, Values

LEMMA InstanceValuesIs == ASSUME input \in Inputs, NEW version PROVE Values(InstanceValues(version), version)
<1> DEFINE col(i, j) == [r \in 1 .. input.instances[i][j] |-> Element("common", "instance", i, j, r, version)]
           part(i) == [j \in DOMAIN input.instances[i] |-> col(i, j)]
           fs == [i \in Proofs |-> FlattenSeq(part(i))]
<1>1. PICK n : n \in Nat /\ Proofs = 1 .. n
  BY TheCircuit
<1>2. ASSUME NEW i \in Proofs PROVE Values(FlattenSeq(part(i)), version)
  <2>1. PICK s : s = input.instances[i]
    OBVIOUS
  <2>2. Len(s) \in Nat /\ DOMAIN s = 1 .. Len(s) /\ \A j \in 1 .. Len(s) : s[j] \in Nat
    BY <2>1, TheCircuit, SeqIs
  <2>3. ASSUME NEW j \in 1 .. Len(s) PROVE Values(col(i, j), version)
    <3>1. s[j] \in Nat
      BY <2>2
    <3>2. \A r \in 1 .. s[j] : Value(col(i, j)[r], version)
      BY <2>1 DEF Element, Value
    <3>3. col(i, j) = [r \in 1 .. s[j] |-> col(i, j)[r]]
      BY <2>1
    <3> HIDE DEF col
    <3> QED BY <3>1, <3>2, <3>3, ListOf DEF Values
  <2>4. PICK f : f = part(i)
    OBVIOUS
  <2>5. f = [j \in 1 .. Len(s) |-> f[j]] /\ \A j \in 1 .. Len(s) : f[j] = col(i, j)
    <3> HIDE DEF col
    <3> QED BY <2>1, <2>2, <2>4
  <2> HIDE DEF col, part
  <2> QED BY <2>2, <2>3, <2>4, <2>5, ValuesFlatten
<1>3. InstanceValues(version) = FlattenSeq(fs)
  BY DEF InstanceValues, ForEachCircuit, ForEach
<1>4. fs = [i \in 1 .. n |-> fs[i]] /\ \A i \in 1 .. n : Values(fs[i], version)
  <2> HIDE DEF part, Proofs
  <2> QED BY <1>1, <1>2
<1> HIDE DEF fs
<1> QED BY <1>1, <1>3, <1>4, ValuesFlatten

Greeting(version) == <<Key>> \o InstanceValues(version)

(* The key, and then values of that version: nothing that is sent. *)
Introduces(e, k, version) == ~Received(e) /\ e.kind = "common" /\ (k # 1 => e.v = version)

LEMMA GreetingItems ==
  ASSUME input \in Inputs, NEW version
  PROVE  /\ List(Greeting(version)) /\ Len(Greeting(version)) = Len(InstanceValues(version)) + 1
         /\ \A k \in 1 .. Len(Greeting(version)) : Introduces(Greeting(version)[k], k, version)
<1>1. PICK h, s, t : h = <<Key>> /\ s = InstanceValues(version) /\ t = h \o s
  OBVIOUS
<1>2. List(h) /\ Len(h) = 1 /\ h[1] = Key
  BY <1>1, OneItem
<1>3. Values(s, version)
  BY <1>1, InstanceValuesIs
<1>4. List(s)
  BY <1>3 DEF Values
<1>5. PICK n : n = Len(s)
  OBVIOUS
<1>6. Join(t, h, 1, s, n)
  BY <1>1, <1>2, <1>4, <1>5, Joins
<1>7. List(t) /\ Len(t) = n + 1 /\ n \in Nat
  BY <1>6 DEF Join
<1>8. ASSUME NEW k \in 1 .. n + 1 PROVE Introduces(t[k], k, version)
  <2>1. CASE k = 1
    <3>1. t[1] = Key
      BY <1>2, <1>6 DEF Join
    <3> QED BY <2>1, <3>1 DEF Introduces, Key, Received, Element
  <2>2. CASE k \in 2 .. n + 1
    <3>1. PICK j \in 1 .. n : k = 1 + j
      BY <1>7, <2>2
    <3>2. t[k] = s[j]
      BY <1>6, <3>1 DEF Join
    <3>3. Value(s[j], version)
      BY <1>3, <1>5, <3>1 DEF Values
    <3> QED BY <3>2, <3>3 DEF Introduces, Value, Received
  <2> QED BY <1>7, <2>1, <2>2
<1> QED BY <1>1, <1>5, <1>7, <1>8 DEF Greeting

LEMMA GreetingOf ==
  ASSUME input \in Inputs, NEW version
  PROVE  List(Greeting(version)) /\ \A k \in 1 .. Len(Greeting(version)) : ~Received(Greeting(version)[k])
BY GreetingItems DEF Introduces

-----------------------------------------------------------------------------
(* Of what is absorbed, what is sent. *)
Piece(e) == IF Received(e) THEN <<e>> ELSE << >>

LEMMA PieceIs == ASSUME NEW e PROVE List(Piece(e)) /\ Len(Piece(e)) = IF Received(e) THEN 1 ELSE 0
BY OneItem, NoItems DEF Piece

Pieces(t) == [k \in 1 .. Len(t) |-> Piece(t[k])]

LEMMA SentPieces == ASSUME NEW t, List(t) PROVE Sent(t) = FlattenSeq(Pieces(t))
<1>1. DOMAIN t = 1 .. Len(t)
  BY ListDomain
<1> QED BY <1>1 DEF Sent, Pieces, Piece, Received

LEMMA SentNone ==
  ASSUME NEW t, List(t), \A k \in 1 .. Len(t) : ~Received(t[k]) PROVE Sent(t) = << >>
<1>1. PICK fs, n, u : fs = Pieces(t) /\ n = Len(t) /\ u = FlattenSeq(fs)
  OBVIOUS
<1>2. n \in Nat /\ fs = [k \in 1 .. n |-> fs[k]] /\ \A k \in 1 .. n : fs[k] = Piece(t[k])
  BY <1>1 DEF Pieces, List
<1>3. \A k \in 1 .. n : List(fs[k]) /\ Len(fs[k]) = 0
  BY <1>1, <1>2, PieceIs
<1>4. Gathers(fs, n, u)
  BY <1>1, <1>2, <1>3, FlattenOf
<1>5. List(u) /\ \A x \in 1 .. Len(u) : FALSE
  BY <1>3, <1>4 DEF Gathers
<1>6. Len(u) = 0
  <2>1. Len(u) \in Nat
    BY <1>5, ListDomain
  <2>2. Len(u) \notin 1 .. Len(u)
    BY <1>5
  <2> QED BY <2>1, <2>2
<1>7. u = << >>
  BY <1>4, <1>6, NoItems, ListEqual DEF Gathers
<1> QED BY <1>1, <1>7, SentPieces

LEMMA GreetingIs ==
  ASSUME input \in Inputs, NEW version PROVE List(Greeting(version)) /\ Sent(Greeting(version)) = << >>
<1>1. PICK t : t = Greeting(version)
  OBVIOUS
<1>2. List(t) /\ \A k \in 1 .. Len(t) : ~Received(t[k])
  BY <1>1, GreetingOf
<1> QED BY <1>1, <1>2, SentNone

LEMMA SentMore ==
  ASSUME NEW t, List(t), NEW e PROVE Sent(t \o <<e>>) = Sent(t) \o Piece(e)
<1>1. PICK n, w, u : n = Len(t) /\ w = <<e>> /\ u = t \o w
  OBVIOUS
<1>2. List(w) /\ Len(w) = 1 /\ w[1] = e
  BY <1>1, OneItem
<1>3. Join(u, t, n, w, 1)
  BY <1>1, <1>2, Joins
<1>4. n \in Nat /\ List(u) /\ Len(u) = n + 1 /\ \A k \in 1 .. n : u[k] = t[k]
  BY <1>3 DEF Join
<1>5. u[n + 1] = e
  BY <1>2, <1>3 DEF Join
<1>6. PICK fs : fs = Pieces(u)
  OBVIOUS
<1>7. fs = [k \in 1 .. n + 1 |-> fs[k]] /\ \A k \in 1 .. n + 1 : fs[k] = Piece(u[k])
  BY <1>4, <1>6 DEF Pieces
<1>8. \A k \in 1 .. n + 1 : List(fs[k])
  BY <1>7, PieceIs
<1>9. FlattenSeq(Upto(fs, n + 1)) = FlattenSeq(Upto(fs, n)) \o fs[n + 1]
  BY <1>4, <1>8, FlattenMore
<1>10. Upto(fs, n + 1) = fs
  BY <1>7 DEF Upto
<1>11. Upto(fs, n) = Pieces(t)
  <2>1. \A k \in 1 .. n : k \in 1 .. n + 1 /\ fs[k] = Piece(t[k])
    BY <1>4, <1>7
  <2> QED BY <1>1, <2>1 DEF Upto, Pieces
<1>12. fs[n + 1] = Piece(e)
  BY <1>4, <1>5, <1>7
<1>13. Sent(u) = FlattenSeq(fs) /\ Sent(t) = FlattenSeq(Pieces(t))
  BY <1>4, <1>6, SentPieces
<1> QED BY <1>1, <1>9, <1>10, <1>11, <1>12, <1>13

LEMMA SentConcat ==
  ASSUME NEW a, NEW b, List(a), List(b) PROVE Sent(a \o b) = Sent(a) \o Sent(b)
<1> DEFINE S == {m \in Nat : Sent(a \o Upto(b, m)) = Sent(a) \o Sent(Upto(b, m))}
<1>1. 0 \in S
  <2>1. Upto(b, 0) = << >>
    BY DEF Upto
  <2>2. Sent(<< >>) = << >>
    <3>1. PICK e : e = << >>
      OBVIOUS
    <3>2. List(e) /\ Len(e) = 0
      BY <3>1, NoItems
    <3>3. Pieces(e) = << >>
      BY <3>2 DEF Pieces
    <3>4. FlattenSeq(<< >>) = << >>
      BY NoItems DEF FlattenSeq
    <3> QED BY <3>1, <3>2, <3>3, <3>4, SentPieces
  <2>3. List(Sent(a))
    BY SentIs
  <2>4. Sent(a \o << >>) = Sent(a) \o Sent(<< >>)
    BY <2>2, <2>3, ConcatNone
  <2> QED BY <2>1, <2>4
<1>2. ASSUME NEW m \in Nat, m \in S PROVE m + 1 \in S
  <2>1. PICK u, w, e : u = Upto(b, m) /\ e = b[m + 1] /\ w = <<e>>
    OBVIOUS
  <2>2. Upto(b, m + 1) = u \o w
    BY <2>1, UptoMore
  <2>3. List(u) /\ List(w)
    BY <2>1, UptoIs, OneItem
  <2>4. a \o (u \o w) = (a \o u) \o w
    <3>1. Assoc(a, u, w)
      BY <2>3, ConcatAssoc
    <3> QED BY <3>1 DEF Assoc
  <2>5. List(a \o u)
    BY <2>3, ListConcat
  <2>6. Sent((a \o u) \o w) = Sent(a \o u) \o Piece(e)
    BY <2>1, <2>5, SentMore
  <2>7. Sent(u \o w) = Sent(u) \o Piece(e)
    BY <2>1, <2>3, SentMore
  <2>8. Sent(a \o u) = Sent(a) \o Sent(u)
    BY <1>2, <2>1
  <2>9. List(Sent(a)) /\ List(Sent(u)) /\ List(Piece(e))
    BY <2>3, SentIs, PieceIs
  <2>10. (Sent(a) \o Sent(u)) \o Piece(e) = Sent(a) \o (Sent(u) \o Piece(e))
    <3>1. Assoc(Sent(a), Sent(u), Piece(e))
      BY <2>9, ConcatAssoc
    <3> QED BY <3>1 DEF Assoc
  <2>11. Sent(a \o Upto(b, m + 1)) = Sent(a) \o Sent(Upto(b, m + 1))
    BY <2>2, <2>4, <2>6, <2>7, <2>8, <2>10
  <2> QED BY <2>11
<1>3. Nat \subseteq S
  <2> HIDE DEF S
  <2> QED BY <1>1, <1>2, SetInduction
<1>4. PICK n : n = Len(b)
  OBVIOUS
<1>5. n \in Nat /\ Upto(b, n) = b
  BY <1>4 DEF List, Upto
<1>6. n \in S
  BY <1>3, <1>5
<1> QED BY <1>5, <1>6

LEMMA PiecesAre ==
  ASSUME NEW t, List(t), NEW n, n = Len(t)
  PROVE  /\ n \in Nat /\ Pieces(t) = [k \in 1 .. n |-> Pieces(t)[k]]
         /\ \A k \in 1 .. n : Pieces(t)[k] = Piece(t[k])
<1>1. n \in Nat
  BY ListDomain
<1> QED BY <1>1 DEF Pieces

(* As many are sent of one as of the other. *)
LEMMA SentAlike ==
  ASSUME NEW t, NEW s, List(t), List(s), Len(t) = Len(s),
         \A k \in 1 .. Len(s) : Received(t[k]) <=> Received(s[k])
  PROVE  Len(Sent(t)) = Len(Sent(s))
<1>1. PICK n, fs, gs : n = Len(s) /\ fs = Pieces(t) /\ gs = Pieces(s)
  OBVIOUS
<1>2. n \in Nat /\ fs = [k \in 1 .. n |-> fs[k]] /\ \A k \in 1 .. n : fs[k] = Piece(t[k])
  BY <1>1, PiecesAre
<1>3. gs = [k \in 1 .. n |-> gs[k]] /\ \A k \in 1 .. n : gs[k] = Piece(s[k])
  BY <1>1, PiecesAre
<1>4. \A k \in 1 .. n : List(fs[k]) /\ List(gs[k]) /\ Len(fs[k]) = Len(gs[k])
  BY <1>1, <1>2, <1>3, PieceIs
<1>5. Aligned(fs, gs, n, FlattenSeq(fs), FlattenSeq(gs))
  BY <1>2, <1>3, <1>4, FlattenAligned
<1> QED BY <1>1, <1>5, SentPieces DEF Aligned

LEMMA FitsSent == ASSUME NEW t, NEW s, Fits(t, s) PROVE Fits(Sent(t), Sent(s))
<1>1. PICK n, fs, gs : n = Len(s) /\ fs = Pieces(t) /\ gs = Pieces(s)
  OBVIOUS
<1>2. List(t) /\ List(s) /\ Len(t) = n /\ \A k \in 1 .. n : MeantFor(t[k], s[k])
  BY <1>1 DEF Fits
<1>3. n \in Nat /\ fs = [k \in 1 .. n |-> fs[k]] /\ \A k \in 1 .. n : fs[k] = Piece(t[k])
  BY <1>1, <1>2, PiecesAre
<1>4. gs = [k \in 1 .. n |-> gs[k]] /\ \A k \in 1 .. n : gs[k] = Piece(s[k])
  BY <1>1, <1>2, PiecesAre
<1>5. ASSUME NEW k \in 1 .. n PROVE Fits(fs[k], gs[k])
  <2>1. PICK d, e : d = t[k] /\ e = s[k]
    OBVIOUS
  <2>2. MeantFor(d, e) /\ fs[k] = Piece(d) /\ gs[k] = Piece(e)
    BY <1>2, <1>3, <1>4, <2>1
  <2>3. CASE Received(e)
    <3>1. Received(d)
      BY <2>2, <2>3 DEF MeantFor, Received
    <3>2. fs[k] = <<d>> /\ gs[k] = <<e>>
      BY <2>2, <2>3, <3>1 DEF Piece
    <3>3. Fits(<<d>>, <<e>>)
      BY <2>2, OneItem DEF Fits
    <3> QED BY <3>2, <3>3
  <2>4. CASE ~Received(e)
    <3>1. fs[k] = << >> /\ gs[k] = << >>
      BY <2>2, <2>4 DEF MeantFor, Piece
    <3>2. Fits(<< >>, << >>)
      BY NoItems DEF Fits
    <3> QED BY <3>1, <3>2
  <2> QED BY <2>3, <2>4
<1>6. Fits(FlattenSeq(fs), FlattenSeq(gs))
  BY <1>3, <1>4, <1>5, FitsFlatten
<1> QED BY <1>1, <1>2, <1>6, SentPieces

LEMMA FitsUpto ==
  ASSUME NEW t, NEW s, Fits(t, s), NEW m, m \in 0 .. Len(s)
  PROVE  Fits(Upto(t, m), Upto(s, m))
<1>1. Len(s) \in Nat /\ Len(t) = Len(s)
  BY ListDomain DEF Fits
<1>2. PICK u, v : u = Upto(t, m) /\ v = Upto(s, m)
  OBVIOUS
<1>3. m \in Nat /\ m <= Len(s)
  BY <1>1
<1>4. List(u) /\ Len(u) = m /\ \A k \in 1 .. m : u[k] = t[k]
  BY <1>2, <1>3, UptoIs
<1>5. List(v) /\ Len(v) = m /\ \A k \in 1 .. m : v[k] = s[k]
  BY <1>2, <1>3, UptoIs
<1>6. \A k \in 1 .. m : k \in 1 .. Len(s)
  BY <1>1, <1>3
<1>7. \A k \in 1 .. m : MeantFor(t[k], s[k])
  BY <1>6 DEF Fits
<1> QED BY <1>2, <1>4, <1>5, <1>7 DEF Fits

(* The k-th item, if it is sent, is sent after those sent before it. *)
LEMMA PlaceIs ==
  ASSUME NEW mine, List(mine), NEW k, k \in 1 .. Len(mine), Received(mine[k]),
         NEW p, p = Len(Sent(Upto(mine, k)))
  PROVE  p \in 1 .. Len(Sent(mine)) /\ Sent(mine)[p] = mine[k]
<1>1. PICK n : n = Len(mine)
  OBVIOUS
<1>2. n \in Nat /\ k \in 1 .. n /\ k \in 0 .. n
  BY <1>1, ListDomain
<1>3. PICK e, u, v, b : e = mine[k] /\ u = Upto(mine, k) /\ v = Upto(mine, k - 1) /\ b = Beyond(mine, k)
  OBVIOUS
<1>4. mine = u \o b /\ List(u) /\ List(b)
  BY <1>1, <1>2, <1>3, SplitAt
<1>5. u = v \o <<e>> /\ List(v)
  <2>1. k - 1 \in Nat /\ (k - 1) + 1 = k
    BY <1>2
  <2>2. Upto(mine, (k - 1) + 1) = Upto(mine, k - 1) \o <<mine[(k - 1) + 1]>>
    BY <2>1, UptoMore
  <2>3. List(v)
    BY <1>3, <2>1, UptoIs
  <2> QED BY <1>3, <2>1, <2>2, <2>3
<1>6. Sent(u) = Sent(v) \o <<e>>
  BY <1>3, <1>5, SentMore DEF Piece
<1>7. Sent(mine) = Sent(u) \o Sent(b)
  BY <1>4, SentConcat
<1>8. PICK x, y, z, w, l : x = Sent(v) /\ y = Sent(u) /\ z = Sent(b) /\ w = Sent(mine) /\ l = Len(x)
  OBVIOUS
<1>9. List(x) /\ List(y) /\ List(z) /\ List(w)
  BY <1>4, <1>5, <1>8, SentIs
<1>10. List(<<e>>) /\ Len(<<e>>) = 1 /\ <<e>>[1] = e
  BY OneItem
<1>11. Join(y, x, l, <<e>>, 1)
  BY <1>6, <1>8, <1>9, <1>10, Joins
<1>12. l \in Nat /\ Len(y) = l + 1 /\ y[l + 1] = e /\ p = l + 1
  BY <1>3, <1>8, <1>10, <1>11 DEF Join
<1>13. PICK q : q = Len(z)
  OBVIOUS
<1>14. Join(w, y, p, z, q)
  BY <1>7, <1>8, <1>9, <1>12, <1>13, Joins
<1>15. q \in Nat /\ Len(w) = p + q /\ p \in 1 .. p /\ w[p] = y[p]
  BY <1>12, <1>14 DEF Join
<1> QED BY <1>3, <1>8, <1>12, <1>15

LEMMA TakenIs ==
  ASSUME NEW mine, NEW slots, Fits(mine, slots), NEW k, k \in 1 .. Len(slots), Received(slots[k]),
         NEW p, p = Len(Sent(SubSeq(slots, 1, k)))
  PROVE  /\ p \in 1 .. Len(Sent(slots))
         /\ p \in 1 .. Len(Sent(mine)) /\ Sent(mine)[p] = mine[k]
<1>1. PICK n : n = Len(slots)
  OBVIOUS
<1>2. List(mine) /\ List(slots) /\ Len(mine) = n /\ n \in Nat
  BY <1>1, ListDomain DEF Fits
<1>3. k \in 1 .. n /\ k \in 0 .. n
  BY <1>1, <1>2
<1>4. SubSeq(slots, 1, k) = Upto(slots, k)
  BY <1>1, <1>2, <1>3, SplitAt
<1>5. Fits(Upto(mine, k), Upto(slots, k))
  BY <1>1, <1>3, FitsUpto
<1>6. Fits(Sent(Upto(mine, k)), Sent(Upto(slots, k)))
  BY <1>5, FitsSent
<1>7. p = Len(Sent(Upto(mine, k))) /\ p = Len(Sent(Upto(slots, k)))
  BY <1>4, <1>6 DEF Fits
<1>8. Received(mine[k])
  <2>1. MeantFor(mine[k], slots[k])
    BY <1>1, <1>3 DEF Fits
  <2> QED BY <2>1 DEF MeantFor, Received
<1>9. p \in 1 .. Len(Sent(mine)) /\ Sent(mine)[p] = mine[k]
  BY <1>2, <1>3, <1>7, <1>8, PlaceIs
<1>10. p \in 1 .. Len(Sent(slots))
  BY <1>1, <1>2, <1>3, <1>7, PlaceIs
<1> QED BY <1>9, <1>10

-----------------------------------------------------------------------------
(* Both transcripts are at tv; the prover went on with mine, which is meant *)
(* for the slots of this step: that is what the verifier reads.            *)
LEMMA ReadFits ==
  ASSUME NEW from, NEW to, NEW slots, Read(from, to, slots),
         NEW mine, NEW others, Fits(mine, slots), List(others), List(tv), tp = tv \o (mine \o others),
         proof = Sent(tp), List(wire), IsPrefix(proof, wire)
  PROVE  \/ Return("reject")
         \/ /\ vpc' = to /\ tv' = tv \o mine
            /\ DOMAIN got' = DOMAIN got \cup ToSet(Sent(slots))
            /\ \A s \in DOMAIN got : got'[s] = got[s]
            /\ \A s \in DOMAIN got' : s \notin DOMAIN got => Meant(s, got'[s])
            /\ UNCHANGED <<input, proverVars, wire, told, verdict>>
<1>1. PICK wanted : wanted = Sent(slots)
  OBVIOUS
<1>2. PICK n, x, z, before : n = Len(slots) /\ x = Sent(mine) /\ z = Sent(others) /\ before = Len(Sent(tv))
  OBVIOUS
<1>3. List(mine) /\ List(slots) /\ Len(mine) = n /\ n \in Nat /\ DOMAIN slots = 1 .. n
  BY <1>2, ListDomain DEF Fits
<1>4. List(x) /\ List(z) /\ List(Sent(tv)) /\ List(wanted)
  BY <1>1, <1>2, <1>3, SentIs
<1>5. proof = Sent(tv) \o (x \o z)
  <2>1. List(mine \o others)
    BY <1>3, ListConcat
  <2>2. Sent(tp) = Sent(tv) \o Sent(mine \o others) /\ Sent(mine \o others) = x \o z
    BY <1>2, <1>3, <2>1, SentConcat
  <2> QED BY <2>2
<1>6. Fits(x, wanted)
  BY <1>1, <1>2, FitsSent
<1>7. PICK l, q : l = Len(x) /\ q = Len(z)
  OBVIOUS
<1>8. ASSUME NEW k \in 1 .. l PROVE wire[before + k] = x[k]
  <2>1. PICK y : y = x \o z
    OBVIOUS
  <2>2. Join(y, x, l, z, q)
    BY <1>4, <1>7, <2>1, Joins
  <2>3. List(y) /\ Len(y) = l + q /\ l \in Nat /\ q \in Nat /\ y[k] = x[k]
    BY <2>2 DEF Join
  <2>4. PICK r : r = Len(y)
    OBVIOUS
  <2>5. Join(proof, Sent(tv), before, y, r)
    BY <1>2, <1>4, <1>5, <2>1, <2>3, <2>4, Joins
  <2>6. k \in 1 .. r
    BY <2>3, <2>4
  <2>7. proof[before + k] = x[k] /\ List(proof) /\ Len(proof) = before + r /\ before \in Nat
    BY <2>3, <2>5, <2>6 DEF Join
  <2>8. before + k \in 1 .. Len(proof)
    BY <2>3, <2>4, <2>6, <2>7
  <2>9. \A i \in 1 .. Len(proof) : proof[i] = wire[i]
    BY <2>7, PrefixOf
  <2> QED BY <2>7, <2>8, <2>9
<1> DEFINE taken == Taken(slots, before)
           found == Filled(wanted, before)
<1>9. taken = mine
  <2>1. taken = [k \in 1 .. n |-> taken[k]]
    BY <1>3 DEF Taken
  <2>2. ASSUME NEW k \in 1 .. n PROVE taken[k] = mine[k]
    <3>1. PICK p : p = Len(Sent(SubSeq(slots, 1, k)))
      OBVIOUS
    <3>2. taken[k] = IF Received(slots[k]) THEN wire[before + p] ELSE slots[k]
      BY <1>3, <3>1 DEF Received, Taken
    <3> HIDE DEF taken
    <3>3. CASE Received(slots[k])
      <4>1. k \in 1 .. Len(slots)
        BY <1>2
      <4>2. /\ p \in 1 .. Len(Sent(slots))
            /\ p \in 1 .. Len(Sent(mine)) /\ Sent(mine)[p] = mine[k]
        BY SMTT(40), <3>1, <3>3, <4>1, TakenIs
      <4>3. p \in 1 .. l /\ x[p] = mine[k]
        BY <1>2, <1>7, <4>2
      <4> QED BY <1>8, <3>2, <3>3, <4>3
    <3>4. CASE ~Received(slots[k])
      <4>1. MeantFor(mine[k], slots[k])
        BY <1>2 DEF Fits
      <4> QED BY <3>2, <3>4, <4>1 DEF MeantFor
    <3> QED BY <3>3, <3>4
  <2> HIDE DEF taken
  <2>3. mine = [k \in 1 .. n |-> mine[k]]
    BY <1>3 DEF List
  <2> QED BY <2>1, <2>2, <2>3
<1>10. /\ DOMAIN found = DOMAIN got \cup ToSet(wanted)
       /\ \A s \in DOMAIN got : found[s] = got[s]
  BY DEF Filled
<1>11. ASSUME NEW s \in DOMAIN found, s \notin DOMAIN got PROVE Meant(s, found[s])
  <2>1. PICK k : k = CHOOSE j \in DOMAIN wanted : wanted[j] = s
    OBVIOUS
  <2>2. found[s] = wire[before + k]
    BY <1>11, <2>1 DEF Filled
  <2>3. s \in ToSet(wanted)
    BY <1>11 DEF Filled
  <2>4. \E i \in DOMAIN wanted : wanted[i] = s
    BY <2>3 DEF ToSet
  <2>5. k \in DOMAIN wanted /\ wanted[k] = s
    BY <2>1, <2>4
  <2>6. k \in 1 .. Len(wanted) /\ Len(wanted) = l
    BY <1>4, <1>6, <1>7, <2>5, ListDomain DEF Fits
  <2>7. wire[before + k] = x[k]
    BY <1>8, <2>6
  <2>8. MeantFor(x[k], s)
    BY <1>6, <2>5, <2>6 DEF Fits
  <2>9. Received(s)
    BY <1>1, <1>3, <2>5, <2>6, SentIs DEF Received
  <2> QED BY <2>2, <2>7, <2>8, <2>9 DEF MeantFor
<1>12. Return("reject") \/ (vpc' = to /\ tv' = tv \o taken /\ got' = found
                              /\ UNCHANGED <<input, proverVars, wire, told, verdict>>)
  BY <1>1, <1>2 DEF Read
<1> HIDE DEF taken, found
<1> QED BY <1>1, <1>9, <1>10, <1>11, <1>12

-----------------------------------------------------------------------------
(* The commitments of one call of commit_phase, of the circuits 1 to n. *)
IsCommitment(e, i, v) ==
  \E col \in DOMAIN c.adv : c.adv[col] = Phase /\ e = Element("point", "advice", i, col, 0, v)

LEMMA CommitmentsIs ==
  ASSUME input \in Inputs, NEW i, NEW v
  PROVE  /\ List(AdviceCommitments(i, v))
         /\ \A k \in 1 .. Len(AdviceCommitments(i, v)) : IsCommitment(AdviceCommitments(i, v)[k], i, v)
         /\ \A col \in DOMAIN c.adv : c.adv[col] = Phase =>
              \E k \in 1 .. Len(AdviceCommitments(i, v)) :
                AdviceCommitments(i, v)[k] = Element("point", "advice", i, col, 0, v)
<1> DEFINE cols == ColumnsOf(c, Phase)
           t == [k \in DOMAIN cols |-> Element("point", "advice", i, cols[k], 0, v)]
<1>1. c.adv \in Seq(0 .. 255) /\ DOMAIN c.adv = 1 .. Len(c.adv)
  <2>1. c.adv \in Seq(0 .. 255)
    BY TheCircuit, CircuitsAssumption
  <2> QED BY <2>1, TheLists
<1>2. /\ List(cols)
      /\ \A k \in 1 .. Len(cols) : cols[k] \in DOMAIN c.adv /\ c.adv[cols[k]] = Phase
      /\ \A col \in DOMAIN c.adv : c.adv[col] = Phase => \E k \in 1 .. Len(cols) : cols[k] = col
  BY <1>1, IndicesIs DEF ColumnsOf
<1>3. AdviceCommitments(i, v) = t
  BY DEF AdviceCommitments
<1> HIDE DEF cols, c
<1>4. Len(cols) \in Nat /\ DOMAIN cols = 1 .. Len(cols)
  BY <1>2, ListDomain
<1>5. t = [k \in 1 .. Len(cols) |-> t[k]]
  BY <1>4
<1>6. \A k \in 1 .. Len(cols) : t[k] = Element("point", "advice", i, cols[k], 0, v)
  BY <1>4
<1> HIDE DEF t
<1>7. List(t) /\ Len(t) = Len(cols)
  BY <1>4, <1>5, ListOf
<1>8. \A k \in 1 .. Len(t) : IsCommitment(t[k], i, v)
  BY <1>2, <1>6, <1>7 DEF IsCommitment
<1>9. \A col \in DOMAIN c.adv : c.adv[col] = Phase =>
        \E k \in 1 .. Len(t) : t[k] = Element("point", "advice", i, col, 0, v)
  BY <1>2, <1>6, <1>7
<1> QED BY <1>3, <1>7, <1>8, <1>9

(* Those of the first n circuits, one after the other. *)
CommitmentsUpTo(n, v) == FlattenSeq([k \in 1 .. n |-> AdviceCommitments(k, v)])

LEMMA CommitmentsUpToIs ==
  ASSUME input \in Inputs, NEW n, n \in Nat, NEW v
  PROVE  /\ List(CommitmentsUpTo(n, v))
         /\ \A x \in 1 .. Len(CommitmentsUpTo(n, v)) : \E i \in 1 .. n : IsCommitment(CommitmentsUpTo(n, v)[x], i, v)
         /\ \A i \in 1 .. n : \A col \in DOMAIN c.adv : c.adv[col] = Phase =>
              \E x \in 1 .. Len(CommitmentsUpTo(n, v)) :
                CommitmentsUpTo(n, v)[x] = Element("point", "advice", i, col, 0, v)
<1> DEFINE fs == [k \in 1 .. n |-> AdviceCommitments(k, v)]
<1>1. PICK t : t = CommitmentsUpTo(n, v)
  OBVIOUS
<1>2. fs = [k \in 1 .. n |-> fs[k]] /\ \A k \in 1 .. n : fs[k] = AdviceCommitments(k, v)
  OBVIOUS
<1>3. t = FlattenSeq(fs)
  BY <1>1 DEF CommitmentsUpTo
<1> HIDE DEF fs
<1>4. \A k \in 1 .. n : List(fs[k])
  BY <1>2, CommitmentsIs
<1>5. Gathers(fs, n, t)
  BY <1>2, <1>3, <1>4, FlattenOf
<1>6. ASSUME NEW x \in 1 .. Len(t) PROVE \E i \in 1 .. n : IsCommitment(t[x], i, v)
  <2>1. PICK k \in 1 .. n : \E j \in 1 .. Len(fs[k]) : t[x] = fs[k][j]
    BY <1>5 DEF Gathers
  <2>2. PICK j \in 1 .. Len(fs[k]) : t[x] = fs[k][j]
    BY <2>1
  <2>3. IsCommitment(fs[k][j], k, v)
    BY <1>2, CommitmentsIs
  <2> QED BY <2>2, <2>3
<1>7. ASSUME NEW i \in 1 .. n, NEW col \in DOMAIN c.adv, c.adv[col] = Phase
      PROVE  \E x \in 1 .. Len(t) : t[x] = Element("point", "advice", i, col, 0, v)
  <2>1. PICK j \in 1 .. Len(fs[i]) : fs[i][j] = Element("point", "advice", i, col, 0, v)
    BY <1>2, <1>7, CommitmentsIs
  <2>2. PICK x \in 1 .. Len(t) : t[x] = fs[i][j]
    BY <1>5 DEF Gathers
  <2> QED BY <2>1, <2>2
<1> QED BY <1>1, <1>5, <1>6, <1>7 DEF Gathers

(* The columns before one, too, are of the phase. *)
LEMMA CommitmentsBeforeIs ==
  ASSUME input \in Inputs, NEW i, NEW col, NEW v
  PROVE  /\ List(CommitmentsBefore(i, col, v))
         /\ \A x \in 1 .. Len(CommitmentsBefore(i, col, v)) : IsCommitment(CommitmentsBefore(i, col, v)[x], i, v)
<1>1. PICK points : points = AdviceCommitments(i, v)
  OBVIOUS
<1> DEFINE n == Len(points)
           fs == [k \in 1 .. n |-> IF points[k].j < col THEN <<points[k]>> ELSE << >>]
<1>2. /\ n \in Nat /\ DOMAIN points = 1 .. n
      /\ \A k \in 1 .. n : IsCommitment(points[k], i, v)
  BY <1>1, CommitmentsIs, ListDomain
<1>3. PICK t : t = CommitmentsBefore(i, col, v)
  OBVIOUS
<1>4. t = FlattenSeq(fs)
  BY <1>1, <1>2, <1>3 DEF CommitmentsBefore, ForEach
<1>5. fs = [k \in 1 .. n |-> fs[k]] /\ \A k \in 1 .. n : fs[k] = <<points[k]>> \/ fs[k] = << >>
  OBVIOUS
<1> HIDE DEF n, fs
<1>6. ASSUME NEW k \in 1 .. n
      PROVE  List(fs[k]) /\ \A j \in 1 .. Len(fs[k]) : IsCommitment(fs[k][j], i, v)
  <2>1. CASE fs[k] = <<points[k]>>
    <3>1. List(fs[k]) /\ Len(fs[k]) = 1 /\ fs[k][1] = points[k]
      BY <2>1, OneItem
    <3> QED BY <1>2, <3>1
  <2>2. CASE fs[k] = << >>
    <3>1. List(fs[k]) /\ Len(fs[k]) = 0
      BY <2>2, NoItems
    <3> QED BY <3>1
  <2> QED BY <1>5, <2>1, <2>2
<1>7. Gathers(fs, n, t)
  BY <1>2, <1>4, <1>5, <1>6, FlattenOf
<1>8. ASSUME NEW x \in 1 .. Len(t) PROVE IsCommitment(t[x], i, v)
  <2>1. PICK k \in 1 .. n : \E j \in 1 .. Len(fs[k]) : t[x] = fs[k][j]
    BY <1>7 DEF Gathers
  <2> QED BY <1>6, <2>1
<1> QED BY <1>3, <1>7, <1>8 DEF Gathers

(* A challenge of the phase is named by its index. *)
LEMMA PhaseChallengesIs ==
  ASSUME input \in Inputs
  PROVE  /\ List(PhaseChallenges)
         /\ \A k \in 1 .. Len(PhaseChallenges) :
              \E idx \in DOMAIN c.chal : PhaseChallenges[k] = Sq("challenge", idx) /\ c.chal[idx] = Phase
<1> DEFINE chals == ChallengesOf(c, Phase)
           t == [k \in DOMAIN chals |-> Sq("challenge", chals[k])]
<1>1. c.chal \in Seq(0 .. 255) /\ DOMAIN c.chal = 1 .. Len(c.chal)
  <2>1. c.chal \in Seq(0 .. 255)
    BY TheCircuit, CircuitsAssumption
  <2> QED BY <2>1, TheLists
<1>2. /\ List(chals)
      /\ \A k \in 1 .. Len(chals) : chals[k] \in DOMAIN c.chal /\ c.chal[chals[k]] = Phase
  BY <1>1, IndicesIs DEF ChallengesOf
<1>3. PhaseChallenges = t
  BY DEF PhaseChallenges
<1> HIDE DEF chals, c
<1>4. Len(chals) \in Nat /\ DOMAIN chals = 1 .. Len(chals)
  BY <1>2, ListDomain
<1>5. t = [k \in 1 .. Len(chals) |-> t[k]] /\ \A k \in 1 .. Len(chals) : t[k] = Sq("challenge", chals[k])
  BY <1>4
<1> HIDE DEF t
<1>6. List(t) /\ Len(t) = Len(chals)
  BY <1>4, <1>5, ListOf
<1> QED BY <1>2, <1>3, <1>5, <1>6

-----------------------------------------------------------------------------
(***************************************************************************)
(* The prover's invariant.  It is stated of a transcript t, so that what a *)
(* step adds to the transcript is reasoned about apart from the step.      *)
(***************************************************************************)
At(t, i, col, k) == Advice(t[k]) /\ t[k].i = i /\ t[k].j = col

(* Every challenge of a phase stands after the columns it depends on. *)
Follows(t) ==
  \A k \in 1 .. Len(t) : t[k].of = "challenge" =>
    /\ \A i \in Proofs : \A col \in DOMAIN c.adv :
         c.adv[col] <= c.chal[t[k].j] => \E l \in 1 .. k - 1 : At(t, i, col, l)
    /\ \A l \in 1 .. k - 1 : Advice(t[l]) => c.adv[t[l].j] <= c.chal[t[k].j]

(* Between two phases: the columns of the phases before n are there, and   *)
(* at most an interrupted call's columns of phase n.                       *)
UpToPhase(t, n) ==
  /\ \A i \in Proofs : \A col \in DOMAIN c.adv :
       c.adv[col] < n => \E l \in 1 .. Len(t) : At(t, i, col, l)
  /\ \A l \in 1 .. Len(t) : Advice(t[l]) => t[l].j \in DOMAIN c.adv /\ c.adv[t[l].j] <= n

(* A column that is filled is in the transcript as it was filled; and then *)
(* theta after it.                                                         *)
HeldAt(t, a, i, col, k) == At(t, i, col, k) /\ t[k].v = a[i][col]
ThetaAfter(t, k) == \E l \in 1 .. Len(t) : l > k /\ t[l].of = "theta"

Held(t, a) ==
  \A i \in Proofs : \A col \in DOMAIN c.adv : a[i][col] # 0 =>
    \E k \in 1 .. Len(t) : HeldAt(t, a, i, col, k)
Sealed(t, a) ==
  \A i \in Proofs : \A col \in DOMAIN c.adv : a[i][col] # 0 =>
    \E k \in 1 .. Len(t) : HeldAt(t, a, i, col, k) /\ ThetaAfter(t, k)

LEMMA FollowsMore ==
  ASSUME NEW t, List(t), Follows(t), NEW s, Plain(s) PROVE Follows(t \o s)
<1>1. PICK u : u = t \o s
  OBVIOUS
<1>2. /\ List(u) /\ Len(t) \in Nat /\ Len(s) \in Nat /\ Len(u) = Len(t) + Len(s)
      /\ \A k \in 1 .. Len(t) : u[k] = t[k]
  BY <1>1, ListConcat, ListDomain DEF Plain
<1>3. ASSUME NEW k \in 1 .. Len(u), u[k].of = "challenge" PROVE k \in 1 .. Len(t) /\ u[k] = t[k]
  <2>1. CASE \E j \in 1 .. Len(s) : u[k] = s[j]
    BY <1>3, <2>1 DEF Plain
  <2> QED BY <1>1, <1>2, <2>1, ConcatPlace DEF Plain
<1>4. ASSUME NEW k \in 1 .. Len(t) PROVE \A l \in 1 .. k - 1 : l \in 1 .. Len(t) /\ u[l] = t[l]
  BY <1>2
<1>5. Follows(u)
  BY SMTT(40), <1>3, <1>4 DEF Follows, At
<1> QED BY <1>1, <1>5

LEMMA UpToPhaseMore ==
  ASSUME NEW t, List(t), NEW n, UpToPhase(t, n), NEW s, List(s),
         \A k \in 1 .. Len(s) : Advice(s[k]) => s[k].j \in DOMAIN c.adv /\ c.adv[s[k].j] <= n
  PROVE  UpToPhase(t \o s, n)
<1>1. PICK u : u = t \o s
  OBVIOUS
<1>2. /\ List(u) /\ Len(t) \in Nat /\ Len(s) \in Nat /\ Len(u) = Len(t) + Len(s)
      /\ \A k \in 1 .. Len(t) : u[k] = t[k] /\ k \in 1 .. Len(u)
  BY <1>1, ListConcat, ListDomain
<1>3. \A k \in 1 .. Len(u) : \/ k \in 1 .. Len(t) /\ u[k] = t[k]
                             \/ \E j \in 1 .. Len(s) : u[k] = s[j]
  BY <1>1, <1>2, ConcatPlace
<1>4. ASSUME NEW l \in 1 .. Len(u), Advice(u[l]) PROVE u[l].j \in DOMAIN c.adv /\ c.adv[u[l].j] <= n
  BY <1>3, <1>4 DEF UpToPhase
<1>5. ASSUME NEW i \in Proofs, NEW col \in DOMAIN c.adv, c.adv[col] < n
      PROVE  \E l \in 1 .. Len(u) : At(u, i, col, l)
  BY <1>2, <1>5 DEF UpToPhase, At
<1> QED BY <1>1, <1>4, <1>5 DEF UpToPhase

LEMMA HeldMore ==
  ASSUME NEW t, List(t), NEW s, List(s)
  PROVE  \A a : /\ Held(t, a) => Held(t \o s, a)
                /\ Sealed(t, a) => Sealed(t \o s, a)
                /\ Held(t, a) /\ (\E j \in 1 .. Len(s) : s[j].of = "theta") => Sealed(t \o s, a)
<1>1. PICK u : u = t \o s
  OBVIOUS
<1>2. /\ List(u) /\ Len(t) \in Nat /\ Len(s) \in Nat /\ Len(u) = Len(t) + Len(s)
      /\ \A k \in 1 .. Len(t) : u[k] = t[k] /\ k \in 1 .. Len(u)
      /\ \A j \in 1 .. Len(s) : u[Len(t) + j] = s[j]
  BY <1>1, ListConcat, ListDomain
<1>3. ASSUME NEW a, NEW i, NEW col, NEW k \in 1 .. Len(t), HeldAt(t, a, i, col, k)
      PROVE  k \in 1 .. Len(u) /\ HeldAt(u, a, i, col, k)
  BY <1>2, <1>3 DEF HeldAt, At
<1>4. ASSUME NEW k \in 1 .. Len(t), ThetaAfter(t, k) PROVE ThetaAfter(u, k)
  BY <1>2, <1>4 DEF ThetaAfter
<1>5. ASSUME NEW j \in 1 .. Len(s), s[j].of = "theta", NEW k \in 1 .. Len(t) PROVE ThetaAfter(u, k)
  <2>1. PICK l : l = Len(t) + j
    OBVIOUS
  <2>2. l \in 1 .. Len(u) /\ u[l].of = "theta" /\ l > k
    BY <1>2, <1>5, <2>1
  <2> QED BY <2>2 DEF ThetaAfter
<1>6. ASSUME NEW a, Held(t, a) PROVE Held(u, a)
  BY <1>3, <1>6 DEF Held
<1>7. ASSUME NEW a, Sealed(t, a) PROVE Sealed(u, a)
  BY <1>3, <1>4, <1>7 DEF Sealed
<1>8. ASSUME NEW a, Held(t, a), NEW j \in 1 .. Len(s), s[j].of = "theta" PROVE Sealed(u, a)
  BY <1>3, <1>5, <1>8 DEF Held, Sealed
<1> QED BY <1>1, <1>6, <1>7, <1>8

-----------------------------------------------------------------------------
(***************************************************************************)
(* A call of commit_phase, finished or interrupted.                        *)
(***************************************************************************)
LEMMA CommitmentIsAdvice ==
  ASSUME NEW e, NEW i, NEW v, IsCommitment(e, i, v)
  PROVE  /\ Advice(e) /\ e.i = i /\ e.v = v /\ e.of # "challenge" /\ e.kind = "point"
         /\ e.j \in DOMAIN c.adv /\ c.adv[e.j] = Phase
BY DEF IsCommitment, Advice, Element

(* Columns first: the challenges of a phase come when all of it is there.  *)
LEMMA PhaseFollows ==
  ASSUME input \in Inputs, NEW t, List(t), Follows(t), NEW n \in Nat, Phase = n, UpToPhase(t, n), NEW v
  PROVE  \A m : m \in Nat /\ Proofs = 1 .. m =>
           /\ Follows((t \o CommitmentsUpTo(m, v)) \o PhaseChallenges)
           /\ UpToPhase((t \o CommitmentsUpTo(m, v)) \o PhaseChallenges, n + 1)
<1> SUFFICES ASSUME NEW m, m \in Nat, Proofs = 1 .. m
             PROVE  /\ Follows((t \o CommitmentsUpTo(m, v)) \o PhaseChallenges)
                    /\ UpToPhase((t \o CommitmentsUpTo(m, v)) \o PhaseChallenges, n + 1)
  OBVIOUS
<1>1. PICK p : p = CommitmentsUpTo(m, v)
  OBVIOUS
<1>2. PICK q : q = PhaseChallenges
  OBVIOUS
<1>3. PICK u : u = t \o p
  OBVIOUS
<1>4. PICK w : w = u \o q
  OBVIOUS
<1>5. /\ List(p) /\ \A x \in 1 .. Len(p) : \E i \in 1 .. m : IsCommitment(p[x], i, v)
  BY <1>1, CommitmentsUpToIs
<1>6. \A i \in 1 .. m : \A col \in DOMAIN c.adv : c.adv[col] = n =>
        \E x \in 1 .. Len(p) : p[x] = Element("point", "advice", i, col, 0, v)
  BY <1>1, CommitmentsUpToIs
<1>7. /\ List(q)
      /\ \A k \in 1 .. Len(q) : \E idx \in DOMAIN c.chal : q[k] = Sq("challenge", idx) /\ c.chal[idx] = n
  BY <1>2, PhaseChallengesIs
<1>8. /\ Len(t) \in Nat /\ Len(p) \in Nat /\ Len(q) \in Nat
      /\ List(u) /\ Len(u) = Len(t) + Len(p) /\ List(w) /\ Len(w) = Len(u) + Len(q)
  BY <1>3, <1>4, <1>5, <1>7, ListConcat, ListDomain
<1>9. /\ \A k \in 1 .. Len(t) : u[k] = t[k] /\ k \in 1 .. Len(u)
      /\ \A x \in 1 .. Len(p) : u[Len(t) + x] = p[x] /\ Len(t) + x \in 1 .. Len(u)
      /\ \A k \in 1 .. Len(u) : w[k] = u[k] /\ k \in 1 .. Len(w)
  BY <1>3, <1>4, <1>5, <1>7, <1>8, ListConcat
<1>10. Plain(p)
  BY <1>5, CommitmentIsAdvice DEF Plain
<1>11. Follows(u)
  BY <1>3, <1>10, FollowsMore
<1>12. \A x \in 1 .. Len(p) : p[x].j \in DOMAIN c.adv /\ c.adv[p[x].j] = n
  BY <1>5, CommitmentIsAdvice
<1>13. UpToPhase(u, n)
  <2>1. \A x \in 1 .. Len(p) : Advice(p[x]) => p[x].j \in DOMAIN c.adv /\ c.adv[p[x].j] <= n
    BY <1>12
  <2> QED BY <1>3, <1>5, <2>1, UpToPhaseMore
<1>14. \A col \in DOMAIN c.adv : c.adv[col] \in Nat
  BY TheLists
<1>15. ASSUME NEW i \in Proofs, NEW col \in DOMAIN c.adv, c.adv[col] <= n
       PROVE  \E l \in 1 .. Len(u) : At(u, i, col, l)
  <2>1. CASE c.adv[col] < n
    BY <1>13, <2>1 DEF UpToPhase
  <2>2. CASE c.adv[col] = n
    <3>1. PICK x \in 1 .. Len(p) : p[x] = Element("point", "advice", i, col, 0, v)
      BY <1>6, <2>2
    <3>2. Len(t) + x \in 1 .. Len(u) /\ u[Len(t) + x] = Element("point", "advice", i, col, 0, v)
      BY <1>9, <3>1
    <3>3. At(u, i, col, Len(t) + x)
      BY <3>2 DEF At, Advice, Element
    <3> QED BY <3>2, <3>3
  <2> QED BY <1>14, <1>15, <2>1, <2>2
<1>16. \A k \in 1 .. Len(q) : ~Advice(q[k])
  <2> SUFFICES ASSUME NEW k \in 1 .. Len(q) PROVE ~Advice(q[k])
    OBVIOUS
  <2>1. PICK idx : q[k] = Sq("challenge", idx)
    BY <1>7
  <2>2. q[k].kind # "point"
    BY <2>1 DEF Sq, Element
  <2> QED BY <2>2 DEF Advice
<1>17. \A l \in 1 .. Len(w) : Advice(w[l]) => w[l].j \in DOMAIN c.adv /\ c.adv[w[l].j] <= n
  <2> SUFFICES ASSUME NEW l \in 1 .. Len(w), Advice(w[l])
               PROVE  w[l].j \in DOMAIN c.adv /\ c.adv[w[l].j] <= n
    OBVIOUS
  <2>1. \/ l \in 1 .. Len(u) /\ w[l] = u[l]
        \/ \E k \in 1 .. Len(q) : w[l] = q[k]
    BY <1>4, <1>7, <1>8, ConcatPlace
  <2> QED BY <1>13, <1>16, <2>1 DEF UpToPhase
<1>18. ASSUME NEW k \in 1 .. Len(w), w[k].of = "challenge"
       PROVE  /\ \A i \in Proofs : \A col \in DOMAIN c.adv :
                   c.adv[col] <= c.chal[w[k].j] => \E l \in 1 .. k - 1 : At(w, i, col, l)
              /\ \A l \in 1 .. k - 1 : Advice(w[l]) => c.adv[w[l].j] <= c.chal[w[k].j]
  <2>1. CASE k \in 1 .. Len(u) /\ w[k] = u[k]
    <3>1. \A l \in 1 .. k - 1 : l \in 1 .. Len(u) /\ w[l] = u[l]
      BY <1>8, <1>9, <2>1
    <3>2. /\ \A i \in Proofs : \A col \in DOMAIN c.adv :
               c.adv[col] <= c.chal[u[k].j] => \E l \in 1 .. k - 1 : At(u, i, col, l)
          /\ \A l \in 1 .. k - 1 : Advice(u[l]) => c.adv[u[l].j] <= c.chal[u[k].j]
      BY <1>11, <1>18, <2>1 DEF Follows
    <3>3. \A l \in 1 .. k - 1 : \A i, col : At(u, i, col, l) => At(w, i, col, l)
      BY <3>1 DEF At
    <3>4. w[k] = u[k]
      BY <2>1
    <3>5. ASSUME NEW i \in Proofs, NEW col \in DOMAIN c.adv, c.adv[col] <= c.chal[w[k].j]
          PROVE  \E l \in 1 .. k - 1 : At(w, i, col, l)
      <4>1. PICK l \in 1 .. k - 1 : At(u, i, col, l)
        BY <3>2, <3>4, <3>5
      <4> QED BY <3>3, <4>1
    <3>6. \A l \in 1 .. k - 1 : Advice(w[l]) => c.adv[w[l].j] <= c.chal[w[k].j]
      BY <3>1, <3>2, <3>4
    <3> QED BY <3>5, <3>6
  <2>2. CASE \E j \in 1 .. Len(q) : k = Len(u) + j /\ w[k] = q[j]
    <3>1. PICK j \in 1 .. Len(q) : k = Len(u) + j /\ w[k] = q[j]
      BY <2>2
    <3>2. c.chal[w[k].j] = n
      BY <1>7, <3>1, Fields
    <3>3. \A l \in 1 .. Len(u) : l \in 1 .. k - 1 /\ w[l] = u[l]
      BY <1>8, <1>9, <3>1
    <3>4. \A l \in 1 .. k - 1 : l \in 1 .. Len(w)
      BY <1>8
    <3>5. \A l \in 1 .. k - 1 : Advice(w[l]) => c.adv[w[l].j] <= c.chal[w[k].j]
      BY <1>17, <3>2, <3>4
    <3>6. ASSUME NEW i \in Proofs, NEW col \in DOMAIN c.adv, c.adv[col] <= c.chal[w[k].j]
          PROVE  \E l \in 1 .. k - 1 : At(w, i, col, l)
      <4>1. PICK l \in 1 .. Len(u) : At(u, i, col, l)
        BY <1>15, <3>2, <3>6
      <4> QED BY <3>3, <4>1 DEF At
    <3> QED BY <3>5, <3>6
  <2>3. \/ k \in 1 .. Len(u) /\ w[k] = u[k]
        \/ \E j \in 1 .. Len(q) : k = Len(u) + j /\ w[k] = q[j]
    <3>1. k \in 1 .. Len(u \o q) /\ List(u) /\ List(q)
      BY <1>4, <1>7, <1>8
    <3>2. \/ k \in 1 .. Len(u) /\ (u \o q)[k] = u[k]
          \/ \E j \in 1 .. Len(q) : k = Len(u) + j /\ (u \o q)[k] = q[j]
      BY <3>1, ConcatPlace
    <3> QED BY <1>4, <3>2
  <2> QED BY <2>1, <2>2, <2>3
<1>19. Follows(w)
  BY <1>18 DEF Follows
<1>20. UpToPhase(w, n + 1)
  <2>1. ASSUME NEW l \in 1 .. Len(w), Advice(w[l])
        PROVE  w[l].j \in DOMAIN c.adv /\ c.adv[w[l].j] <= n + 1
    BY <1>14, <1>17, <2>1
  <2>2. ASSUME NEW i \in Proofs, NEW col \in DOMAIN c.adv, c.adv[col] < n + 1
        PROVE  \E l \in 1 .. Len(w) : At(w, i, col, l)
    <3>1. PICK l \in 1 .. Len(u) : At(u, i, col, l)
      BY <1>14, <1>15, <2>2
    <3> QED BY <1>9, <3>1 DEF At
  <2> QED BY <2>1, <2>2 DEF UpToPhase
<1> QED BY <1>1, <1>2, <1>3, <1>4, <1>19, <1>20

(* Whatever is filled by the call is written by it. *)
LEMMA HeldCommit ==
  ASSUME NEW t, List(t), NEW s, List(s), NEW a, Held(t, a), NEW b,
         \A i \in Proofs : \A col \in DOMAIN c.adv : b[i][col] # 0 =>
           \/ b[i][col] = a[i][col]
           \/ \E x \in 1 .. Len(s) : s[x] = Element("point", "advice", i, col, 0, b[i][col])
  PROVE  Held(t \o s, b)
<1>1. PICK u : u = t \o s
  OBVIOUS
<1>2. /\ Len(t) \in Nat /\ Len(s) \in Nat /\ Len(u) = Len(t) + Len(s)
      /\ \A k \in 1 .. Len(t) : u[k] = t[k] /\ k \in 1 .. Len(u)
      /\ \A j \in 1 .. Len(s) : u[Len(t) + j] = s[j] /\ Len(t) + j \in 1 .. Len(u)
  BY <1>1, ListConcat, ListDomain
<1>3. ASSUME NEW i \in Proofs, NEW col \in DOMAIN c.adv, b[i][col] # 0
      PROVE  \E k \in 1 .. Len(u) : HeldAt(u, b, i, col, k)
  <2>1. CASE b[i][col] = a[i][col]
    <3>1. PICK k \in 1 .. Len(t) : HeldAt(t, a, i, col, k)
      BY <1>3, <2>1 DEF Held
    <3>2. HeldAt(u, b, i, col, k) /\ k \in 1 .. Len(u)
      BY <1>2, <2>1, <3>1 DEF HeldAt, At
    <3> QED BY <3>2
  <2>2. CASE \E x \in 1 .. Len(s) : s[x] = Element("point", "advice", i, col, 0, b[i][col])
    <3>1. PICK x \in 1 .. Len(s) : s[x] = Element("point", "advice", i, col, 0, b[i][col])
      BY <2>2
    <3>2. Len(t) + x \in 1 .. Len(u) /\ u[Len(t) + x] = Element("point", "advice", i, col, 0, b[i][col])
      BY <1>2, <3>1
    <3>3. HeldAt(u, b, i, col, Len(t) + x)
      BY <3>2 DEF HeldAt, At, Advice, Element
    <3> QED BY <3>2, <3>3
  <2> QED BY <1>3, <2>1, <2>2
<1> QED BY <1>1, <1>3 DEF Held

-----------------------------------------------------------------------------
Sealing   == {"permutations", "lookup products", "shuffles", "vanishing", "advice polys"}
Answering == {"h", "advice evals", "fixed evals", "permutation evals", "lookup evals",
              "shuffle evals", "open", "proved"}

ProverTypes ==
  /\ input \in Inputs
  /\ next \in 1 .. Len(vk.phases) + 1
  /\ attempt \in 0 .. MaxAttempts /\ torn \in BOOLEAN
  /\ \A i \in Proofs : advices[i] \in [DOMAIN c.adv -> 0 .. attempt]

ProverLists ==
  /\ List(tp) /\ List(proof)
  /\ \A k \in 1 .. Len(proof) : proof[k].kind \in {"point", "scalar"}

Ordered ==
  /\ Follows(tp)
  /\ pc = "new" => next = 1
  /\ pc = "phases" => UpToPhase(tp, next - 1)

Kept ==
  /\ Held(tp, advices)
  /\ pc = "new" => \A i \in Proofs : \A col \in DOMAIN c.adv : advices[i][col] = 0
  /\ pc \in Sealing \cup Answering => Sealed(tp, advices)
  /\ pc \in Answering => Committed

ProverInv == ProverTypes /\ ProverLists /\ Ordered /\ Kept

LEMMA SameSession ==
  ASSUME input' = input PROVE c' = c /\ vk' = vk /\ Proofs' = Proofs
BY DEF c, vk, Proofs

(* Nothing of what the invariant says of a transcript but the session's    *)
(* input, which no step changes.                                           *)
LEMMA SameWords ==
  ASSUME input' = input
  PROVE  /\ Follows(tp') => Follows(tp)'
         /\ \A n : UpToPhase(tp', n) => (n = next' - 1 => UpToPhase(tp, next - 1)')
         /\ Held(tp', advices') => Held(tp, advices)'
         /\ Sealed(tp', advices') => Sealed(tp, advices)'
<1>1. c' = c /\ Proofs' = Proofs
  BY SameSession
<1>2. Follows(tp') => Follows(tp)'
  BY <1>1 DEF Follows, At, Advice
<1>3. \A n : UpToPhase(tp', n) => (n = next' - 1 => UpToPhase(tp, next - 1)')
  BY <1>1 DEF UpToPhase, At, Advice
<1>4. Held(tp', advices') => Held(tp, advices)'
  BY <1>1 DEF Held, HeldAt, At, Advice
<1>5. Sealed(tp', advices') => Sealed(tp, advices)'
  BY <1>1 DEF Sealed, HeldAt, ThetaAfter, At, Advice
<1> QED BY <1>2, <1>3, <1>4, <1>5

LEMMA InitProver == ASSUME Init PROVE ProverInv
<1>1. input \in Inputs /\ pc = "new" /\ next = 1 /\ attempt = 0 /\ torn = FALSE /\ tp = << >> /\ proof = << >>
  BY DEF Init
<1>2. \A i \in Proofs : advices[i] = [col \in DOMAIN c.adv |-> 0]
  BY DEF Init
<1>3. List(<< >>) /\ Len(<< >>) = 0
  BY NoItems
<1>4. ProverTypes
  <2>1. Len(vk.phases) \in Nat /\ 1 \in 1 .. Len(vk.phases) + 1
    <3>1. PICK top \in Nat : vk.phases = [i \in 1 .. top + 1 |-> i - 1]
      BY <1>1, TheKey
    <3>2. PICK ph : ph = vk.phases
      OBVIOUS
    <3>3. Len(ph) = top + 1
      BY <3>1, <3>2, ListOf
    <3> QED BY <3>2, <3>3
  <2>2. \A i \in Proofs : advices[i] \in [DOMAIN c.adv -> 0 .. attempt]
    BY <1>1, <1>2
  <2>3. attempt \in 0 .. MaxAttempts
    BY <1>1, AttemptsAssumption
  <2>4. torn \in BOOLEAN
    BY <1>1
  <2> QED BY <1>1, <2>1, <2>2, <2>3, <2>4 DEF ProverTypes
<1>5. ProverLists
  BY <1>1, <1>3 DEF ProverLists
<1>6. Ordered
  BY <1>1, <1>3 DEF Ordered, Follows
<1>7. Kept
  <2>1. \A i \in Proofs : \A col \in DOMAIN c.adv : advices[i][col] = 0
    BY <1>2
  <2> QED BY <1>1, <2>1 DEF Kept, Held, Sealing, Answering
<1> QED BY <1>4, <1>5, <1>6, <1>7 DEF ProverInv

LEMMA ProverRests ==
  ASSUME ProverInv, UNCHANGED <<input, next, advices, attempt, torn, tp, proof>>,
         pc' = pc \/ pc' = "failed"
  PROVE  ProverInv'
<1>1. /\ input' = input /\ next' = next /\ advices' = advices /\ attempt' = attempt
      /\ torn' = torn /\ tp' = tp /\ proof' = proof /\ c' = c /\ Proofs' = Proofs /\ vk' = vk
  BY SameSession
<1>2. ProverTypes'
  BY <1>1 DEF ProverInv, ProverTypes
<1>3. ProverLists'
  BY <1>1 DEF ProverInv, ProverLists
<1>4. Ordered'
  <2>1. Follows(tp) /\ (pc = "phases" => UpToPhase(tp, next - 1)) /\ (pc = "new" => next = 1)
    BY DEF ProverInv, Ordered
  <2>2. Follows(tp)'
    BY <1>1, <2>1, SameWords
  <2>3. pc' = "phases" => UpToPhase(tp, next - 1)'
    BY <1>1, <2>1, SameWords
  <2> QED BY <1>1, <2>1, <2>2, <2>3 DEF Ordered
<1>5. Kept'
  <2>1. /\ Held(tp, advices)
        /\ pc = "new" => \A i \in Proofs : \A col \in DOMAIN c.adv : advices[i][col] = 0
        /\ pc \in Sealing \cup Answering => Sealed(tp, advices)
        /\ pc \in Answering => Committed
    BY DEF ProverInv, Kept
  <2>2. Held(tp, advices)'
    BY <1>1, <2>1, SameWords
  <2>3. pc' \in Sealing \cup Answering => pc \in Sealing \cup Answering
    BY DEF Sealing, Answering
  <2>4. pc' \in Answering => pc \in Answering
    BY DEF Answering
  <2>5. pc' \in Sealing \cup Answering => Sealed(tp, advices)'
    BY <1>1, <2>1, <2>3, SameWords
  <2>6. pc' \in Answering => Committed'
    BY <1>1, <2>1, <2>4 DEF Committed
  <2>7. pc' = "new" => \A i \in Proofs' : \A col \in DOMAIN c'.adv : advices'[i][col] = 0
    BY <1>1, <2>1
  <2> QED BY <2>2, <2>5, <2>6, <2>7 DEF Kept, Sealing, Answering
<1> QED BY <1>2, <1>3, <1>4, <1>5 DEF ProverInv

-----------------------------------------------------------------------------
(***************************************************************************)
(* The prover's steps.                                                     *)
(***************************************************************************)
LEMMA ThePhase ==
  ASSUME input \in Inputs, next \in 1 .. Len(vk.phases)
  PROVE  next \in Nat /\ Phase = next - 1 /\ Len(vk.phases) \in Nat
<1>1. PICK top \in Nat : vk.phases = [i \in 1 .. top + 1 |-> i - 1]
  BY TheKey
<1>2. PICK ph : ph = vk.phases
  OBVIOUS
<1>3. Len(ph) = top + 1
  BY <1>1, <1>2, ListOf
<1> QED BY <1>1, <1>2, <1>3 DEF Phase

LEMMA NewKeeps == ASSUME ProverInv, New PROVE ProverInv'
<1>1. /\ pc = "new" /\ pc' = "phases" /\ tp' = <<Key>> \o InstanceValues(0)
      /\ input' = input /\ next' = next /\ advices' = advices /\ attempt' = attempt
      /\ torn' = torn /\ proof' = proof
  BY DEF New
<1>2. c' = c /\ Proofs' = Proofs /\ vk' = vk
  BY <1>1, SameSession
<1>3. input \in Inputs /\ next = 1
  BY <1>1 DEF ProverInv, ProverTypes, Ordered
<1>4. PICK s : s = InstanceValues(0)
  OBVIOUS
<1>5. List(s) /\ \A k \in 1 .. Len(s) : s[k].of = "instance"
  BY <1>3, <1>4, InstanceValuesIs DEF Values, Value
<1>6. List(<<Key>>) /\ Len(<<Key>>) = 1 /\ <<Key>>[1] = Key /\ Key.of = "key"
  BY OneItem DEF Key, Element
<1>7. PICK u : u = tp'
  OBVIOUS
<1>8. PICK k1 : k1 = <<Key>>
  OBVIOUS
<1>9. u = k1 \o s /\ List(k1) /\ \A k \in 1 .. Len(k1) : k1[k].of = "key"
  BY <1>1, <1>4, <1>6, <1>7, <1>8
<1>10. List(u)
  BY <1>5, <1>9, ListConcat
<1>11. \A k \in 1 .. Len(u) : u[k].of \in {"key", "instance"}
  <2> SUFFICES ASSUME NEW k \in 1 .. Len(u) PROVE u[k].of \in {"key", "instance"}
    OBVIOUS
  <2>1. k \in 1 .. Len(k1 \o s) /\ List(k1) /\ List(s)
    BY <1>5, <1>9
  <2>2. \/ k \in 1 .. Len(k1) /\ (k1 \o s)[k] = k1[k]
        \/ \E j \in 1 .. Len(s) : k = Len(k1) + j /\ (k1 \o s)[k] = s[j]
    BY <2>1, ConcatPlace
  <2> QED BY <1>5, <1>9, <2>2
<1>12. Follows(u)
  BY <1>11 DEF Follows
<1>13. UpToPhase(u, 0)
  <2>1. \A l \in 1 .. Len(u) : ~Advice(u[l])
    BY <1>11 DEF Advice
  <2>2. \A col \in DOMAIN c.adv : ~(c.adv[col] < 0)
    BY <1>3, TheLists
  <2> QED BY <2>1, <2>2 DEF UpToPhase
<1>14. \A i \in Proofs : \A col \in DOMAIN c.adv : advices[i][col] = 0
  BY <1>1 DEF ProverInv, Kept
<1>15. Held(u, advices)
  BY <1>14 DEF Held
<1>16. ProverTypes'
  BY <1>1, <1>2 DEF ProverInv, ProverTypes
<1>17. ProverLists'
  BY <1>1, <1>7, <1>10 DEF ProverInv, ProverLists
<1>18. Ordered'
  <2>1. Follows(tp)'
    BY <1>1, <1>7, <1>12, SameWords
  <2>2. UpToPhase(tp, next - 1)'
    <3>1. 0 = next' - 1
      BY <1>1, <1>3
    <3> QED BY <1>1, <1>7, <1>13, <3>1, SameWords
  <2> QED BY <1>1, <2>1, <2>2 DEF Ordered
<1>19. Kept'
  <2>1. Held(tp, advices)'
    BY <1>1, <1>7, <1>15, SameWords
  <2> QED BY <1>1, <2>1 DEF Kept, Sealing, Answering
<1> QED BY <1>16, <1>17, <1>18, <1>19 DEF ProverInv

LEMMA WriteKeeps ==
  ASSUME ProverInv, NEW from, NEW to, NEW items, Plain(items), Write(from, to, items),
         to \in Sealing \cup Answering,
         from \in Sealing \cup Answering \/ \E j \in 1 .. Len(items) : items[j].of = "theta",
         to \in Answering => from \in Answering
  PROVE  ProverInv'
<1>1. /\ pc = from /\ pc' = to /\ tp' = tp \o items /\ proof' = proof \o Sent(items)
      /\ input' = input /\ next' = next /\ advices' = advices /\ attempt' = attempt
      /\ torn' = torn
  BY DEF Write
<1>2. c' = c /\ Proofs' = Proofs /\ vk' = vk
  BY <1>1, SameSession
<1>3. List(tp) /\ Follows(tp) /\ Held(tp, advices) /\ List(items)
  BY DEF ProverInv, ProverLists, Ordered, Kept, Plain
<1>4. ProverTypes'
  BY <1>1, <1>2 DEF ProverInv, ProverTypes
<1>5. ProverLists'
  <2>1. PICK s : s = Sent(items)
    OBVIOUS
  <2>2. List(s) /\ \A k \in 1 .. Len(s) : s[k].kind \in {"point", "scalar"}
    BY <1>3, <2>1, SentIs
  <2>3. List(proof) /\ \A k \in 1 .. Len(proof) : proof[k].kind \in {"point", "scalar"}
    BY DEF ProverInv, ProverLists
  <2>4. List(proof') /\ List(tp')
    BY <1>1, <1>3, <2>1, <2>2, <2>3, ListConcat
  <2>5. ASSUME NEW k \in 1 .. Len(proof') PROVE proof'[k].kind \in {"point", "scalar"}
    <3>1. k \in 1 .. Len(proof \o s)
      BY <1>1, <2>1
    <3>2. \/ k \in 1 .. Len(proof) /\ (proof \o s)[k] = proof[k]
          \/ \E j \in 1 .. Len(s) : k = Len(proof) + j /\ (proof \o s)[k] = s[j]
      BY <2>2, <2>3, <3>1, ConcatPlace
    <3>3. proof'[k] = (proof \o s)[k]
      BY <1>1, <2>1
    <3> QED BY <2>2, <2>3, <3>2, <3>3
  <2> QED BY <2>4, <2>5 DEF ProverLists
<1>6. Ordered'
  <2>1. Follows(tp \o items)
    BY <1>3, FollowsMore
  <2>2. Follows(tp)'
    BY <1>1, <2>1, SameWords
  <2> QED BY <1>1, <2>2 DEF Ordered, Sealing, Answering
<1>7. Kept'
  <2>1. Held(tp \o items, advices)
    BY <1>3, HeldMore
  <2>2. Sealed(tp \o items, advices)
    <3>1. CASE from \in Sealing \cup Answering
      <4>1. Sealed(tp, advices)
        BY <1>1, <3>1 DEF ProverInv, Kept
      <4> QED BY <1>3, <4>1, HeldMore
    <3>2. CASE \E j \in 1 .. Len(items) : items[j].of = "theta"
      BY <1>3, <3>2, HeldMore
    <3> QED BY <3>1, <3>2
  <2>3. Held(tp, advices)' /\ Sealed(tp, advices)'
    BY <1>1, <2>1, <2>2, SameWords
  <2>4. to \in Answering => Committed'
    BY <1>1, <1>2 DEF ProverInv, Kept, Committed
  <2>5. to # "new"
    BY DEF Sealing, Answering
  <2> QED BY <1>1, <2>3, <2>4, <2>5 DEF Kept
<1> QED BY <1>4, <1>5, <1>6, <1>7 DEF ProverInv

LEMMA GenAdvicePolysKeeps == ASSUME ProverInv, GenAdvicePolys PROVE ProverInv'
<1>1. /\ pc = "advice polys" /\ Committed /\ pc' = "h"
      /\ input' = input /\ next' = next /\ advices' = advices /\ attempt' = attempt
      /\ torn' = torn /\ tp' = tp /\ proof' = proof
  BY DEF GenAdvicePolys
<1>2. c' = c /\ Proofs' = Proofs /\ vk' = vk
  BY <1>1, SameSession
<1>3. Follows(tp) /\ Held(tp, advices) /\ Sealed(tp, advices)
  BY <1>1 DEF ProverInv, Ordered, Kept, Sealing
<1>4. Follows(tp)' /\ Held(tp, advices)' /\ Sealed(tp, advices)'
  BY <1>1, <1>3, SameWords
<1>5. ProverTypes'
  BY <1>1, <1>2 DEF ProverInv, ProverTypes
<1>6. ProverLists'
  BY <1>1 DEF ProverInv, ProverLists
<1>7. Ordered'
  BY <1>1, <1>4 DEF Ordered
<1>8. Kept'
  <2>1. Committed'
    BY <1>1, <1>2 DEF Committed
  <2> QED BY <1>1, <1>4, <2>1 DEF Kept
<1> QED BY <1>5, <1>6, <1>7, <1>8 DEF ProverInv

(* A commitment is a point: all of a call's go into the proof. *)
LEMMA PointsSent ==
  ASSUME NEW f, List(f), \A k \in 1 .. Len(f) : f[k].kind \in {"point", "scalar"}, NEW s, List(s),
         \A k \in 1 .. Len(s) : \E i, v : IsCommitment(s[k], i, v)
  PROVE  List(f \o s) /\ \A k \in 1 .. Len(f \o s) : (f \o s)[k].kind \in {"point", "scalar"}
<1>1. PICK u : u = f \o s
  OBVIOUS
<1>2. List(u)
  BY <1>1, ListConcat
<1>3. ASSUME NEW k \in 1 .. Len(u) PROVE u[k].kind \in {"point", "scalar"}
  <2>1. k \in 1 .. Len(f \o s)
    BY <1>1
  <2>2. \/ k \in 1 .. Len(f) /\ (f \o s)[k] = f[k]
        \/ \E j \in 1 .. Len(s) : k = Len(f) + j /\ (f \o s)[k] = s[j]
    BY <2>1, ConcatPlace
  <2>3. \A j \in 1 .. Len(s) : s[j].kind = "point"
    BY CommitmentIsAdvice
  <2> QED BY <1>1, <2>2, <2>3
<1> QED BY <1>1, <1>2, <1>3

LEMMA CommitPhaseKeeps == ASSUME ProverInv, CommitPhase PROVE ProverInv'
<1>1. PICK m : m \in Nat /\ Proofs = 1 .. m
  BY TheCircuit DEF ProverInv, ProverTypes
<1>2. PICK v : v = attempt + 1
  OBVIOUS
<1>3. PICK p : p = CommitmentsUpTo(m, v)
  OBVIOUS
<1>4. p = ForEachCircuit(LAMBDA i : AdviceCommitments(i, attempt + 1))
  BY <1>1, <1>2, <1>3 DEF CommitmentsUpTo, ForEachCircuit, ForEach
<1>5. /\ pc = "phases" /\ next <= Len(vk.phases) /\ attempt < MaxAttempts
      /\ tp' = tp \o p \o PhaseChallenges /\ proof' = proof \o p
      /\ advices' = [i \in Proofs |-> [col \in DOMAIN c.adv |->
                       IF c.adv[col] = Phase THEN v ELSE advices[i][col]]]
      /\ attempt' = v /\ next' = next + 1
      /\ input' = input /\ pc' = pc /\ torn' = torn
  BY <1>2, <1>4 DEF CommitPhase
<1>6. c' = c /\ Proofs' = Proofs /\ vk' = vk
  BY <1>5, SameSession
<1>7. /\ input \in Inputs /\ attempt \in 0 .. MaxAttempts
      /\ \A i \in Proofs : advices[i] \in [DOMAIN c.adv -> 0 .. attempt]
      /\ next \in 1 .. Len(vk.phases) + 1 /\ torn \in BOOLEAN
  BY DEF ProverInv, ProverTypes
<1>8. next \in Nat /\ Phase = next - 1 /\ next + 1 \in 1 .. Len(vk.phases) + 1 /\ next - 1 \in Nat
  <2>1. PICK l : l = Len(vk.phases)
    OBVIOUS
  <2>2. l \in Nat
    <3>1. PICK top \in Nat : vk.phases = [i \in 1 .. top + 1 |-> i - 1]
      BY <1>7, TheKey
    <3>2. PICK ph : ph = vk.phases
      OBVIOUS
    <3>3. Len(ph) = top + 1
      BY <3>1, <3>2, ListOf
    <3> QED BY <2>1, <3>2, <3>3
  <2>3. next \in 1 .. l
    BY <1>5, <1>7, <2>1, <2>2
  <2>4. next \in Nat /\ Phase = next - 1
    BY <1>7, <2>1, <2>3, ThePhase
  <2> QED BY <2>1, <2>2, <2>3, <2>4
<1>9. List(tp) /\ Follows(tp) /\ UpToPhase(tp, next - 1) /\ Held(tp, advices)
  BY <1>5 DEF ProverInv, ProverLists, Ordered, Kept
<1>10. List(p) /\ \A x \in 1 .. Len(p) : \E i \in 1 .. m : IsCommitment(p[x], i, v)
  BY <1>1, <1>3, <1>7, CommitmentsUpToIs
<1>11. List(PhaseChallenges)
  BY <1>7, PhaseChallengesIs
<1>12. PICK u : u = tp \o p
  OBVIOUS
<1>13. tp' = u \o PhaseChallenges /\ List(u)
  BY <1>5, <1>9, <1>10, <1>12, ListConcat
<1>14. attempt \in Nat /\ v \in Nat /\ v \in 0 .. MaxAttempts /\ \A x \in 0 .. attempt : x \in 0 .. v
  BY <1>2, <1>5, <1>7, AttemptsAssumption
<1>15. ProverTypes'
  <2>1. ASSUME NEW i \in Proofs PROVE advices'[i] \in [DOMAIN c.adv -> 0 .. v]
    <3>1. \A col \in DOMAIN c.adv : advices[i][col] \in 0 .. v
      BY <1>7, <1>14
    <3>2. v \in 0 .. v
      BY <1>14
    <3> QED BY <1>5, <3>1, <3>2
  <2>2. next' \in 1 .. Len(vk'.phases) + 1
    BY <1>5, <1>6, <1>8
  <2>3. attempt' \in 0 .. MaxAttempts /\ input' \in Inputs
    BY <1>5, <1>7, <1>14
  <2>4. torn' \in BOOLEAN
    BY <1>5, <1>7
  <2>5. \A i \in Proofs' : advices'[i] \in [DOMAIN c'.adv -> 0 .. attempt']
    BY <1>5, <1>6, <2>1
  <2>6. Inputs' = Inputs
    BY DEF Inputs
  <2> QED BY <2>2, <2>3, <2>4, <2>5, <2>6 DEF ProverTypes
<1>16. ProverLists'
  <2>1. List(tp')
    BY <1>11, <1>13, ListConcat
  <2>2. List(proof) /\ \A k \in 1 .. Len(proof) : proof[k].kind \in {"point", "scalar"}
    BY DEF ProverInv, ProverLists
  <2>3. PICK w : w = proof \o p
    OBVIOUS
  <2>4. List(w) /\ \A k \in 1 .. Len(w) : w[k].kind \in {"point", "scalar"}
    BY <1>10, <2>2, <2>3, PointsSent
  <2>5. proof' = w
    BY <1>5, <2>3
  <2> QED BY <2>1, <2>4, <2>5 DEF ProverLists
<1>17. Ordered'
  <2>1. /\ Follows((tp \o CommitmentsUpTo(m, v)) \o PhaseChallenges)
        /\ UpToPhase((tp \o CommitmentsUpTo(m, v)) \o PhaseChallenges, (next - 1) + 1)
    BY <1>1, <1>7, <1>8, <1>9, PhaseFollows
  <2>2. (next - 1) + 1 = next /\ next = next' - 1
    BY <1>5, <1>8
  <2>3. Follows(tp') /\ UpToPhase(tp', next)
    BY <1>3, <1>12, <1>13, <2>1, <2>2
  <2>4. Follows(tp)' /\ UpToPhase(tp, next - 1)'
    BY <1>5, <2>2, <2>3, SameWords
  <2> QED BY <1>5, <2>4 DEF Ordered
<1>18. Kept'
  <2>1. PICK b : b = advices'
    OBVIOUS
  <2>2. ASSUME NEW i \in Proofs, NEW col \in DOMAIN c.adv, b[i][col] # 0
        PROVE  \/ b[i][col] = advices[i][col]
               \/ \E x \in 1 .. Len(p) : p[x] = Element("point", "advice", i, col, 0, b[i][col])
    <3>1. b[i][col] = IF c.adv[col] = Phase THEN v ELSE advices[i][col]
      BY <1>5, <2>1
    <3>2. CASE c.adv[col] = Phase
      <4>1. \E x \in 1 .. Len(p) : p[x] = Element("point", "advice", i, col, 0, v)
        BY <1>1, <1>3, <1>7, <3>2, CommitmentsUpToIs
      <4> QED BY <3>1, <3>2, <4>1
    <3> QED BY <3>1, <3>2
  <2>3. Held(u, b)
    BY <1>9, <1>10, <1>12, <2>2, HeldCommit
  <2>4. Held(u \o PhaseChallenges, b)
    BY <1>11, <1>13, <2>3, HeldMore
  <2>5. Held(tp, advices)'
    BY <1>5, <1>13, <2>1, <2>4, SameWords
  <2> QED BY <1>5, <2>5 DEF Kept, Sealing, Answering
<1> QED BY <1>15, <1>16, <1>17, <1>18 DEF ProverInv

(* The points of an interrupted call are of the phase too, and the columns *)
(* of the circuits it got through are filled.                              *)
LEMMA TornKeeps ==
  ASSUME ProverInv, NEW i \in Proofs, NEW col \in DOMAIN c.adv, TornCommitPhase(i, col)
  PROVE  ProverInv'
<1>1. PICK m : m \in Nat /\ Proofs = 1 .. m
  BY TheCircuit DEF ProverInv, ProverTypes
<1>2. PICK v : v = attempt + 1
  OBVIOUS
<1>3. i - 1 \in Nat
  BY <1>1
<1>4. PICK a : a = CommitmentsUpTo(i - 1, v)
  OBVIOUS
<1>5. PICK b : b = CommitmentsBefore(i, col, v)
  OBVIOUS
<1>6. PICK p : p = a \o b
  OBVIOUS
<1>7. p = ForEach(1 .. i - 1, LAMBDA k : AdviceCommitments(k, attempt + 1)) \o CommitmentsBefore(i, col, attempt + 1)
  BY <1>2, <1>4, <1>5, <1>6 DEF CommitmentsUpTo, ForEach
<1>8. /\ pc = "phases" /\ next <= Len(vk.phases) /\ attempt < MaxAttempts
      /\ tp' = tp \o p \o Hashed /\ proof' = proof \o p
      /\ advices' = [k \in Proofs |-> [l \in DOMAIN c.adv |->
                       IF k < i /\ c.adv[l] = Phase THEN v ELSE advices[k][l]]]
      /\ attempt' = v /\ torn' = TRUE
      /\ input' = input /\ pc' = pc /\ next' = next
  BY <1>2, <1>7 DEF TornCommitPhase
<1>9. c' = c /\ Proofs' = Proofs /\ vk' = vk
  BY <1>8, SameSession
<1>10. /\ input \in Inputs /\ attempt \in 0 .. MaxAttempts
       /\ \A k \in Proofs : advices[k] \in [DOMAIN c.adv -> 0 .. attempt]
       /\ next \in 1 .. Len(vk.phases) + 1
  BY DEF ProverInv, ProverTypes
<1>11. next \in Nat /\ Phase = next - 1
  <2>1. PICK l : l = Len(vk.phases)
    OBVIOUS
  <2>2. l \in Nat
    <3>1. PICK top \in Nat : vk.phases = [k \in 1 .. top + 1 |-> k - 1]
      BY <1>10, TheKey
    <3>2. PICK ph : ph = vk.phases
      OBVIOUS
    <3>3. Len(ph) = top + 1
      BY <3>1, <3>2, ListOf
    <3> QED BY <2>1, <3>2, <3>3
  <2>3. next \in 1 .. l
    BY <1>8, <1>10, <2>1, <2>2
  <2> QED BY <1>10, <2>1, <2>3, ThePhase
<1>12. List(tp) /\ Follows(tp) /\ UpToPhase(tp, next - 1) /\ Held(tp, advices)
  BY <1>8 DEF ProverInv, ProverLists, Ordered, Kept
<1>13. List(a) /\ \A x \in 1 .. Len(a) : \E k \in 1 .. i - 1 : IsCommitment(a[x], k, v)
  BY <1>3, <1>4, <1>10, CommitmentsUpToIs
<1>14. List(b) /\ \A x \in 1 .. Len(b) : IsCommitment(b[x], i, v)
  BY <1>5, <1>10, CommitmentsBeforeIs
<1>15. List(p) /\ Len(p) = Len(a) + Len(b) /\ \A x \in 1 .. Len(a) : p[x] = a[x] /\ x \in 1 .. Len(p)
  <2>1. List(p) /\ Len(p) = Len(a) + Len(b) /\ \A x \in 1 .. Len(a) : p[x] = a[x]
    BY <1>6, <1>13, <1>14, ListConcat
  <2>2. Len(a) \in Nat /\ Len(b) \in Nat
    BY <1>13, <1>14, ListDomain
  <2> QED BY <2>1, <2>2
<1>16. \A x \in 1 .. Len(p) : \E k : IsCommitment(p[x], k, v)
  <2> SUFFICES ASSUME NEW x \in 1 .. Len(p) PROVE \E k : IsCommitment(p[x], k, v)
    OBVIOUS
  <2>1. x \in 1 .. Len(a \o b)
    BY <1>6
  <2>2. \/ x \in 1 .. Len(a) /\ (a \o b)[x] = a[x]
        \/ \E j \in 1 .. Len(b) : x = Len(a) + j /\ (a \o b)[x] = b[j]
    BY <1>13, <1>14, <2>1, ConcatPlace
  <2> QED BY <1>6, <1>13, <1>14, <2>2
<1>17. List(Hashed) /\ Plain(Hashed) /\ \A k \in 1 .. Len(Hashed) : ~Advice(Hashed[k])
  <2>1. PICK e : e = Prefix
    OBVIOUS
  <2>2. e.of = "point" /\ Hashed = <<e>>
    BY <2>1 DEF Prefix, Element, Hashed
  <2>3. List(<<e>>) /\ Len(<<e>>) = 1 /\ <<e>>[1] = e
    BY OneItem
  <2> QED BY <2>2, <2>3 DEF Plain, Advice
<1>18. PICK u : u = tp \o p
  OBVIOUS
<1>19. tp' = u \o Hashed /\ List(u)
  BY <1>8, <1>12, <1>15, <1>18, ListConcat
<1>20. attempt \in Nat /\ v \in Nat /\ v \in 0 .. MaxAttempts /\ \A x \in 0 .. attempt : x \in 0 .. v
  BY <1>2, <1>8, <1>10, AttemptsAssumption
<1>21. ProverTypes'
  <2>1. ASSUME NEW k \in Proofs PROVE advices'[k] \in [DOMAIN c.adv -> 0 .. v]
    <3>1. \A l \in DOMAIN c.adv : advices[k][l] \in 0 .. v
      BY <1>10, <1>20
    <3>2. v \in 0 .. v
      BY <1>20
    <3> QED BY <1>8, <3>1, <3>2
  <2>2. next' \in 1 .. Len(vk'.phases) + 1
    BY <1>8, <1>9, <1>10
  <2>3. attempt' \in 0 .. MaxAttempts /\ input' \in Inputs
    BY <1>8, <1>10, <1>20
  <2>4. torn' \in BOOLEAN
    BY <1>8
  <2>5. \A k \in Proofs' : advices'[k] \in [DOMAIN c'.adv -> 0 .. attempt']
    BY <1>8, <1>9, <2>1
  <2>6. Inputs' = Inputs
    BY DEF Inputs
  <2> QED BY <2>2, <2>3, <2>4, <2>5, <2>6 DEF ProverTypes
<1>22. ProverLists'
  <2>1. List(tp')
    BY <1>17, <1>19, ListConcat
  <2>2. List(proof) /\ \A k \in 1 .. Len(proof) : proof[k].kind \in {"point", "scalar"}
    BY DEF ProverInv, ProverLists
  <2>3. PICK w : w = proof \o p
    OBVIOUS
  <2>4. List(w) /\ \A k \in 1 .. Len(w) : w[k].kind \in {"point", "scalar"}
    BY <1>15, <1>16, <2>2, <2>3, PointsSent
  <2>5. proof' = w
    BY <1>8, <2>3
  <2> QED BY <2>1, <2>4, <2>5 DEF ProverLists
<1>23. Ordered'
  <2>1. Plain(p)
    BY <1>15, <1>16, CommitmentIsAdvice DEF Plain
  <2>2. Follows(u)
    BY <1>12, <1>18, <2>1, FollowsMore
  <2>3. Follows(u \o Hashed)
    BY <1>17, <1>19, <2>2, FollowsMore
  <2>4. \A x \in 1 .. Len(p) : Advice(p[x]) => p[x].j \in DOMAIN c.adv /\ c.adv[p[x].j] <= next - 1
    <3>1. \A x \in 1 .. Len(p) : p[x].j \in DOMAIN c.adv /\ c.adv[p[x].j] = next - 1
      BY <1>11, <1>16, CommitmentIsAdvice
    <3> QED BY <1>11, <3>1
  <2>5. UpToPhase(u, next - 1)
    BY <1>12, <1>15, <1>18, <2>4, UpToPhaseMore
  <2>6. UpToPhase(u \o Hashed, next - 1)
    BY <1>17, <1>19, <2>5, UpToPhaseMore
  <2>7. next - 1 = next' - 1
    BY <1>8
  <2>8. Follows(tp)' /\ UpToPhase(tp, next - 1)'
    BY <1>8, <1>19, <2>3, <2>6, <2>7, SameWords
  <2> QED BY <1>8, <2>8 DEF Ordered
<1>24. Kept'
  <2>1. PICK d : d = advices'
    OBVIOUS
  <2>2. ASSUME NEW k \in Proofs, NEW l \in DOMAIN c.adv, d[k][l] # 0
        PROVE  \/ d[k][l] = advices[k][l]
               \/ \E x \in 1 .. Len(p) : p[x] = Element("point", "advice", k, l, 0, d[k][l])
    <3>1. d[k][l] = IF k < i /\ c.adv[l] = Phase THEN v ELSE advices[k][l]
      BY <1>8, <2>1
    <3>2. CASE k < i /\ c.adv[l] = Phase
      <4>1. k \in 1 .. i - 1
        BY <1>1, <3>2
      <4>2. PICK x \in 1 .. Len(a) : a[x] = Element("point", "advice", k, l, 0, v)
        BY <1>3, <1>4, <1>10, <3>2, <4>1, CommitmentsUpToIs
      <4>3. x \in 1 .. Len(p) /\ p[x] = Element("point", "advice", k, l, 0, v)
        BY <1>15, <4>2
      <4> QED BY <3>1, <3>2, <4>3
    <3> QED BY <3>1, <3>2
  <2>3. Held(u, d)
    BY <1>12, <1>15, <1>18, <2>2, HeldCommit
  <2>4. Held(u \o Hashed, d)
    BY <1>17, <1>19, <2>3, HeldMore
  <2>5. Held(tp, advices)'
    BY <1>8, <1>19, <2>1, <2>4, SameWords
  <2> QED BY <1>8, <2>5 DEF Kept, Sealing, Answering
<1> QED BY <1>21, <1>22, <1>23, <1>24 DEF ProverInv

LEMMA GenPermutedLookupsKeeps == ASSUME ProverInv, GenPermutedLookups PROVE ProverInv'
<1>1. PICK s : s = ForEachCircuit(LAMBDA i : ForEach(DOMAIN c.lookups, LAMBDA l : LookupCommitPermuted(i, l)))
  OBVIOUS
<1>2. Clean(s)
  BY <1>1, CommitsClean DEF ProverInv, ProverTypes
<1>3. PICK h : h = <<Sq("theta", 0)>>
  OBVIOUS
<1>4. Clean(h) /\ List(h) /\ Len(h) = 1 /\ h[1].of = "theta"
  BY <1>3, CleanOne, OneItem, Fields
<1>5. PICK items : items = h \o s
  OBVIOUS
<1>6. Clean(items)
  BY <1>2, <1>4, <1>5, CleanConcat
<1>7. \E j \in 1 .. Len(items) : items[j].of = "theta"
  <2>1. List(s) /\ Len(s) \in Nat
    BY <1>2, ListDomain DEF Clean
  <2>2. Len(items) = 1 + Len(s)
    <3>1. Len(h \o s) = Len(h) + Len(s)
      BY <1>4, <2>1, ListConcat
    <3> QED BY <1>4, <1>5, <3>1
  <2>3. \A k \in 1 .. Len(h) : (h \o s)[k] = h[k]
    BY <1>4, <2>1, ListConcat
  <2>4. items[1] = h[1]
    BY <1>4, <1>5, <2>3
  <2> QED BY <1>4, <2>1, <2>2, <2>4
<1>8. Write("phases", "permutations", items)
  BY <1>1, <1>3, <1>5 DEF GenPermutedLookups
<1>9. "permutations" \in Sealing \cup Answering /\ "permutations" \notin Answering
  BY DEF Sealing, Answering
<1> QED BY <1>6, <1>7, <1>8, <1>9, CleanPlain, WriteKeeps

LEMMA GenCommittedPermutationPolysKeeps ==
  ASSUME ProverInv, GenCommittedPermutationPolys PROVE ProverInv'
<1>1. PICK s : s = ForEachCircuit(PermutationCommit)
  OBVIOUS
<1>2. Clean(s)
  BY <1>1, CommitsClean DEF ProverInv, ProverTypes
<1>3. PICK h : h = <<Sq("beta", 0), Sq("gamma", 0)>>
  OBVIOUS
<1>4. Clean(h)
  <2>1. PICK d, e : d = Sq("beta", 0) /\ e = Sq("gamma", 0)
    OBVIOUS
  <2> QED BY <1>3, <2>1, CleanTwo, Fields
<1>5. PICK items : items = h \o s
  OBVIOUS
<1>6. Clean(items)
  BY <1>2, <1>4, <1>5, CleanConcat
<1>7. Write("permutations", "lookup products", items)
  BY <1>1, <1>3, <1>5 DEF GenCommittedPermutationPolys
<1>8. /\ {"permutations", "lookup products"} \subseteq Sealing \cup Answering
      /\ "lookup products" \notin Answering
  BY DEF Sealing, Answering
<1> QED BY <1>6, <1>7, <1>8, CleanPlain, WriteKeeps

LEMMA CommitArgumentsKeeps ==
  /\ ProverInv /\ GenCommittedLookupsPolys => ProverInv'
  /\ ProverInv /\ GenCommittedShuffles => ProverInv'
  /\ ProverInv /\ GenCommittedVanishing => ProverInv'
<1>1. /\ {"lookup products", "shuffles", "vanishing", "advice polys"} \subseteq Sealing \cup Answering
      /\ {"shuffles", "vanishing", "advice polys"} \cap Answering = {}
  BY DEF Sealing, Answering
<1>2. ASSUME ProverInv, GenCommittedLookupsPolys PROVE ProverInv'
  <2>1. PICK s : s = ForEachCircuit(LAMBDA i : [l \in DOMAIN c.lookups |-> LookupCommitProduct(i, l)])
    OBVIOUS
  <2>2. Clean(s)
    BY <1>2, <2>1, CommitsClean DEF ProverInv, ProverTypes
  <2>3. Write("lookup products", "shuffles", s)
    BY <1>2, <2>1 DEF GenCommittedLookupsPolys
  <2> QED BY <1>1, <1>2, <2>2, <2>3, CleanPlain, WriteKeeps
<1>3. ASSUME ProverInv, GenCommittedShuffles PROVE ProverInv'
  <2>1. PICK t : t = ForEachCircuit(LAMBDA i : [s \in DOMAIN c.shuffles |-> ShuffleCommitProduct(i, s)])
    OBVIOUS
  <2>2. Clean(t)
    BY <1>3, <2>1, CommitsClean DEF ProverInv, ProverTypes
  <2>3. Write("shuffles", "vanishing", t)
    BY <1>3, <2>1 DEF GenCommittedShuffles
  <2> QED BY <1>1, <1>3, <2>2, <2>3, CleanPlain, WriteKeeps
<1>4. ASSUME ProverInv, GenCommittedVanishing PROVE ProverInv'
  <2>1. PICK t : t = VanishingCommit
    OBVIOUS
  <2>2. Clean(t)
    BY <1>4, <2>1, VanishingClean DEF ProverInv, ProverTypes
  <2>3. Write("vanishing", "advice polys", t)
    BY <1>4, <2>1 DEF GenCommittedVanishing
  <2> QED BY <1>1, <1>4, <2>2, <2>3, CleanPlain, WriteKeeps
<1> QED BY <1>2, <1>3, <1>4

LEMMA EvaluateKeeps ==
  /\ ProverInv /\ GenConstructedVanishing => ProverInv'
  /\ ProverInv /\ WriteAdviceEvals => ProverInv'
  /\ ProverInv /\ WriteFixedEvals => ProverInv'
  /\ ProverInv /\ EvaluatePermutations => ProverInv'
  /\ ProverInv /\ EvaluateLookups => ProverInv'
  /\ ProverInv /\ EvaluateShuffles => ProverInv'
<1>1. {"h", "advice evals", "fixed evals", "permutation evals", "lookup evals",
       "shuffle evals", "open"} \subseteq Answering
  BY DEF Answering
<1>2. ASSUME ProverInv, GenConstructedVanishing PROVE ProverInv'
  <2>1. PICK h : h = <<Sq("y", 0)>>
    OBVIOUS
  <2>2. PICK items : items = h \o VanishingConstruct
    OBVIOUS
  <2>3. Clean(h) /\ Clean(VanishingConstruct)
    BY <1>2, <2>1, CleanOne, Fields, VanishingClean DEF ProverInv, ProverTypes
  <2>4. Clean(items)
    BY <2>2, <2>3, CleanConcat
  <2>5. Write("h", "advice evals", items)
    BY <1>2, <2>1, <2>2 DEF GenConstructedVanishing
  <2> QED BY <1>1, <1>2, <2>4, <2>5, CleanPlain, WriteKeeps
<1>3. ASSUME ProverInv, WriteAdviceEvals PROVE ProverInv'
  <2>1. PICK h : h = <<Sq("x", 0)>>
    OBVIOUS
  <2>2. PICK s : s = ForEachCircuit(LAMBDA i : LET qs == vk.queries["advice"] IN
                       [k \in DOMAIN qs |->
                          Element("scalar", "advice", i, qs[k][2], Point(qs[k][3]), advices[i][qs[k][2]])])
    OBVIOUS
  <2>3. PICK items : items = h \o s
    OBVIOUS
  <2>4. Plain(h)
    BY <2>1, CleanOne, CleanPlain, Fields
  <2>5. Plain(s)
    BY <1>3, <2>2, ColumnEvalsFit DEF ProverInv, ProverTypes
  <2>6. Plain(items)
    BY <2>3, <2>4, <2>5, PlainConcat
  <2>7. Write("advice evals", "fixed evals", items)
    BY <1>3, <2>1, <2>2, <2>3 DEF WriteAdviceEvals
  <2> QED BY <1>1, <1>3, <2>6, <2>7, WriteKeeps
<1>4. ASSUME ProverInv, WriteFixedEvals PROVE ProverInv'
  <2>1. PICK items : items = LET qs == vk.queries["fixed"] IN
                       [k \in DOMAIN qs |-> Sc("fixed", 0, qs[k][2], Point(qs[k][3]))]
                         \o VanishingEvaluate \o SigmaEvaluate
    OBVIOUS
  <2>2. Clean(items)
    BY <1>4, <2>1, ColumnEvalsFit DEF ProverInv, ProverTypes
  <2>3. Write("fixed evals", "permutation evals", items)
    BY <1>4, <2>1 DEF WriteFixedEvals
  <2> QED BY <1>1, <1>4, <2>2, <2>3, CleanPlain, WriteKeeps
<1>5. ASSUME ProverInv, EvaluatePermutations PROVE ProverInv'
  <2>1. PICK items : items = ForEachCircuit(PermutationEvaluate)
    OBVIOUS
  <2>2. Clean(items)
    BY <1>5, <2>1, ArgumentEvalsClean DEF ProverInv, ProverTypes
  <2>3. Write("permutation evals", "lookup evals", items)
    BY <1>5, <2>1 DEF EvaluatePermutations
  <2> QED BY <1>1, <1>5, <2>2, <2>3, CleanPlain, WriteKeeps
<1>6. ASSUME ProverInv, EvaluateLookups PROVE ProverInv'
  <2>1. PICK items : items = ForEachCircuit(LAMBDA i : ForEach(DOMAIN c.lookups, LAMBDA l : LookupEvaluate(i, l)))
    OBVIOUS
  <2>2. Clean(items)
    BY <1>6, <2>1, ArgumentEvalsClean DEF ProverInv, ProverTypes
  <2>3. Write("lookup evals", "shuffle evals", items)
    BY <1>6, <2>1 DEF EvaluateLookups
  <2> QED BY <1>1, <1>6, <2>2, <2>3, CleanPlain, WriteKeeps
<1>7. ASSUME ProverInv, EvaluateShuffles PROVE ProverInv'
  <2>1. PICK items : items = ForEachCircuit(LAMBDA i : ForEach(DOMAIN c.shuffles, LAMBDA s : ShuffleEvaluate(i, s)))
    OBVIOUS
  <2>2. Clean(items)
    BY <1>7, <2>1, ArgumentEvalsClean DEF ProverInv, ProverTypes
  <2>3. Write("shuffle evals", "open", items)
    BY <1>7, <2>1 DEF EvaluateShuffles
  <2> QED BY <1>1, <1>7, <2>2, <2>3, CleanPlain, WriteKeeps
<1> QED BY <1>2, <1>3, <1>4, <1>5, <1>6, <1>7

LEMMA CreateProofKeeps == ASSUME ProverInv, CreateProof PROVE ProverInv'
<1>1. PICK queries : queries = ProverQueries
  OBVIOUS
<1>2. PICK items : items = IF input.scheme = "shplonk" THEN ProveShplonk ELSE ProveGwc(queries)
  OBVIOUS
<1>3. List(queries)
  BY <1>1, ProverQueriesList DEF ProverInv, ProverTypes
<1>4. Clean(items)
  BY <1>2, <1>3, OpeningClean
<1>5. Write("open", "proved", items)
  BY <1>1, <1>2 DEF CreateProof
<1>6. {"open", "proved"} \subseteq Answering
  BY DEF Answering
<1> QED BY <1>4, <1>5, <1>6, CleanPlain, WriteKeeps

LEMMA FailKeeps == ASSUME ProverInv, Fail PROVE ProverInv'
BY ProverRests DEF Fail

LEMMA ProverKeeps == ASSUME ProverInv, Caller \/ Prover PROVE ProverInv'
<1>1. CASE New
  BY <1>1, NewKeeps
<1>2. CASE NewError \/ MissingChallenges \/ NotInTable \/ MissingAdvice \/ IdentityPoint \/ OpeningError
  BY <1>2, FailKeeps DEF NewError, MissingChallenges, NotInTable, MissingAdvice, IdentityPoint, OpeningError
<1>3. CASE CommitPhase
  BY <1>3, CommitPhaseKeeps
<1>4. CASE \E i \in Proofs : \E col \in DOMAIN c.adv : TornCommitPhase(i, col)
  BY <1>4, TornKeeps
<1>5. CASE GenPermutedLookups
  BY <1>5, GenPermutedLookupsKeeps
<1>6. CASE GenCommittedPermutationPolys
  BY <1>6, GenCommittedPermutationPolysKeeps
<1>7. CASE GenCommittedLookupsPolys \/ GenCommittedShuffles \/ GenCommittedVanishing
  BY <1>7, CommitArgumentsKeeps
<1>8. CASE GenAdvicePolys
  BY <1>8, GenAdvicePolysKeeps
<1>9. CASE GenConstructedVanishing \/ WriteAdviceEvals \/ WriteFixedEvals
  BY <1>9, EvaluateKeeps
<1>10. CASE EvaluatePermutations \/ EvaluateLookups \/ EvaluateShuffles
  BY <1>10, EvaluateKeeps
<1>11. CASE CreateProof
  BY <1>11, CreateProofKeeps
<1> QED BY <1>1, <1>2, <1>3, <1>4, <1>5, <1>6, <1>7, <1>8, <1>9, <1>10, <1>11 DEF Caller, Prover

-----------------------------------------------------------------------------
(***************************************************************************)
(* The verifier: it reads no more elements than it was given.              *)
(***************************************************************************)
VerifierInv ==
  /\ List(wire) /\ \A k \in 1 .. Len(wire) : Received(wire[k])
  /\ List(tv) /\ Len(Sent(tv)) <= Len(wire)
  /\ \A s \in DOMAIN got : s.kind \in {"point", "scalar"}
  /\ vpc \in {"idle", "instances"} => tv = << >> /\ DOMAIN got = {}
  /\ verdict \in {"none", "accept", "reject"}

LEMMA SentNothing == Sent(<< >>) = << >>
<1>1. PICK e : e = << >>
  OBVIOUS
<1>2. List(e) /\ Len(e) = 0
  BY <1>1, NoItems
<1>3. Pieces(e) = << >>
  BY <1>2 DEF Pieces
<1>4. FlattenSeq(<< >>) = << >>
  BY NoItems DEF FlattenSeq
<1> QED BY <1>1, <1>2, <1>3, <1>4, SentPieces

LEMMA InitVerifier == ASSUME Init PROVE VerifierInv
<1>1. wire = << >> /\ got = << >> /\ tv = << >> /\ verdict = "none"
  BY DEF Init
<1>2. DOMAIN << >> = {} /\ List(<< >>) /\ Len(<< >>) = 0
  BY NoItems
<1> QED BY <1>1, <1>2, SentNothing DEF VerifierInv

LEMMA VerifierRests == ASSUME VerifierInv, UNCHANGED <<wire, vpc, tv, got, verdict>> PROVE VerifierInv'
BY DEF VerifierInv, Sent

LEMMA ReturnKeeps ==
  ASSUME VerifierInv, NEW answer \in {"accept", "reject"}, Return(answer) PROVE VerifierInv'
BY DEF VerifierInv, Return, Sent

(* What is read fills slots of the kinds asked for, and nothing is read    *)
(* past the end.                                                           *)
LEMMA ReadKeeps ==
  ASSUME VerifierInv, NEW from, NEW to, to \notin {"idle", "instances"}, NEW slots, List(slots),
         Read(from, to, slots)
  PROVE  VerifierInv'
<1>1. PICK wanted, before : wanted = Sent(slots) /\ before = Len(Sent(tv))
  OBVIOUS
<1>2. List(wanted) /\ \A x \in 1 .. Len(wanted) : wanted[x].kind \in {"point", "scalar"}
  BY <1>1, SentIs
<1>3. CASE Return("reject")
  BY <1>3, ReturnKeeps
<1>4. CASE /\ before + Len(wanted) <= Len(wire)
           /\ vpc' = to /\ tv' = tv \o Taken(slots, before) /\ got' = Filled(wanted, before)
           /\ UNCHANGED <<input, proverVars, wire, told, verdict>>
  <2>1. PICK t, n : t = Taken(slots, before) /\ n = Len(slots)
    OBVIOUS
  <2>2. n \in Nat /\ DOMAIN slots = 1 .. n
    BY <2>1, ListDomain
  <2>3. t = [k \in 1 .. n |-> t[k]]
    BY <2>1, <2>2 DEF Taken
  <2>4. List(t) /\ Len(t) = n
    BY <2>2, <2>3, ListOf
  <2>5. before \in Nat /\ Len(wanted) \in Nat /\ Len(wire) \in Nat
    <3>1. List(Sent(tv)) /\ List(wire)
      BY SentIs DEF VerifierInv
    <3> QED BY <1>1, <1>2, <3>1, ListDomain
  <2>6. ASSUME NEW k \in 1 .. n PROVE Received(t[k]) <=> Received(slots[k])
    <3>1. CASE Received(slots[k])
      <4>1. PICK p : p = Len(Sent(SubSeq(slots, 1, k)))
        OBVIOUS
      <4>2. t[k] = wire[before + p]
        BY <2>1, <2>2, <3>1, <4>1 DEF Taken, Received
      <4>3. k \in 1 .. Len(slots) /\ k \in 0 .. Len(slots)
        BY <2>1, <2>2
      <4>4. SubSeq(slots, 1, k) = Upto(slots, k)
        BY <4>3, SplitAt
      <4>5. p \in 1 .. Len(wanted)
        BY <1>1, <3>1, <4>1, <4>3, <4>4, PlaceIs
      <4>6. before + p \in 1 .. Len(wire)
        BY <1>4, <2>5, <4>5
      <4> QED BY <3>1, <4>2, <4>6 DEF VerifierInv
    <3>2. CASE ~Received(slots[k])
      <4>1. t[k] = slots[k]
        BY <2>1, <2>2, <3>2 DEF Taken, Received
      <4> QED BY <3>2, <4>1
    <3> QED BY <3>1, <3>2
  <2>7. Len(Sent(t)) = Len(wanted)
    BY <1>1, <2>1, <2>4, <2>6, SentAlike
  <2>8. List(tv') /\ Len(Sent(tv')) = before + Len(wanted)
    <3>1. List(tv)
      BY DEF VerifierInv
    <3>2. tv' = tv \o t /\ List(tv \o t)
      BY <1>4, <2>1, <2>4, <3>1, ListConcat
    <3>3. Sent(tv \o t) = Sent(tv) \o Sent(t)
      BY <2>4, <3>1, SentConcat
    <3>4. List(Sent(tv)) /\ List(Sent(t))
      BY <2>4, <3>1, SentIs
    <3>5. Len(Sent(tv) \o Sent(t)) = Len(Sent(tv)) + Len(Sent(t))
      BY <3>4, ListConcat
    <3> QED BY <1>1, <2>7, <3>2, <3>3, <3>5
  <2>9. \A s \in DOMAIN got' : s.kind \in {"point", "scalar"}
    <3>1. DOMAIN got' = DOMAIN got \cup ToSet(wanted)
      BY <1>4 DEF Filled
    <3>2. ToSet(wanted) = {wanted[k] : k \in 1 .. Len(wanted)}
      BY <1>2, RangeOf
    <3> QED BY <1>2, <3>1, <3>2 DEF VerifierInv
  <2>10. wire' = wire /\ verdict' = verdict /\ vpc' \notin {"idle", "instances"}
    BY <1>4
  <2>11. Sent(tv)' = Sent(tv')
    BY DEF Sent
  <2> QED BY <1>4, <2>8, <2>9, <2>10, <2>11 DEF VerifierInv
<1> QED BY <1>1, <1>3, <1>4 DEF Read

LEMMA CarryKeeps ==
  ASSUME VerifierInv, NEW elements, List(elements), \A k \in 1 .. Len(elements) : Received(elements[k]),
         NEW version, Carry(elements, version)
  PROVE  VerifierInv'
<1>1. /\ vpc = "idle" /\ vpc' = "instances" /\ wire' = elements /\ tv' = tv
      /\ got' = got /\ verdict' = verdict
  BY DEF Carry
<1>2. tv = << >> /\ DOMAIN got = {} /\ verdict \in {"none", "accept", "reject"}
  BY <1>1 DEF VerifierInv
<1>3. Len(elements) \in Nat /\ List(<< >>) /\ Len(<< >>) = 0
  BY ListDomain, NoItems
<1>4. Sent(tv)' = << >>
  BY <1>1, <1>2, SentNothing DEF Sent
<1> QED BY <1>1, <1>2, <1>3, <1>4 DEF VerifierInv, Received

LEMMA ChannelKeeps == ASSUME ProverInv, VerifierInv, Channel PROVE VerifierInv'
<1>1. PICK n \in Nat : n = Len(proof) /\ List(proof) /\ DOMAIN proof = 1 .. n
  BY ListDomain DEF ProverInv, ProverLists
<1>0. \A k \in 1 .. n : Received(proof[k])
  BY <1>1 DEF ProverInv, ProverLists, Received
<1>2. CASE Deliver \/ Misinform
  BY <1>0, <1>1, <1>2, CarryKeeps DEF Deliver, Misinform
<1>3. CASE Extend
  <2>1. PICK e : e = Damaged(Pt("quotient", 0, 0))
    OBVIOUS
  <2>2. PICK t : t = Append(proof, e)
    OBVIOUS
  <2>3. PICK S : S = {proof[k] : k \in 1 .. n} \cup {e}
    OBVIOUS
  <2>4. proof \in [1 .. n -> S] /\ e \in S
    BY <1>1, <2>3 DEF List
  <2>5. t \in Seq(S) /\ Len(t) = n + 1 /\ \A k \in 1 .. n : t[k] = proof[k]
    BY <1>1, <2>2, <2>4
  <2>6. List(t) /\ \A k \in 1 .. n + 1 : t[k] \in S
    BY <2>5, SeqIs
  <2>7. Received(e)
    BY <2>1 DEF Received, Damaged, Pt, Element
  <2>8. \A d \in S : Received(d)
    BY <1>0, <2>3, <2>7
  <2> QED BY <1>3, <2>1, <2>2, <2>5, <2>6, <2>8, CarryKeeps DEF Extend
<1>4. CASE \E len \in 0 .. Len(proof) : Cut(len)
  <2>1. PICK len \in 0 .. n : Cut(len)
    BY <1>1, <1>4
  <2>2. PICK t : t = SubSeq(proof, 1, len)
    OBVIOUS
  <2>3. proof = [k \in 1 .. n |-> proof[k]] /\ 1 \in 1 .. n + 1 /\ len \in 1 - 1 .. n
    BY <1>1 DEF List
  <2>4. t = [k \in 1 .. len - 1 + 1 |-> proof[1 + k - 1]]
    BY <2>2, <2>3, SliceOf
  <2>5. t = [k \in 1 .. len |-> t[k]] /\ \A k \in 1 .. len : t[k] = proof[k] /\ k \in 1 .. n
    BY <2>4
  <2>6. List(t) /\ Len(t) = len
    BY <2>5, ListOf
  <2>7. \A k \in 1 .. Len(t) : Received(t[k])
    BY <1>0, <2>5, <2>6
  <2>8. Carry(t, 0)
    BY <2>1, <2>2 DEF Cut
  <2> QED BY <2>6, <2>7, <2>8, CarryKeeps
<1>5. CASE \E pos \in DOMAIN proof : Change(pos)
  <2>1. PICK pos \in DOMAIN proof : Change(pos)
    BY <1>5
  <2>2. PICK t : t = [proof EXCEPT ![pos] = Damaged(@)]
    OBVIOUS
  <2>3. t = [k \in 1 .. n |-> t[k]] /\ \A k \in 1 .. n : t[k] = IF k = pos THEN Damaged(proof[k]) ELSE proof[k]
    BY <1>1, <2>2
  <2>4. List(t) /\ Len(t) = n
    BY <2>3, ListOf
  <2>5. \A e : Damaged(e).kind = e.kind
    BY DEF Damaged, Element
  <2>6. \A k \in 1 .. Len(t) : Received(t[k])
    BY <1>0, <2>3, <2>4, <2>5 DEF Received
  <2>7. Carry(t, 0)
    BY <2>1, <2>2 DEF Change
  <2> QED BY <2>4, <2>6, <2>7, CarryKeeps
<1> QED BY <1>2, <1>3, <1>4, <1>5 DEF Channel

-----------------------------------------------------------------------------
(* What the verifier reads is a list of slots, at every step. *)
LEMMA ReadPhasesList ==
  ASSUME input \in Inputs
  PROVE  List(ForEach(DOMAIN vk.phases, LAMBDA p :
           ForEachCircuit(LAMBDA i : LET cols == ColumnsOf(c, vk.phases[p]) IN
             [k \in DOMAIN cols |-> Pt("advice", i, cols[k])])
           \o LET chals == ChallengesOf(c, vk.phases[p]) IN
                [k \in DOMAIN chals |-> Sq("challenge", chals[k])]))
<1>1. PICK top \in Nat : vk.phases = [i \in 1 .. top + 1 |-> i - 1]
  BY TheKey
<1>2. DOMAIN vk.phases = 1 .. top + 1 /\ top + 1 \in Nat
  BY <1>1
<1>3. c.adv \in Seq(0 .. 255) /\ c.chal \in Seq(0 .. 255)
  BY TheCircuit, CircuitsAssumption
<1>4. \A phase : List(ColumnsOf(c, phase)) /\ List(ChallengesOf(c, phase))
  BY <1>3, IndicesIs DEF ColumnsOf, ChallengesOf
<1> DEFINE advice(p) == FlattenSeq([i \in Proofs |->
                          [k \in DOMAIN ColumnsOf(c, vk.phases[p]) |-> Pt("advice", i, ColumnsOf(c, vk.phases[p])[k])]])
           chal(p) == [k \in DOMAIN ChallengesOf(c, vk.phases[p]) |-> Sq("challenge", ChallengesOf(c, vk.phases[p])[k])]
           fs == [p \in DOMAIN vk.phases |-> advice(p) \o chal(p)]
<1>5. ASSUME NEW p PROVE List(advice(p))
  <2>1. PICK cols : cols = ColumnsOf(c, vk.phases[p])
    OBVIOUS
  <2>2. Len(cols) \in Nat /\ DOMAIN cols = 1 .. Len(cols)
    BY <1>4, <2>1, ListDomain
  <2> DEFINE g == [i \in Proofs |-> [k \in DOMAIN cols |-> Pt("advice", i, cols[k])]]
  <2>3. g = [i \in Proofs |-> g[i]]
    OBVIOUS
  <2>4. ASSUME NEW i \in Proofs PROVE List(g[i])
    <3>1. g[i] = [k \in 1 .. Len(cols) |-> Pt("advice", i, cols[k])]
      BY <2>2
    <3>2. g[i] = [k \in 1 .. Len(cols) |-> g[i][k]]
      BY <3>1
    <3> HIDE DEF g
    <3> QED BY <2>2, <3>2, ListOf
  <2>5. advice(p) = FlattenSeq(g)
    BY <2>1
  <2> HIDE DEF g, advice
  <2> QED BY <2>3, <2>4, <2>5, ListPerCircuit
<1>6. ASSUME NEW p PROVE List(chal(p))
  <2>1. PICK chals : chals = ChallengesOf(c, vk.phases[p])
    OBVIOUS
  <2>2. Len(chals) \in Nat /\ DOMAIN chals = 1 .. Len(chals)
    BY <1>4, <2>1, ListDomain
  <2>3. chal(p) = [k \in 1 .. Len(chals) |-> Sq("challenge", chals[k])]
    BY <2>1, <2>2
  <2>4. chal(p) = [k \in 1 .. Len(chals) |-> chal(p)[k]]
    BY <2>3
  <2> HIDE DEF chal
  <2> QED BY <2>2, <2>4, ListOf
<1>7. ForEach(DOMAIN vk.phases, LAMBDA p :
        ForEachCircuit(LAMBDA i : LET cols == ColumnsOf(c, vk.phases[p]) IN
          [k \in DOMAIN cols |-> Pt("advice", i, cols[k])])
        \o LET chals == ChallengesOf(c, vk.phases[p]) IN
             [k \in DOMAIN chals |-> Sq("challenge", chals[k])]) = FlattenSeq(fs)
  BY DEF ForEach, ForEachCircuit
<1> HIDE DEF advice, chal
<1>8. fs = [p \in 1 .. top + 1 |-> fs[p]]
  BY <1>2
<1>9. \A p \in 1 .. top + 1 : List(fs[p])
  BY <1>2, <1>5, <1>6, ListConcat
<1> HIDE DEF fs
<1> QED BY <1>2, <1>7, <1>8, <1>9, ListFlatten

LEMMA ReadArgumentsList ==
  ASSUME input \in Inputs
  PROVE  /\ List(ForEachCircuit(LAMBDA i : ForEach(DOMAIN c.lookups, LAMBDA l : LookupReadPermuted(i, l))))
         /\ List(ForEachCircuit(PermutationReadProducts))
         /\ List(ForEachCircuit(LAMBDA i : [l \in DOMAIN c.lookups |-> LookupReadProduct(i, l)]))
         /\ List(ForEachCircuit(LAMBDA i : [s \in DOMAIN c.shuffles |-> ShuffleReadProduct(i, s)]))
         /\ List(VanishingReadBeforeY) /\ List(VanishingReadAfterY)
<1>1. PICK m : m \in Nat /\ DOMAIN c.lookups = 1 .. m
  BY TheLists
<1>2. PICK q : q \in Nat /\ DOMAIN c.shuffles = 1 .. q
  BY TheLists
<1>3. vk.sets \in Nat /\ vk.pieces \in Nat
  BY TheKey
<1>4. ASSUME NEW i PROVE List(FlattenSeq([l \in DOMAIN c.lookups |-> LookupReadPermuted(i, l)]))
  BY <1>1, TwoItems, ListFlatten DEF LookupReadPermuted
<1>5. ASSUME NEW i PROVE List(PermutationReadProducts(i))
  BY <1>3, ListOf DEF PermutationReadProducts
<1>6. ASSUME NEW i PROVE List([l \in DOMAIN c.lookups |-> LookupReadProduct(i, l)])
  BY <1>1, ListOf
<1>7. ASSUME NEW i PROVE List([s \in DOMAIN c.shuffles |-> ShuffleReadProduct(i, s)])
  BY <1>2, ListOf
<1> HIDE DEF Proofs, c
<1>8. List(ForEachCircuit(LAMBDA i : ForEach(DOMAIN c.lookups, LAMBDA l : LookupReadPermuted(i, l))))
  <2> DEFINE f == [i \in Proofs |-> FlattenSeq([l \in DOMAIN c.lookups |-> LookupReadPermuted(i, l)])]
  <2>1. f = [i \in Proofs |-> f[i]] /\ \A i \in Proofs : List(f[i])
    BY <1>4
  <2>2. ForEachCircuit(LAMBDA i : ForEach(DOMAIN c.lookups, LAMBDA l : LookupReadPermuted(i, l))) = FlattenSeq(f)
    BY DEF ForEachCircuit, ForEach
  <2> HIDE DEF f
  <2> QED BY <2>1, <2>2, ListPerCircuit
<1>9. List(ForEachCircuit(PermutationReadProducts))
  BY <1>5, ListPerCircuit DEF ForEachCircuit, ForEach
<1>10. List(ForEachCircuit(LAMBDA i : [l \in DOMAIN c.lookups |-> LookupReadProduct(i, l)]))
  BY <1>6, ListPerCircuit DEF ForEachCircuit, ForEach
<1>11. List(ForEachCircuit(LAMBDA i : [s \in DOMAIN c.shuffles |-> ShuffleReadProduct(i, s)]))
  BY <1>7, ListPerCircuit DEF ForEachCircuit, ForEach
<1>12. List(VanishingReadBeforeY)
  BY OneItem DEF VanishingReadBeforeY
<1>13. List(VanishingReadAfterY)
  BY <1>3, ListOf DEF VanishingReadAfterY
<1> QED BY <1>8, <1>9, <1>10, <1>11, <1>12, <1>13

LEMMA ReadEvalsList ==
  ASSUME input \in Inputs
  PROVE  /\ List(ForEachCircuit(LAMBDA i : LET qs == vk.queries["advice"] IN
                [k \in DOMAIN qs |-> Sc("advice", i, qs[k][2], Point(qs[k][3]))]))
         /\ List(LET qs == vk.queries["fixed"] IN
                [k \in DOMAIN qs |-> Sc("fixed", 0, qs[k][2], Point(qs[k][3]))])
         /\ List(VanishingEvaluateAfterX) /\ List(SigmaReadEvals)
         /\ List(ForEachCircuit(PermutationReadEvals))
         /\ List(ForEachCircuit(LAMBDA i : ForEach(DOMAIN c.lookups, LAMBDA l : LookupReadEvals(i, l))))
         /\ List(ForEachCircuit(LAMBDA i : ForEach(DOMAIN c.shuffles, LAMBDA s : ShuffleReadEvals(i, s))))
<1>1. PICK m : m \in Nat /\ DOMAIN c.lookups = 1 .. m
  BY TheLists
<1>2. PICK q : q \in Nat /\ DOMAIN c.shuffles = 1 .. q
  BY TheLists
<1>3. vk.sets \in Nat
  BY TheKey
<1>4. PICK u : u \in Nat /\ DOMAIN c.perm = 1 .. u
  BY TheLists
<1> DEFINE qs == vk.queries["advice"]
           fx == vk.queries["fixed"]
<1>5. PICK n : n \in Nat /\ DOMAIN qs = 1 .. n
  BY TheKey, ListDomain
<1>6. PICK r : r \in Nat /\ DOMAIN fx = 1 .. r
  BY TheKey, ListDomain
<1> HIDE DEF qs, fx
<1>7. ASSUME NEW i PROVE List([k \in DOMAIN qs |-> Sc("advice", i, qs[k][2], Point(qs[k][3]))])
  BY <1>5, ListOf
<1>8. List([k \in DOMAIN fx |-> Sc("fixed", 0, fx[k][2], Point(fx[k][3]))])
  BY <1>6, ListOf
<1>9. List(VanishingEvaluateAfterX)
  BY OneItem DEF VanishingEvaluateAfterX
<1>10. List(SigmaReadEvals)
  BY <1>4, ListOf DEF SigmaReadEvals
<1>11. ASSUME NEW i PROVE List(PermutationReadEvals(i))
  <2> DEFINE h(s) == <<Sc("permutation", i, s, 0), Sc("permutation", i, s, 1)>>
             t(s) == IF s < vk.sets THEN <<Sc("permutation", i, s, LastRow)>> ELSE << >>
             f == [s \in 1 .. vk.sets |-> h(s) \o t(s)]
  <2>1. \A s : List(h(s))
    BY TwoItems
  <2>2. \A s : List(t(s))
    BY OneItem, NoItems
  <2>3. PermutationReadEvals(i) = FlattenSeq(f)
    BY DEF PermutationReadEvals, ForEach
  <2> HIDE DEF h, t
  <2>4. \A s \in 1 .. vk.sets : List(f[s])
    BY <2>1, <2>2, ListConcat
  <2>5. f = [s \in 1 .. vk.sets |-> f[s]]
    OBVIOUS
  <2> HIDE DEF f
  <2> QED BY <1>3, <2>3, <2>4, <2>5, ListFlatten
<1>12. ASSUME NEW i PROVE List(FlattenSeq([l \in DOMAIN c.lookups |-> LookupReadEvals(i, l)]))
  BY <1>1, FiveItems, ListFlatten DEF LookupReadEvals
<1>13. ASSUME NEW i PROVE List(FlattenSeq([s \in DOMAIN c.shuffles |-> ShuffleReadEvals(i, s)]))
  BY <1>2, TwoItems, ListFlatten DEF ShuffleReadEvals
<1> HIDE DEF Proofs, c
<1>14. List(ForEachCircuit(LAMBDA i : [k \in DOMAIN qs |-> Sc("advice", i, qs[k][2], Point(qs[k][3]))]))
  BY <1>7, ListPerCircuit DEF ForEachCircuit, ForEach
<1>15. List(ForEachCircuit(PermutationReadEvals))
  BY <1>11, ListPerCircuit DEF ForEachCircuit, ForEach
<1>16. List(ForEachCircuit(LAMBDA i : ForEach(DOMAIN c.lookups, LAMBDA l : LookupReadEvals(i, l))))
  <2> DEFINE f == [i \in Proofs |-> FlattenSeq([l \in DOMAIN c.lookups |-> LookupReadEvals(i, l)])]
  <2>1. f = [i \in Proofs |-> f[i]] /\ \A i \in Proofs : List(f[i])
    BY <1>12
  <2>2. ForEachCircuit(LAMBDA i : ForEach(DOMAIN c.lookups, LAMBDA l : LookupReadEvals(i, l))) = FlattenSeq(f)
    BY DEF ForEachCircuit, ForEach
  <2> HIDE DEF f
  <2> QED BY <2>1, <2>2, ListPerCircuit
<1>17. List(ForEachCircuit(LAMBDA i : ForEach(DOMAIN c.shuffles, LAMBDA s : ShuffleReadEvals(i, s))))
  <2> DEFINE f == [i \in Proofs |-> FlattenSeq([s \in DOMAIN c.shuffles |-> ShuffleReadEvals(i, s)])]
  <2>1. f = [i \in Proofs |-> f[i]] /\ \A i \in Proofs : List(f[i])
    BY <1>13
  <2>2. ForEachCircuit(LAMBDA i : ForEach(DOMAIN c.shuffles, LAMBDA s : ShuffleReadEvals(i, s))) = FlattenSeq(f)
    BY DEF ForEachCircuit, ForEach
  <2> HIDE DEF f
  <2> QED BY <2>1, <2>2, ListPerCircuit
<1> QED BY <1>8, <1>9, <1>10, <1>14, <1>15, <1>16, <1>17 DEF qs, fx

LEMMA ReadOpeningList ==
  /\ List(VerifyShplonk)
  /\ \A queries : List(queries) => List(VerifyGwc(queries))
<1>1. VerifyShplonk = ProveShplonk /\ \A queries : VerifyGwc(queries) = ProveGwc(queries)
  BY DEF VerifyShplonk, ProveShplonk, VerifyGwc, ProveGwc
<1> QED BY <1>1, OpeningClean DEF Clean

LEMMA VerifierKeeps == ASSUME ProverInv, VerifierInv, Verifier PROVE VerifierInv'
<1>1. input \in Inputs
  BY DEF ProverInv, ProverTypes
<1>2. CASE ReadInstances
  <2>1. PICK t : t = Greeting(told)
    OBVIOUS
  <2>2. List(t) /\ Sent(t) = << >>
    BY <1>1, <2>1, GreetingIs
  <2>3. tv' = t /\ vpc' = "phases" /\ UNCHANGED <<wire, got, verdict>>
    BY <1>2, <2>1 DEF ReadInstances, Greeting
  <2>4. Sent(tv)' = << >>
    BY <2>2, <2>3 DEF Sent
  <2>5. List(tv)' /\ Len(Sent(tv))' <= Len(wire)'
    BY <2>2, <2>3, <2>4, NoItems, ListDomain DEF VerifierInv, List
  <2> QED BY <2>3, <2>5 DEF VerifierInv
<1>3. CASE ReadPhases
  <2>1. PICK slots : slots = ForEach(DOMAIN vk.phases, LAMBDA p :
           ForEachCircuit(LAMBDA i : LET cols == ColumnsOf(c, vk.phases[p]) IN
             [k \in DOMAIN cols |-> Pt("advice", i, cols[k])])
           \o LET chals == ChallengesOf(c, vk.phases[p]) IN
                [k \in DOMAIN chals |-> Sq("challenge", chals[k])])
    OBVIOUS
  <2>2. List(slots)
    BY <1>1, <2>1, ReadPhasesList
  <2>3. Read("phases", "lookups", slots)
    BY <1>3, <2>1 DEF ReadPhases
  <2> QED BY <2>2, <2>3, ReadKeeps
<1>4. CASE ReadLookups
  <2>1. PICK s : s = ForEachCircuit(LAMBDA i : ForEach(DOMAIN c.lookups, LAMBDA l : LookupReadPermuted(i, l)))
    OBVIOUS
  <2>2. PICK h : h = <<Sq("theta", 0)>>
    OBVIOUS
  <2>3. PICK slots : slots = h \o s
    OBVIOUS
  <2>4. List(h) /\ List(s)
    BY <1>1, <2>1, <2>2, OneItem, ReadArgumentsList
  <2>5. List(slots)
    BY <2>3, <2>4, ListConcat
  <2>6. Read("lookups", "products", slots)
    BY <1>4, <2>1, <2>2, <2>3 DEF ReadLookups
  <2> QED BY <2>5, <2>6, ReadKeeps
<1>5. CASE ReadProducts
  <2>1. PICK h : h = <<Sq("beta", 0), Sq("gamma", 0)>>
    OBVIOUS
  <2>2. PICK p : p = ForEachCircuit(PermutationReadProducts)
    OBVIOUS
  <2>3. PICK w : w = ForEachCircuit(LAMBDA i : [l \in DOMAIN c.lookups |-> LookupReadProduct(i, l)])
    OBVIOUS
  <2>4. PICK z : z = ForEachCircuit(LAMBDA i : [s \in DOMAIN c.shuffles |-> ShuffleReadProduct(i, s)])
    OBVIOUS
  <2>5. PICK slots : slots = ((h \o p) \o w) \o z
    OBVIOUS
  <2>6. List(h) /\ List(p) /\ List(w) /\ List(z)
    BY <1>1, <2>1, <2>2, <2>3, <2>4, TwoItems, ReadArgumentsList
  <2>7. List(h \o p)
    BY <2>6, ListConcat
  <2>8. List((h \o p) \o w)
    BY <2>6, <2>7, ListConcat
  <2>9. List(slots)
    BY <2>5, <2>6, <2>8, ListConcat
  <2>10. Read("products", "vanishing", slots)
    BY <1>5, <2>1, <2>2, <2>3, <2>4, <2>5 DEF ReadProducts
  <2> QED BY <2>9, <2>10, ReadKeeps
<1>6. CASE ReadVanishing
  <2>1. PICK a, b, y, x : /\ a = VanishingReadBeforeY /\ b = VanishingReadAfterY
                          /\ y = <<Sq("y", 0)>> /\ x = <<Sq("x", 0)>>
    OBVIOUS
  <2>2. PICK slots : slots = ((a \o y) \o b) \o x
    OBVIOUS
  <2>3. List(a) /\ List(b) /\ List(y) /\ List(x)
    BY <1>1, <2>1, OneItem, ReadArgumentsList
  <2>4. List(a \o y)
    BY <2>3, ListConcat
  <2>5. List((a \o y) \o b)
    BY <2>3, <2>4, ListConcat
  <2>6. List(slots)
    BY <2>2, <2>3, <2>5, ListConcat
  <2>7. Read("vanishing", "evals", slots)
    BY <1>6, <2>1, <2>2 DEF ReadVanishing
  <2> QED BY <2>6, <2>7, ReadKeeps
<1>7. CASE ReadColumnEvals
  <2>1. PICK a : a = ForEachCircuit(LAMBDA i : LET qs == vk.queries["advice"] IN
                       [k \in DOMAIN qs |-> Sc("advice", i, qs[k][2], Point(qs[k][3]))])
    OBVIOUS
  <2>2. PICK f : f = LET qs == vk.queries["fixed"] IN
                       [k \in DOMAIN qs |-> Sc("fixed", 0, qs[k][2], Point(qs[k][3]))]
    OBVIOUS
  <2>3. PICK r, s : r = VanishingEvaluateAfterX /\ s = SigmaReadEvals
    OBVIOUS
  <2>4. PICK slots : slots = ((a \o f) \o r) \o s
    OBVIOUS
  <2>5. List(a) /\ List(f) /\ List(r) /\ List(s)
    BY <1>1, <2>1, <2>2, <2>3, ReadEvalsList
  <2>6. List(a \o f)
    BY <2>5, ListConcat
  <2>7. List((a \o f) \o r)
    BY <2>5, <2>6, ListConcat
  <2>8. List(slots)
    BY <2>4, <2>5, <2>7, ListConcat
  <2>9. Read("evals", "argument evals", slots)
    BY <1>7, <2>1, <2>2, <2>3, <2>4 DEF ReadColumnEvals
  <2> QED BY <2>8, <2>9, ReadKeeps
<1>8. CASE ReadArgumentEvals
  <2>1. PICK p : p = ForEachCircuit(PermutationReadEvals)
    OBVIOUS
  <2>2. PICK w : w = ForEachCircuit(LAMBDA i : ForEach(DOMAIN c.lookups, LAMBDA l : LookupReadEvals(i, l)))
    OBVIOUS
  <2>3. PICK z : z = ForEachCircuit(LAMBDA i : ForEach(DOMAIN c.shuffles, LAMBDA s : ShuffleReadEvals(i, s)))
    OBVIOUS
  <2>4. PICK slots : slots = (p \o w) \o z
    OBVIOUS
  <2>5. List(p) /\ List(w) /\ List(z)
    BY <1>1, <2>1, <2>2, <2>3, ReadEvalsList
  <2>6. List(p \o w)
    BY <2>5, ListConcat
  <2>7. List(slots)
    BY <2>4, <2>5, <2>6, ListConcat
  <2>8. Read("argument evals", "open", slots)
    BY <1>8, <2>1, <2>2, <2>3, <2>4 DEF ReadArgumentEvals
  <2> QED BY <2>7, <2>8, ReadKeeps
<1>9. CASE ReadOpening
  <2>1. PICK claims : claims = Claims
    OBVIOUS
  <2>2. PICK queries : queries = Asked(claims)
    OBVIOUS
  <2>3. Len(claims) \in Nat /\ DOMAIN claims = 1 .. Len(claims)
    BY <1>1, <2>1, ClaimsList, ListDomain
  <2>4. queries = [k \in 1 .. Len(claims) |-> queries[k]]
    BY <2>2, <2>3 DEF Asked
  <2>5. List(queries)
    BY <2>3, <2>4, ListOf
  <2>6. PICK slots : slots = IF input.scheme = "shplonk" THEN VerifyShplonk ELSE VerifyGwc(queries)
    OBVIOUS
  <2>7. List(slots)
    BY <2>5, <2>6, ReadOpeningList
  <2>8. Read("open", "check", slots)
    BY <1>9, <2>1, <2>2, <2>6 DEF ReadOpening
  <2> QED BY <2>7, <2>8, ReadKeeps
<1>10. CASE Check
  <2>1. PICK answer : answer = IF Holds THEN "accept" ELSE "reject"
    OBVIOUS
  <2>2. answer \in {"accept", "reject"} /\ Return(answer)
    BY <1>10, <2>1 DEF Check
  <2> QED BY <2>2, ReturnKeeps
<1> QED BY <1>2, <1>3, <1>4, <1>5, <1>6, <1>7, <1>8, <1>9, <1>10 DEF Verifier

-----------------------------------------------------------------------------
(* Each of the two parties leaves the other's variables alone. *)
LEMMA ProverAlone == ASSUME Caller \/ Prover PROVE UNCHANGED <<wire, vpc, tv, got, verdict>>
<1>1. ASSUME Fail PROVE UNCHANGED <<wire, vpc, tv, got, verdict>>
  BY <1>1 DEF Fail, verifierVars
<1>2. ASSUME NEW from, NEW to, NEW items, Write(from, to, items) PROVE UNCHANGED <<wire, vpc, tv, got, verdict>>
  BY <1>2 DEF Write, verifierVars
<1>3. CASE Caller
  <2>1. CASE New \/ CommitPhase
    BY <2>1 DEF New, CommitPhase, verifierVars
  <2>2. CASE \E i \in Proofs : \E col \in DOMAIN c.adv : TornCommitPhase(i, col)
    BY <2>2 DEF TornCommitPhase, verifierVars
  <2>3. CASE NewError \/ MissingChallenges \/ NotInTable
    BY <1>1, <2>3 DEF NewError, MissingChallenges, NotInTable
  <2>4. CASE GenPermutedLookups
    BY <1>2, <2>4 DEF GenPermutedLookups
  <2> QED BY <1>3, <2>1, <2>2, <2>3, <2>4 DEF Caller
<1>4. CASE Prover
  <2>1. CASE MissingAdvice \/ IdentityPoint \/ OpeningError
    BY <1>1, <2>1 DEF MissingAdvice, IdentityPoint, OpeningError
  <2>2. CASE GenAdvicePolys
    BY <2>2 DEF GenAdvicePolys, verifierVars
  <2>3. CASE GenCommittedPermutationPolys \/ GenCommittedLookupsPolys \/ GenCommittedShuffles
    BY <1>2, <2>3 DEF GenCommittedPermutationPolys, GenCommittedLookupsPolys, GenCommittedShuffles
  <2>4. CASE GenCommittedVanishing \/ GenConstructedVanishing
    BY <1>2, <2>4 DEF GenCommittedVanishing, GenConstructedVanishing
  <2>5. CASE WriteAdviceEvals \/ WriteFixedEvals
    BY <1>2, <2>5 DEF WriteAdviceEvals, WriteFixedEvals
  <2>6. CASE EvaluatePermutations \/ EvaluateLookups \/ EvaluateShuffles
    BY <1>2, <2>6 DEF EvaluatePermutations, EvaluateLookups, EvaluateShuffles
  <2>7. CASE CreateProof
    BY <1>2, <2>7 DEF CreateProof
  <2> QED BY <1>4, <2>1, <2>2, <2>3, <2>4, <2>5, <2>6, <2>7 DEF Prover
<1> QED BY <1>3, <1>4

LEMMA VerifierAlone ==
  ASSUME Channel \/ Verifier
  PROVE  UNCHANGED <<input, next, advices, attempt, torn, tp, proof, pc>>
<1>1. ASSUME NEW elements, NEW version, Carry(elements, version)
      PROVE  UNCHANGED <<input, next, advices, attempt, torn, tp, proof, pc>>
  BY <1>1 DEF Carry, proverVars
<1>2. ASSUME NEW answer, Return(answer)
      PROVE  UNCHANGED <<input, next, advices, attempt, torn, tp, proof, pc>>
  BY <1>2 DEF Return, proverVars
<1>3. ASSUME NEW from, NEW to, NEW slots, Read(from, to, slots)
      PROVE  UNCHANGED <<input, next, advices, attempt, torn, tp, proof, pc>>
  BY <1>2, <1>3 DEF Read, proverVars
<1>4. CASE Channel
  BY <1>1, <1>4 DEF Channel, Deliver, Extend, Misinform, Cut, Change
<1>5. CASE Verifier
  <2>1. CASE ReadInstances
    BY <2>1 DEF ReadInstances, proverVars
  <2>2. CASE ReadPhases \/ ReadLookups \/ ReadProducts
    BY <1>3, <2>2 DEF ReadPhases, ReadLookups, ReadProducts
  <2>3. CASE ReadVanishing \/ ReadColumnEvals \/ ReadArgumentEvals
    BY <1>3, <2>3 DEF ReadVanishing, ReadColumnEvals, ReadArgumentEvals
  <2>4. CASE ReadOpening
    BY <1>3, <2>4 DEF ReadOpening
  <2>5. CASE Check
    BY <1>2, <2>5 DEF Check
  <2> QED BY <1>5, <2>1, <2>2, <2>3, <2>4, <2>5 DEF Verifier
<1> QED BY <1>4, <1>5

Inv == ProverInv /\ VerifierInv

LEMMA InvHolds == Spec => []Inv
<1>1. Init => Inv
  BY InitProver, InitVerifier DEF Inv
<1>2. Inv /\ [Next]_vars => Inv'
  <2> SUFFICES ASSUME Inv, [Next]_vars PROVE Inv'
    OBVIOUS
  <2>1. CASE Caller \/ Prover
    <3>1. ProverInv'
      BY <2>1, ProverKeeps DEF Inv
    <3>2. VerifierInv'
      BY <2>1, ProverAlone, VerifierRests DEF Inv
    <3> QED BY <3>1, <3>2 DEF Inv
  <2>2. CASE Channel \/ Verifier
    <3>1. ProverInv'
      BY <2>2, VerifierAlone, ProverRests DEF Inv
    <3>2. VerifierInv'
      BY <2>2, ChannelKeeps, VerifierKeeps DEF Inv
    <3> QED BY <3>1, <3>2 DEF Inv
  <2>3. CASE UNCHANGED vars
    <3>1. ProverInv'
      BY <2>3, ProverRests DEF Inv, vars, proverVars
    <3>2. VerifierInv'
      BY <2>3, VerifierRests DEF Inv, vars, verifierVars
    <3> QED BY <3>1, <3>2 DEF Inv
  <2> QED BY <2>1, <2>2, <2>3 DEF Next
<1> QED BY <1>1, <1>2, PTL DEF Spec

(* The input never changes, the phases are counted within the phases there
   are, a column is of a call that was made, only points and scalars are sent,
   and the verifier never fills more slots than there are elements. *)
THEOREM TypeCorrect == Spec => []TypeOK
<1>1. Inv => TypeOK
  <2> SUFFICES ASSUME Inv PROVE TypeOK
    OBVIOUS
  <2>1. \A k \in DOMAIN proof : proof[k].kind \in {"point", "scalar"}
    <3>1. List(proof) /\ \A k \in 1 .. Len(proof) : proof[k].kind \in {"point", "scalar"}
      BY DEF Inv, ProverInv, ProverLists
    <3> QED BY <3>1, ListDomain
  <2> QED BY <2>1 DEF Inv, ProverInv, ProverTypes, VerifierInv, TypeOK
<1> QED BY <1>1, InvHolds, PTL

(* Whatever calls of commit_phase failed and were made again: a challenge is
   squeezed after every column of its phase and of the phases before it, of
   every circuit, and before any column of a later one. *)
THEOREM ChallengesFollow == Spec => []ChallengesFollowTheirPhase
<1>1. Inv => ChallengesFollowTheirPhase
  <2> SUFFICES ASSUME Inv PROVE ChallengesFollowTheirPhase
    OBVIOUS
  <2>1. List(tp) /\ Follows(tp)
    BY DEF Inv, ProverInv, ProverLists, Ordered
  <2>2. Len(tp) \in Nat /\ DOMAIN tp = 1 .. Len(tp)
    BY <2>1, ListDomain
  <2>3. SUFFICES ASSUME NEW k \in 1 .. Len(tp), tp[k].of = "challenge",
                        NEW before, before = {tp[l] : l \in 1 .. k - 1}
        PROVE  /\ \A i \in Proofs : \A col \in DOMAIN c.adv :
                    c.adv[col] <= c.chal[tp[k].j] => \E e \in before : Advice(e) /\ e.i = i /\ e.j = col
               /\ \A e \in before : Advice(e) => c.adv[e.j] <= c.chal[tp[k].j]
    BY <2>2, ZenonT(60) DEF ChallengesFollowTheirPhase
  <2>4. /\ \A i \in Proofs : \A col \in DOMAIN c.adv :
             c.adv[col] <= c.chal[tp[k].j] => \E l \in 1 .. k - 1 : At(tp, i, col, l)
        /\ \A l \in 1 .. k - 1 : Advice(tp[l]) => c.adv[tp[l].j] <= c.chal[tp[k].j]
    BY <2>1, <2>3 DEF Follows
  <2>5. ASSUME NEW i \in Proofs, NEW col \in DOMAIN c.adv, c.adv[col] <= c.chal[tp[k].j]
        PROVE  \E e \in before : Advice(e) /\ e.i = i /\ e.j = col
    <3>1. PICK l \in 1 .. k - 1 : At(tp, i, col, l)
      BY <2>4, <2>5
    <3>2. tp[l] \in before
      BY <2>3
    <3> QED BY <3>1, <3>2 DEF At
  <2>6. \A e \in before : Advice(e) => c.adv[e.j] <= c.chal[tp[k].j]
    BY <2>3, <2>4
  <2> QED BY <2>5, <2>6
<1> QED BY <1>1, InvHolds, PTL

(* No proof is made with a column missing: each one of each circuit went into
   the transcript before theta, at the version that is evaluated. *)
THEOREM NothingLeftOut == Spec => []ProvedMeansCommitted
<1>1. Inv => ProvedMeansCommitted
  <2> SUFFICES ASSUME Inv, pc = "proved", NEW i \in Proofs, NEW col \in DOMAIN c.adv
               PROVE  \E k \in DOMAIN tp : /\ Advice(tp[k]) /\ tp[k].i = i /\ tp[k].j = col
                        /\ tp[k].v = advices[i][col] /\ tp[k].v # 0
                        /\ \E l \in DOMAIN tp : l > k /\ tp[l].of = "theta"
    BY DEF ProvedMeansCommitted
  <2>1. Sealed(tp, advices) /\ Committed /\ List(tp)
    BY DEF Inv, ProverInv, Kept, ProverLists, Answering
  <2>2. DOMAIN tp = 1 .. Len(tp)
    BY <2>1, ListDomain
  <2>3. advices[i][col] # 0
    BY <2>1 DEF Committed
  <2>4. PICK k \in 1 .. Len(tp) : HeldAt(tp, advices, i, col, k) /\ ThetaAfter(tp, k)
    BY <2>1, <2>3 DEF Sealed
  <2> QED BY <2>2, <2>3, <2>4 DEF HeldAt, At, ThetaAfter
<1> QED BY <1>1, InvHolds, PTL

-----------------------------------------------------------------------------
(* What the two parties say to each other, part by part. *)
ColumnSlots(p, i) ==
  LET cols == ColumnsOf(c, vk.phases[p]) IN [k \in DOMAIN cols |-> Pt("advice", i, cols[k])]
ChallengeSlots(p) ==
  LET chals == ChallengesOf(c, vk.phases[p]) IN [k \in DOMAIN chals |-> Sq("challenge", chals[k])]
PhaseSlots(p) == ForEachCircuit(LAMBDA i : ColumnSlots(p, i)) \o ChallengeSlots(p)
AllPhases     == [p \in DOMAIN vk.phases |-> PhaseSlots(p)]
Begun(n)      == FlattenSeq(Upto(AllPhases, n))

Lookups ==
  <<Sq("theta", 0)>> \o
  ForEachCircuit(LAMBDA i : ForEach(DOMAIN c.lookups, LAMBDA l : LookupCommitPermuted(i, l)))
PermutationProducts == <<Sq("beta", 0), Sq("gamma", 0)>> \o ForEachCircuit(PermutationCommit)
LookupProducts == ForEachCircuit(LAMBDA i : [l \in DOMAIN c.lookups |-> LookupCommitProduct(i, l)])
Shuffles == ForEachCircuit(LAMBDA i : [s \in DOMAIN c.shuffles |-> ShuffleCommitProduct(i, s)])
FixedEvals ==
  LET qs == vk.queries["fixed"] IN [k \in DOMAIN qs |-> Sc("fixed", 0, qs[k][2], Point(qs[k][3]))]
PermutationEvals == ForEachCircuit(PermutationEvaluate)
LookupEvals ==
  ForEachCircuit(LAMBDA i : ForEach(DOMAIN c.lookups, LAMBDA l : LookupEvaluate(i, l)))
ShuffleEvals ==
  ForEachCircuit(LAMBDA i : ForEach(DOMAIN c.shuffles, LAMBDA s : ShuffleEvaluate(i, s)))

(* What is left for the prover to write before the opening. *)
FromPermutationEvals == PermutationEvals \o (LookupEvals \o ShuffleEvals)
FromFixedEvals == ((FixedEvals \o VanishingEvaluate) \o SigmaEvaluate) \o FromPermutationEvals
FromAdviceEvals == (<<Sq("x", 0)>> \o AdviceEvals) \o FromFixedEvals
FromH == (<<Sq("y", 0)>> \o VanishingConstruct) \o FromAdviceEvals
FromVanishing == VanishingCommit \o FromH
FromShuffles == Shuffles \o FromVanishing
FromLookupProducts == LookupProducts \o FromShuffles
FromPermutations == PermutationProducts \o FromLookupProducts
Session == Lookups \o FromPermutations

(* Each part of the session is a list, and what the prover writes for it    *)
(* fits the slots of the part.                                             *)
LEMMA PartsClean ==
  ASSUME input \in Inputs
  PROVE  /\ Clean(Lookups) /\ Clean(PermutationProducts) /\ Clean(LookupProducts) /\ Clean(Shuffles)
         /\ Clean(VanishingCommit) /\ Clean(<<Sq("y", 0)>> \o VanishingConstruct)
         /\ Clean((FixedEvals \o VanishingEvaluate) \o SigmaEvaluate)
         /\ Clean(PermutationEvals) /\ Clean(LookupEvals) /\ Clean(ShuffleEvals)
<1>1. Clean(<<Sq("theta", 0)>>) /\ Clean(<<Sq("y", 0)>>)
  BY CleanOne, Fields
<1>2. Clean(<<Sq("beta", 0), Sq("gamma", 0)>>)
  BY CleanTwo, Fields
<1>3. Clean(Lookups)
  BY <1>1, CommitsClean, CleanConcat DEF Lookups
<1>4. Clean(PermutationProducts)
  BY <1>2, CommitsClean, CleanConcat DEF PermutationProducts
<1>5. Clean(LookupProducts) /\ Clean(Shuffles)
  BY CommitsClean DEF LookupProducts, Shuffles
<1>6. Clean(VanishingCommit) /\ Clean(VanishingConstruct)
  BY VanishingClean
<1>7. Clean(<<Sq("y", 0)>> \o VanishingConstruct)
  BY <1>1, <1>6, CleanConcat
<1>8. Clean((FixedEvals \o VanishingEvaluate) \o SigmaEvaluate)
  <2>1. PICK w : w = ForEachCircuit(LAMBDA i : LET qs == vk.queries["advice"] IN
                    [k \in DOMAIN qs |->
                       Element("scalar", "advice", i, qs[k][2], Point(qs[k][3]), advices[i][qs[k][2]])])
    OBVIOUS
  <2> QED BY <2>1, ColumnEvalsFit DEF FixedEvals
<1>9. Clean(PermutationEvals) /\ Clean(LookupEvals) /\ Clean(ShuffleEvals)
  BY ArgumentEvalsClean DEF PermutationEvals, LookupEvals, ShuffleEvals
<1> QED BY <1>3, <1>4, <1>5, <1>6, <1>7, <1>8, <1>9

LEMMA PartsAreLists ==
  ASSUME input \in Inputs
  PROVE  /\ List(Lookups) /\ List(PermutationProducts) /\ List(LookupProducts) /\ List(Shuffles)
         /\ List(VanishingCommit) /\ List(VanishingConstruct)
         /\ List(AdviceEvals) /\ List(FixedEvals) /\ List(VanishingEvaluate) /\ List(SigmaEvaluate)
         /\ List(PermutationEvals) /\ List(LookupEvals) /\ List(ShuffleEvals)
<1>1. /\ List(Lookups) /\ List(PermutationProducts) /\ List(LookupProducts) /\ List(Shuffles)
      /\ List(VanishingCommit)
      /\ List(PermutationEvals) /\ List(LookupEvals) /\ List(ShuffleEvals)
  BY PartsClean DEF Clean
<1>2. List(VanishingConstruct) /\ List(VanishingEvaluate)
  BY VanishingClean DEF Clean
<1>3. List(FixedEvals)
  BY ReadEvalsList DEF FixedEvals
<1>4. List(AdviceEvals)
  BY ReadEvalsList DEF AdviceEvals
<1>5. List(SigmaEvaluate)
  BY ReadEvalsList DEF SigmaReadEvals, SigmaEvaluate
<1> QED BY <1>1, <1>2, <1>3, <1>4, <1>5

LEMMA SessionIsList ==
  ASSUME input \in Inputs
  PROVE  /\ List(FromPermutationEvals) /\ List(FromFixedEvals) /\ List(FromAdviceEvals)
         /\ List(FromH) /\ List(FromVanishing) /\ List(FromShuffles)
         /\ List(FromLookupProducts) /\ List(FromPermutations) /\ List(Session)
         /\ List(LookupEvals \o ShuffleEvals)
<1>1. List(<<Sq("x", 0)>>) /\ List(<<Sq("y", 0)>>)
  BY OneItem
<1>2. List(LookupEvals \o ShuffleEvals)
  BY PartsAreLists, ListConcat
<1>3. List(FromPermutationEvals)
  BY <1>2, PartsAreLists, ListConcat DEF FromPermutationEvals
<1>4. List(FixedEvals \o VanishingEvaluate)
  BY PartsAreLists, ListConcat
<1>5. List((FixedEvals \o VanishingEvaluate) \o SigmaEvaluate)
  BY <1>4, PartsAreLists, ListConcat
<1>6. List(FromFixedEvals)
  BY <1>3, <1>5, ListConcat DEF FromFixedEvals
<1>7. List(<<Sq("x", 0)>> \o AdviceEvals)
  BY <1>1, PartsAreLists, ListConcat
<1>8. List(FromAdviceEvals)
  BY <1>6, <1>7, ListConcat DEF FromAdviceEvals
<1>9. List(<<Sq("y", 0)>> \o VanishingConstruct)
  BY <1>1, PartsAreLists, ListConcat
<1>10. List(FromH)
  BY <1>8, <1>9, ListConcat DEF FromH
<1>11. List(FromVanishing)
  BY <1>10, PartsAreLists, ListConcat DEF FromVanishing
<1>12. List(FromShuffles)
  BY <1>11, PartsAreLists, ListConcat DEF FromShuffles
<1>13. List(FromLookupProducts)
  BY <1>12, PartsAreLists, ListConcat DEF FromLookupProducts
<1>14. List(FromPermutations)
  BY <1>13, PartsAreLists, ListConcat DEF FromPermutations
<1>15. List(Session)
  BY <1>14, PartsAreLists, ListConcat DEF Session
<1> QED BY <1>2, <1>3, <1>6, <1>8, <1>10, <1>11, <1>12, <1>13, <1>14, <1>15

-----------------------------------------------------------------------------
(* The phases. *)
LEMMA ColumnsIs ==
  ASSUME input \in Inputs, NEW phase
  PROVE  /\ List(ColumnsOf(c, phase)) /\ List(ChallengesOf(c, phase))
         /\ \A k \in 1 .. Len(ColumnsOf(c, phase)) :
              ColumnsOf(c, phase)[k] \in DOMAIN c.adv /\ c.adv[ColumnsOf(c, phase)[k]] = phase
         /\ \A k \in 1 .. Len(ChallengesOf(c, phase)) :
              ChallengesOf(c, phase)[k] \in DOMAIN c.chal /\ c.chal[ChallengesOf(c, phase)[k]] = phase
<1>1. c.adv \in Seq(0 .. 255) /\ c.chal \in Seq(0 .. 255)
  BY TheCircuit, CircuitsAssumption
<1>2. DOMAIN c.adv = 1 .. Len(c.adv) /\ DOMAIN c.chal = 1 .. Len(c.chal)
  BY TheLists
<1> HIDE DEF c
<1>3. /\ List(ColumnsOf(c, phase))
      /\ \A k \in 1 .. Len(ColumnsOf(c, phase)) :
           ColumnsOf(c, phase)[k] \in DOMAIN c.adv /\ c.adv[ColumnsOf(c, phase)[k]] = phase
  BY <1>1, <1>2, IndicesIs DEF ColumnsOf
<1>4. /\ List(ChallengesOf(c, phase))
      /\ \A k \in 1 .. Len(ChallengesOf(c, phase)) :
           ChallengesOf(c, phase)[k] \in DOMAIN c.chal /\ c.chal[ChallengesOf(c, phase)[k]] = phase
  BY <1>1, <1>2, IndicesIs DEF ChallengesOf
<1> QED BY <1>3, <1>4

LEMMA ColumnSlotsIs ==
  ASSUME input \in Inputs, NEW p, NEW i,
         NEW cols, cols = ColumnsOf(c, vk.phases[p]), NEW n, n = Len(cols)
  PROVE  /\ n \in Nat /\ DOMAIN cols = 1 .. n
         /\ List(ColumnSlots(p, i)) /\ Len(ColumnSlots(p, i)) = n
         /\ \A k \in 1 .. n : ColumnSlots(p, i)[k] = Pt("advice", i, cols[k])
<1>1. List(cols)
  BY ColumnsIs
<1>2. n \in Nat /\ DOMAIN cols = 1 .. n
  BY <1>1, ListDomain
<1>3. PICK t : t = ColumnSlots(p, i)
  OBVIOUS
<1>4. t = [k \in DOMAIN cols |-> Pt("advice", i, cols[k])]
  BY <1>3 DEF ColumnSlots
<1>5. t = [k \in 1 .. n |-> t[k]] /\ \A k \in 1 .. n : t[k] = Pt("advice", i, cols[k])
  BY <1>2, <1>4
<1>6. List(t) /\ Len(t) = n
  BY <1>2, <1>5, ListOf
<1> QED BY <1>2, <1>3, <1>5, <1>6

LEMMA ChallengeSlotsIs ==
  ASSUME input \in Inputs, NEW p,
         NEW chals, chals = ChallengesOf(c, vk.phases[p]), NEW n, n = Len(chals)
  PROVE  /\ n \in Nat
         /\ List(ChallengeSlots(p)) /\ Len(ChallengeSlots(p)) = n
         /\ \A k \in 1 .. n : ChallengeSlots(p)[k] = Sq("challenge", chals[k])
<1>1. List(chals)
  BY ColumnsIs
<1>2. n \in Nat /\ DOMAIN chals = 1 .. n
  BY <1>1, ListDomain
<1>3. PICK t : t = ChallengeSlots(p)
  OBVIOUS
<1>4. t = [k \in DOMAIN chals |-> Sq("challenge", chals[k])]
  BY <1>3 DEF ChallengeSlots
<1>5. t = [k \in 1 .. n |-> t[k]] /\ \A k \in 1 .. n : t[k] = Sq("challenge", chals[k])
  BY <1>2, <1>4
<1>6. List(t) /\ Len(t) = n
  BY <1>2, <1>5, ListOf
<1> QED BY <1>2, <1>3, <1>5, <1>6

(* The columns of a phase, of every circuit. *)
AllColumns(p) == FlattenSeq([i \in Proofs |-> ColumnSlots(p, i)])

LEMMA PhaseSlotsIs ==
  ASSUME input \in Inputs, NEW p
  PROVE  /\ PhaseSlots(p) = AllColumns(p) \o ChallengeSlots(p)
         /\ List(AllColumns(p)) /\ List(ChallengeSlots(p)) /\ List(PhaseSlots(p))
<1>1. PhaseSlots(p) = AllColumns(p) \o ChallengeSlots(p)
  BY DEF PhaseSlots, AllColumns, ForEachCircuit, ForEach
<1>2. List(ChallengeSlots(p))
  BY ChallengeSlotsIs
<1>3. List(AllColumns(p))
  <2>1. PICK fs : fs = [i \in Proofs |-> ColumnSlots(p, i)]
    OBVIOUS
  <2>2. fs = [i \in Proofs |-> fs[i]] /\ \A i \in Proofs : fs[i] = ColumnSlots(p, i)
    BY <2>1
  <2>3. \A i \in Proofs : List(fs[i])
    BY <2>2, ColumnSlotsIs
  <2> QED BY <2>1, <2>2, <2>3, ListPerCircuit DEF AllColumns
<1> QED BY <1>1, <1>2, <1>3, ListConcat

LEMMA AllPhasesIs ==
  ASSUME input \in Inputs, NEW n, n = Len(vk.phases)
  PROVE  /\ n \in Nat /\ n >= 1 /\ AllPhases = [p \in 1 .. n |-> AllPhases[p]]
         /\ \A p \in 1 .. n : AllPhases[p] = PhaseSlots(p) /\ List(AllPhases[p]) /\ vk.phases[p] = p - 1
         /\ Begun(n) = FlattenSeq(AllPhases)
<1>1. PICK top \in Nat : vk.phases = [i \in 1 .. top + 1 |-> i - 1]
  BY TheKey
<1>2. PICK ph : ph = vk.phases
  OBVIOUS
<1>3. Len(ph) = top + 1 /\ DOMAIN ph = 1 .. top + 1
  BY <1>1, <1>2, ListOf
<1>4. n = top + 1 /\ n \in Nat /\ n >= 1 /\ DOMAIN vk.phases = 1 .. n /\ \A p \in 1 .. n : vk.phases[p] = p - 1
  BY <1>1, <1>2, <1>3
<1>5. AllPhases = [p \in 1 .. n |-> AllPhases[p]] /\ \A p \in 1 .. n : AllPhases[p] = PhaseSlots(p)
  BY <1>4 DEF AllPhases
<1>6. Begun(n) = FlattenSeq(AllPhases)
  BY <1>5 DEF Begun, Upto
<1> QED BY <1>4, <1>5, <1>6, PhaseSlotsIs

LEMMA BegunIs ==
  ASSUME input \in Inputs
  PROVE  /\ Begun(0) = << >>
         /\ \A m \in 0 .. Len(vk.phases) : List(Begun(m))
         /\ \A m \in 0 .. Len(vk.phases) - 1 : Begun(m + 1) = Begun(m) \o PhaseSlots(m + 1)
<1>1. PICK n : n = Len(vk.phases)
  OBVIOUS
<1>2. n \in Nat /\ \A p \in 1 .. n : AllPhases[p] = PhaseSlots(p) /\ List(AllPhases[p])
  BY <1>1, AllPhasesIs
<1>3. Begun(0) = << >>
  <2>1. Upto(AllPhases, 0) = << >>
    BY DEF Upto
  <2> QED BY <2>1, FlattenNone DEF Begun
<1>4. ASSUME NEW m \in 0 .. n PROVE List(Begun(m))
  <2>1. PICK fs : fs = Upto(AllPhases, m)
    OBVIOUS
  <2>2. m \in Nat /\ fs = [k \in 1 .. m |-> fs[k]]
    BY <1>2, <2>1 DEF Upto
  <2>3. \A k \in 1 .. m : fs[k] = AllPhases[k] /\ k \in 1 .. n
    BY <1>2, <2>1 DEF Upto
  <2>4. \A k \in 1 .. m : List(fs[k])
    BY <1>2, <2>3
  <2> QED BY <2>1, <2>2, <2>4, ListFlatten DEF Begun
<1>5. ASSUME NEW m \in 0 .. n - 1 PROVE Begun(m + 1) = Begun(m) \o PhaseSlots(m + 1)
  <2>1. m \in Nat /\ m + 1 \in 1 .. n /\ \A k \in 1 .. m + 1 : k \in 1 .. n
    BY <1>2
  <2>2. \A k \in 1 .. m + 1 : List(AllPhases[k])
    BY <1>2, <2>1
  <2>3. FlattenSeq(Upto(AllPhases, m + 1)) = FlattenSeq(Upto(AllPhases, m)) \o AllPhases[m + 1]
    BY <2>1, <2>2, FlattenMore
  <2> QED BY <1>2, <2>1, <2>3 DEF Begun
<1> QED BY <1>1, <1>3, <1>4, <1>5

(* A phase that was left out has nothing to say: all the columns that there *)
(* are have been committed, all the challenges squeezed.                   *)
LEMMA NothingLeft ==
  ASSUME input \in Inputs, NEW m, m \in 0 .. Len(vk.phases),
         \A i \in Proofs : \A col \in DOMAIN c.adv : c.adv[col] < m,
         \A idx \in DOMAIN c.chal : c.chal[idx] < m
  PROVE  Begun(Len(vk.phases)) = Begun(m)
<1>1. PICK n : n = Len(vk.phases)
  OBVIOUS
<1>2. n \in Nat /\ m \in 0 .. n /\ \A p \in 1 .. n : vk.phases[p] = p - 1
  BY <1>1, AllPhasesIs
<1>3. ASSUME NEW p \in m + 1 .. n PROVE PhaseSlots(p) = << >>
  <2>1. PICK cols, chals, u, v : /\ cols = ColumnsOf(c, vk.phases[p]) /\ chals = ChallengesOf(c, vk.phases[p])
                                 /\ u = AllColumns(p) /\ v = ChallengeSlots(p)
    OBVIOUS
  <2>2. vk.phases[p] = p - 1 /\ p \in Int /\ m \in Int /\ ~(p - 1 < m)
    BY <1>2
  <2>3. Len(cols) \in Nat /\ Len(chals) \in Nat
    BY <2>1, ColumnsIs, ListDomain
  <2>4. Len(chals) = 0
    <3>1. ASSUME NEW k \in 1 .. Len(chals) PROVE FALSE
      BY <2>1, <2>2, ColumnsIs
    <3> QED BY <2>3, <3>1
  <2>5. v = << >>
    <3>1. List(v) /\ Len(v) = 0
      BY <2>1, <2>4, ChallengeSlotsIs
    <3> QED BY <3>1, NoItems, ListEqual
  <2>6. ASSUME NEW i \in Proofs PROVE Len(ColumnSlots(p, i)) = 0
    <3>1. ASSUME NEW k \in 1 .. Len(cols) PROVE FALSE
      BY <2>1, <2>2, ColumnsIs
    <3>2. Len(cols) = 0
      BY <2>3, <3>1
    <3>3. PICK l, s : l = Len(cols) /\ s = ColumnSlots(p, i)
      OBVIOUS
    <3>4. Len(s) = l
      BY <2>1, <3>3, ColumnSlotsIs
    <3> QED BY <3>2, <3>3, <3>4
  <2>7. u = << >>
    <3>1. PICK fs, q : fs = [i \in Proofs |-> ColumnSlots(p, i)] /\ q \in Nat /\ Proofs = 1 .. q
      BY TheCircuit
    <3>2. fs = [i \in 1 .. q |-> fs[i]] /\ \A i \in 1 .. q : fs[i] = ColumnSlots(p, i)
      BY <3>1
    <3>3. \A i \in 1 .. q : List(fs[i]) /\ Len(fs[i]) = 0
      BY <2>6, <3>1, <3>2, ColumnSlotsIs
    <3>4. Gathers(fs, q, u)
      BY <2>1, <3>1, <3>2, <3>3, FlattenOf DEF AllColumns
    <3>5. List(u) /\ \A x \in 1 .. Len(u) : FALSE
      BY <3>3, <3>4 DEF Gathers
    <3>6. Len(u) \in Nat
      BY <3>5, ListDomain
    <3>7. Len(u) = 0
      BY <3>5, <3>6
    <3> QED BY <3>5, <3>7, NoItems, ListEqual
  <2>8. PhaseSlots(p) = u \o v
    BY <2>1, PhaseSlotsIs
  <2> QED BY <2>5, <2>7, <2>8, NoItems, ConcatNone
<1> DEFINE S == {k \in Nat : k <= n - m => Begun(m + k) = Begun(m)}
<1>4. 0 \in S
  BY <1>2
<1>5. ASSUME NEW k \in Nat, k \in S PROVE k + 1 \in S
  <2>1. CASE k + 1 <= n - m
    <3>1. Begun(m + k) = Begun(m)
      BY <1>2, <1>5, <2>1
    <3>2. m + k \in 0 .. n - 1 /\ (m + k) + 1 = m + (k + 1) /\ (m + k) + 1 \in m + 1 .. n
      BY <1>2, <2>1
    <3>3. PICK l : l = m + k
      OBVIOUS
    <3>4. Begun(l + 1) = Begun(l) \o PhaseSlots(l + 1) /\ List(Begun(l))
      BY <1>1, <1>2, <3>2, <3>3, BegunIs
    <3>5. PhaseSlots(l + 1) = << >>
      BY <1>3, <3>2, <3>3
    <3>6. Begun(l + 1) = Begun(l)
      BY <3>4, <3>5, ConcatNone
    <3> QED BY <3>1, <3>2, <3>3, <3>6
  <2>2. CASE ~(k + 1 <= n - m)
    BY <2>2
  <2> QED BY <2>1, <2>2
<1>6. Nat \subseteq S
  <2> HIDE DEF S
  <2> QED BY <1>4, <1>5, SetInduction
<1>7. n - m \in Nat /\ m + (n - m) = n
  BY <1>2
<1>8. n - m \in S
  BY <1>6, <1>7
<1> QED BY <1>1, <1>7, <1>8

-----------------------------------------------------------------------------
(* What is made of points and scalars is sent as it is. *)
LEMMA SentSelf ==
  ASSUME NEW t, List(t), \A k \in 1 .. Len(t) : Received(t[k]) PROVE Sent(t) = t
<1>1. PICK n : n = Len(t)
  OBVIOUS
<1>2. n \in Nat /\ Upto(t, n) = t
  BY <1>1 DEF List, Upto
<1> DEFINE S == {m \in Nat : m <= n => Sent(Upto(t, m)) = Upto(t, m)}
<1>3. 0 \in S
  <2>1. Upto(t, 0) = << >>
    BY DEF Upto
  <2>2. \A k \in 1 .. Len(<< >>) : ~Received(<< >>[k])
    BY NoItems
  <2> QED BY <2>1, <2>2, NoItems, SentNone
<1>4. ASSUME NEW m \in Nat, m \in S PROVE m + 1 \in S
  <2>1. CASE m + 1 <= n
    <3>1. PICK u, e : u = Upto(t, m) /\ e = t[m + 1]
      OBVIOUS
    <3>2. Upto(t, m + 1) = u \o <<e>> /\ List(u)
      BY <3>1, UptoMore, UptoIs
    <3>3. Sent(u \o <<e>>) = Sent(u) \o Piece(e)
      BY <3>2, SentMore
    <3>4. m + 1 \in 1 .. n /\ m <= n
      BY <1>2, <2>1
    <3>5. Piece(e) = <<e>>
      BY <1>1, <3>1, <3>4 DEF Piece
    <3>6. Sent(u) = u
      <4>1. Sent(Upto(t, m)) = Upto(t, m)
        BY <1>4, <3>4
      <4> QED BY <3>1, <4>1
    <3>7. PICK v : v = Upto(t, m + 1)
      OBVIOUS
    <3>8. Sent(v) = v
      BY <3>2, <3>3, <3>5, <3>6, <3>7
    <3> QED BY <3>7, <3>8
  <2>2. CASE ~(m + 1 <= n)
    BY <2>2
  <2> QED BY <2>1, <2>2
<1>5. Nat \subseteq S
  <2> HIDE DEF S
  <2> QED BY <1>3, <1>4, SetInduction
<1>6. n \in S
  BY <1>2, <1>5
<1> QED BY <1>2, <1>6

(* What the prover's opening absorbs and writes. *)
OpeningSlots == IF input.scheme = "shplonk" THEN ProveShplonk ELSE ProveGwc(ProverQueries)

LEMMA OpeningSlotsClean == ASSUME input \in Inputs PROVE Clean(OpeningSlots) /\ List(OpeningSlots)
<1>1. Clean(ProveShplonk) /\ Clean(ProveGwc(ProverQueries))
  BY OpeningClean, ProverQueriesList
<1>2. Clean(OpeningSlots)
  BY <1>1 DEF OpeningSlots
<1> QED BY <1>2 DEF Clean

(* Once the first n phases are committed. *)
Opened(n) == Greeting(0) \o Begun(n)

LEMMA OpenedIs ==
  ASSUME input \in Inputs
  PROVE  /\ Opened(0) = Greeting(0)
         /\ \A m \in 0 .. Len(vk.phases) : List(Opened(m))
         /\ \A m \in 0 .. Len(vk.phases) - 1 : Opened(m + 1) = Opened(m) \o PhaseSlots(m + 1)
<1>1. PICK g, n : g = Greeting(0) /\ n = Len(vk.phases)
  OBVIOUS
<1>2. List(g) /\ n \in Nat
  BY <1>1, GreetingIs, AllPhasesIs
<1>3. Opened(0) = Greeting(0)
  BY <1>1, <1>2, BegunIs, ConcatNone DEF Opened
<1>4. ASSUME NEW m \in 0 .. n PROVE List(Opened(m))
  BY <1>1, <1>2, BegunIs, ListConcat DEF Opened
<1>5. ASSUME NEW m \in 0 .. n - 1 PROVE Opened(m + 1) = Opened(m) \o PhaseSlots(m + 1)
  <2>1. m \in 0 .. n
    BY <1>2
  <2>2. PICK a, b : a = Begun(m) /\ b = PhaseSlots(m + 1)
    OBVIOUS
  <2>3. List(a) /\ List(b) /\ Begun(m + 1) = a \o b
    BY <1>1, <2>1, <2>2, BegunIs, PhaseSlotsIs
  <2>4. g \o (a \o b) = (g \o a) \o b
    <3>1. Assoc(g, a, b)
      BY <1>2, <2>3, ConcatAssoc
    <3> QED BY <3>1 DEF Assoc
  <2> QED BY <1>1, <2>2, <2>3, <2>4 DEF Opened
<1> QED BY <1>1, <1>3, <1>4, <1>5

(* What is left for the prover to write at a step. *)
Left(at) ==
  CASE at = "permutations"      -> FromPermutations
    [] at = "lookup products"   -> FromLookupProducts
    [] at = "shuffles"          -> FromShuffles
    [] at = "vanishing"         -> FromVanishing
    [] at \in {"advice polys", "h"} -> FromH
    [] at = "advice evals"      -> FromAdviceEvals
    [] at = "fixed evals"       -> FromFixedEvals
    [] at = "permutation evals" -> FromPermutationEvals
    [] at = "lookup evals"      -> LookupEvals \o ShuffleEvals
    [] at = "shuffle evals"     -> ShuffleEvals
    [] at = "open"              -> << >>

Writing == (Sealing \cup Answering) \ {"proved"}

(* The prover's transcript fits the script so far, and rem is left of it. *)
Behind(rem) == \E s : List(s) /\ Fits(tp, Opened(next - 1) \o s) /\ s \o rem = Session

Complete == \E t : List(t) /\ tp = t \o OpeningSlots /\ Fits(t, Opened(next - 1) \o Session)

(* A session no write of which failed follows the script, and sends what it *)
(* absorbs of points and scalars; columns are those of phases gone by.     *)
Scripted ==
  /\ proof = Sent(tp)
  /\ pc = "new" => tp = << >>
  /\ pc = "phases" => Fits(tp, Opened(next - 1))
  /\ pc \in Writing => Behind(Left(pc))
  /\ pc = "proved" => Complete
  /\ \A i \in Proofs : \A col \in DOMAIN c.adv : advices[i][col] # 0 => c.adv[col] < next - 1

Following ==
  /\ ~torn => Scripted
  /\ pc \in Sealing \cup Answering => Challenged

LEMMA SameScript ==
  ASSUME input' = input
  PROVE  /\ Greeting(0)' = Greeting(0) /\ Session' = Session
         /\ \A at : at \in Writing => Left(at)' = Left(at)
         /\ \A n : Opened(n)' = Opened(n)
<1>1. c' = c /\ vk' = vk /\ Proofs' = Proofs
  BY SameSession
<1>2. ShuffleEvals' = ShuffleEvals
  BY <1>1 DEF ShuffleEvals, ForEachCircuit, ForEach, ShuffleEvaluate
<1>3. LookupEvals' = LookupEvals
  BY <1>1 DEF LookupEvals, ForEachCircuit, ForEach, LookupEvaluate, Point
<1>4. PermutationEvals' = PermutationEvals
  BY <1>1 DEF PermutationEvals, ForEachCircuit, ForEach, PermutationEvaluate, LastRow, Point
<1>5. FixedEvals' = FixedEvals /\ SigmaEvaluate' = SigmaEvaluate /\ VanishingEvaluate' = VanishingEvaluate
  BY <1>1 DEF FixedEvals, Point, SigmaEvaluate, VanishingEvaluate
<1>6. AdviceEvals' = AdviceEvals
  BY <1>1 DEF AdviceEvals, ForEachCircuit, ForEach, Point
<1>7. VanishingConstruct' = VanishingConstruct /\ VanishingCommit' = VanishingCommit
  BY <1>1 DEF VanishingConstruct, VanishingCommit
<1>8. Shuffles' = Shuffles
  BY <1>1 DEF Shuffles, ForEachCircuit, ForEach, ShuffleCommitProduct
<1>9. LookupProducts' = LookupProducts
  BY <1>1 DEF LookupProducts, ForEachCircuit, ForEach, LookupCommitProduct
<1>10. PermutationProducts' = PermutationProducts
  BY <1>1 DEF PermutationProducts, ForEachCircuit, ForEach, PermutationCommit
<1>11. Lookups' = Lookups
  BY <1>1 DEF Lookups, ForEachCircuit, ForEach, LookupCommitPermuted
<1>12. FromPermutationEvals' = FromPermutationEvals
  BY <1>2, <1>3, <1>4 DEF FromPermutationEvals
<1>13. FromFixedEvals' = FromFixedEvals
  BY <1>5, <1>12 DEF FromFixedEvals
<1>14. FromAdviceEvals' = FromAdviceEvals
  BY <1>6, <1>13 DEF FromAdviceEvals
<1>15. FromH' = FromH
  BY <1>7, <1>14 DEF FromH
<1>16. FromVanishing' = FromVanishing
  BY <1>7, <1>15 DEF FromVanishing
<1>17. FromShuffles' = FromShuffles
  BY <1>8, <1>16 DEF FromShuffles
<1>18. FromLookupProducts' = FromLookupProducts
  BY <1>9, <1>17 DEF FromLookupProducts
<1>19. FromPermutations' = FromPermutations
  BY <1>10, <1>18 DEF FromPermutations
<1>20. Session' = Session
  BY <1>11, <1>19 DEF Session
<1>21. ASSUME NEW at, at \in Writing PROVE Left(at)' = Left(at)
  BY <1>2, <1>3, <1>12, <1>13, <1>14, <1>15, <1>16, <1>17, <1>18, <1>19, <1>21 DEF Left, Writing, Sealing, Answering
<1>22. Greeting(0)' = Greeting(0)
  BY <1>1 DEF Greeting, InstanceValues, ForEachCircuit, ForEach
<1>23. ASSUME NEW n PROVE Begun(n)' = Begun(n)
  BY <1>1 DEF Begun, AllPhases, Upto, PhaseSlots, ColumnSlots, ChallengeSlots, ForEachCircuit, ForEach
<1>24. \A n : Opened(n)' = Opened(n)
  BY <1>22, <1>23 DEF Opened
<1> QED BY <1>20, <1>21, <1>22, <1>24

LEMMA SameOpened ==
  ASSUME input' = input, NEW n, n = next' - 1
  PROVE  Opened(next - 1)' = Opened(n)
<1>1. c' = c /\ vk' = vk /\ Proofs' = Proofs
  BY SameSession
<1>2. Greeting(0)' = Greeting(0)
  BY SameScript
<1>3. Begun(next - 1)' = Begun(n)
  BY <1>1 DEF Begun, AllPhases, Upto, PhaseSlots, ColumnSlots, ChallengeSlots, ForEachCircuit, ForEach
<1> QED BY <1>2, <1>3 DEF Opened

LEMMA SameBehind ==
  ASSUME input' = input, NEW n, n = next' - 1
  PROVE  /\ Fits(tp', Opened(n)) => Fits(tp, Opened(next - 1))'
         /\ \A s, rem : List(s) /\ Fits(tp', Opened(n) \o s) /\ s \o rem = Session => Behind(rem)'
         /\ \A t, s : List(t) /\ tp' = t \o s /\ s = OpeningSlots' /\ Fits(t, Opened(n) \o Session) => Complete'
<1>1. Opened(next - 1)' = Opened(n) /\ Session' = Session
  BY SameOpened, SameScript
<1>2. Fits(tp', Opened(n)) => Fits(tp, Opened(next - 1))'
  BY <1>1 DEF Fits
<1>3. ASSUME NEW s, NEW rem, List(s), Fits(tp', Opened(n) \o s), s \o rem = Session PROVE Behind(rem)'
  BY <1>1, <1>3 DEF Behind
<1>4. ASSUME NEW t, NEW s, List(t), tp' = t \o s, s = OpeningSlots', Fits(t, Opened(n) \o Session) PROVE Complete'
  BY <1>1, <1>4 DEF Complete
<1> QED BY <1>2, <1>3, <1>4

LEMMA BehindAt ==
  ASSUME input' = input, NEW at, at \in Writing, pc' = at, NEW rem, rem = Left(at), Behind(rem)'
  PROVE  Behind(Left(pc))'
<1>1. Left(pc)' = rem
  BY SameScript DEF Left, Writing, Sealing, Answering
<1> QED BY <1>1 DEF Behind

LEMMA SameOpening ==
  ASSUME UNCHANGED <<input, advices>> PROVE OpeningSlots' = OpeningSlots
<1>1. c' = c /\ vk' = vk /\ Proofs' = Proofs
  BY SameSession
<1>2. ProverQueries' = ProverQueries
  BY <1>1 DEF ProverQueries, ForEachCircuit, ForEach, Query, AdvicePoly, PermutationOpens, LookupOpens, ShuffleOpens,
     SigmaOpens, VanishingOpens, AllButLast, Point
<1> QED BY <1>2 DEF OpeningSlots, ProveShplonk, ProveGwc

(* What Scripted says of the columns, and Challenged, survive a step that   *)
(* leaves the columns and next_phase_index alone.                          *)
LEMMA SameColumns ==
  ASSUME UNCHANGED <<input, next, advices>>
  PROVE  /\ (\A i \in Proofs : \A col \in DOMAIN c.adv : advices[i][col] # 0 => c.adv[col] < next - 1)
            => (\A i \in Proofs : \A col \in DOMAIN c.adv : advices[i][col] # 0 => c.adv[col] < next - 1)'
         /\ Challenged => Challenged'
<1>1. c' = c /\ vk' = vk /\ Proofs' = Proofs
  BY SameSession
<1> QED BY <1>1 DEF Challenged

LEMMA FollowingRests ==
  ASSUME Following, UNCHANGED <<input, next, advices, tp, proof, torn>>, pc' = pc \/ pc' = "failed"
  PROVE  Following'
<1>1. PICK n : n = next' - 1
  OBVIOUS
<1>2. (pc \in Sealing \cup Answering => Challenged) => (pc \in Sealing \cup Answering => Challenged)'
  BY SameColumns DEF Sealing, Answering
<1>3. ASSUME Scripted PROVE Scripted'
  <2>1. proof' = Sent(tp)'
    BY <1>3 DEF Scripted, Sent
  <2>2. (pc = "new")' => (tp = << >>)'
    BY <1>3 DEF Scripted
  <2>3. pc' = "phases" => Fits(tp, Opened(next - 1))'
    BY <1>1, <1>3, SameBehind DEF Scripted
  <2>4. ASSUME pc' \in Writing PROVE Behind(Left(pc))'
    <3>1. pc' = pc /\ pc \in Writing
      BY <2>4 DEF Writing, Sealing, Answering
    <3>2. PICK at, rem : at = pc /\ rem = Left(at)
      OBVIOUS
    <3>3. Behind(rem)
      BY <1>3, <3>1, <3>2 DEF Scripted
    <3>4. PICK s : List(s) /\ Fits(tp, Opened(next - 1) \o s) /\ s \o rem = Session
      BY <3>3 DEF Behind
    <3>5. Fits(tp', Opened(n) \o s)
      BY <1>1, <3>4
    <3>6. Behind(rem)'
      BY <1>1, <3>4, <3>5, SameBehind
    <3> QED BY <3>1, <3>2, <3>6, BehindAt
  <2>5. ASSUME pc' = "proved" PROVE Complete'
    <3>1. pc = "proved"
      BY <2>5
    <3>2. PICK t, s : List(t) /\ tp = t \o s /\ s = OpeningSlots /\ Fits(t, Opened(next - 1) \o Session)
      BY <1>3, <3>1 DEF Scripted, Complete
    <3>3. s = OpeningSlots' /\ tp' = t \o s /\ Fits(t, Opened(n) \o Session)
      BY <1>1, <3>2, SameOpening
    <3> QED BY <1>1, <3>2, <3>3, SameBehind
  <2>6. (\A i \in Proofs : \A col \in DOMAIN c.adv : advices[i][col] # 0 => c.adv[col] < next - 1)'
    BY <1>3, SameColumns DEF Scripted
  <2> QED BY <2>1, <2>2, <2>3, <2>4, <2>5, <2>6 DEF Scripted
<1> QED BY <1>2, <1>3 DEF Following

LEMMA WriteFollows ==
  ASSUME ProverInv, Following, NEW from, from \in Writing, NEW to, to \in Writing, NEW items, Write(from, to, items),
         NEW part, Fits(items, part), List(Left(to)), Left(from) = part \o Left(to)
  PROVE  Following'
<1>1. /\ pc = from /\ pc' = to /\ tp' = tp \o items /\ proof' = proof \o Sent(items)
      /\ UNCHANGED <<input, next, advices, torn>>
  BY DEF Write
<1>2. List(tp) /\ List(items) /\ List(part)
  BY DEF ProverInv, ProverLists, Fits
<1>3. PICK n, w, g : n = next' - 1 /\ w = Left(to) /\ g = Opened(n)
  OBVIOUS
<1>4. to \notin {"new", "phases", "proved"} /\ from \in Sealing \cup Answering
  BY DEF Writing, Sealing, Answering
<1>5. (pc \in Sealing \cup Answering => Challenged)'
  BY <1>1, <1>4, SameColumns DEF Following
<1>6. ASSUME Scripted PROVE Scripted'
  <2>1. proof' = Sent(tp)'
    <3>1. Sent(tp \o items) = Sent(tp) \o Sent(items)
      BY <1>2, SentConcat
    <3>2. proof = Sent(tp)
      BY <1>6 DEF Scripted
    <3>3. Sent(tp)' = Sent(tp \o items)
      BY <1>1 DEF Sent
    <3> QED BY <1>1, <3>1, <3>2, <3>3
  <2>2. Behind(Left(from))
    BY <1>1, <1>6 DEF Scripted
  <2>3. PICK s : List(s) /\ Fits(tp, g \o s) /\ s \o Left(from) = Session
    BY <1>1, <1>3, <2>2 DEF Behind
  <2>4. List(w) /\ s \o (part \o w) = Session
    BY <1>3, <2>3
  <2>0. List(s) /\ List(part) /\ List(w)
    BY <1>2, <2>3, <2>4
  <2>5. (s \o part) \o w = Session /\ List(s \o part)
    <3>1. (s \o part) \o w = s \o (part \o w)
      <4>1. Assoc(s, part, w)
        BY <2>0, ConcatAssoc
      <4> QED BY <4>1 DEF Assoc
    <3> QED BY <2>0, <2>4, <3>1, ListConcat
  <2>6. List(g)
    <3>1. n \in 0 .. Len(vk.phases) /\ input \in Inputs
      <4>1. PICK l : l = Len(vk.phases)
        OBVIOUS
      <4>2. input \in Inputs /\ l \in Nat /\ next \in 1 .. l + 1
        BY <4>1, AllPhasesIs DEF ProverInv, ProverTypes
      <4> QED BY <1>1, <1>3, <4>1, <4>2
    <3> QED BY <1>3, <3>1, OpenedIs
  <2>7. Fits(tp \o items, (g \o s) \o part)
    BY <2>3, FitsConcat
  <2>8. (g \o s) \o part = g \o (s \o part)
    <3>1. List(g) /\ List(s) /\ List(part)
      BY <2>0, <2>6
    <3>2. Assoc(g, s, part)
      BY <3>1, ConcatAssoc
    <3> QED BY <3>2 DEF Assoc
  <2>9. Fits(tp', g \o (s \o part))
    BY <1>1, <2>7, <2>8
  <2>10. Behind(w)'
    BY <1>1, <1>3, <2>5, <2>9, SameBehind
  <2>11. Behind(Left(pc))'
    BY <1>1, <1>3, <2>10, BehindAt
  <2>12. (\A i \in Proofs : \A col \in DOMAIN c.adv : advices[i][col] # 0 => c.adv[col] < next - 1)'
    BY <1>1, <1>6, SameColumns DEF Scripted
  <2> QED BY <1>1, <1>4, <2>1, <2>11, <2>12 DEF Scripted
<1> QED BY <1>1, <1>5, <1>6 DEF Following

-----------------------------------------------------------------------------
LEMMA InitFollows == ASSUME Init PROVE Following
<1>1. tp = << >> /\ proof = << >> /\ pc = "new" /\ next = 1
  BY DEF Init
<1>2. \A i \in Proofs : \A col \in DOMAIN c.adv : advices[i][col] = 0
  BY DEF Init
<1>3. Sent(tp) = << >>
  BY <1>1, SentNothing
<1>4. Scripted
  BY <1>1, <1>2, <1>3 DEF Scripted, Writing, Sealing, Answering
<1> QED BY <1>1, <1>4 DEF Following, Sealing, Answering

LEMMA NewFollows == ASSUME ProverInv, Following, New PROVE Following'
<1>1. PICK g : g = Greeting(0)
  OBVIOUS
<1>2. /\ pc = "new" /\ pc' = "phases" /\ tp' = g
      /\ UNCHANGED <<input, next, advices, torn, proof>>
  BY <1>1 DEF New, Greeting
<1>3. input \in Inputs /\ next = 1
  BY <1>2 DEF ProverInv, ProverTypes, Ordered
<1>4. List(g) /\ Sent(g) = << >> /\ \A k \in 1 .. Len(g) : ~Received(g[k])
  BY <1>1, <1>3, GreetingIs, GreetingOf
<1>5. Fits(g, g)
  BY <1>4 DEF Fits, MeantFor
<1>6. ASSUME Scripted PROVE Scripted'
  <2>1. proof = << >>
    BY <1>2, <1>6, SentNothing DEF Scripted
  <2>2. proof' = Sent(tp)'
    BY <1>2, <1>4, <2>1 DEF Sent
  <2>3. PICK n : n = next' - 1
    OBVIOUS
  <2>4. n = 0
    BY <1>2, <1>3, <2>3
  <2>5. Fits(tp', Opened(n))
    BY <1>1, <1>2, <1>3, <1>5, <2>4, OpenedIs
  <2>6. Fits(tp, Opened(next - 1))'
    BY <1>2, <2>3, <2>5, SameBehind
  <2>7. (\A i \in Proofs : \A col \in DOMAIN c.adv : advices[i][col] # 0 => c.adv[col] < next - 1)'
    BY <1>2, <1>6, SameColumns DEF Scripted
  <2> QED BY <1>2, <2>2, <2>6, <2>7 DEF Scripted, Writing, Sealing, Answering
<1> QED BY <1>2, <1>6 DEF Following, Sealing, Answering

(* The commitments of a phase, of whatever attempt, and its challenges are  *)
(* what its slots ask for.                                                 *)
LEMMA PhaseFits ==
  ASSUME input \in Inputs, NEW v, NEW m, m \in Nat, Proofs = 1 .. m
  PROVE  /\ Fits(CommitmentsUpTo(m, v), AllColumns(next))
         /\ PhaseChallenges = ChallengeSlots(next) /\ Fits(PhaseChallenges, ChallengeSlots(next))
         /\ Sent(PhaseChallenges) = << >>
<1>1. PICK cols, l, chals, q : /\ cols = ColumnsOf(c, vk.phases[next]) /\ l = Len(cols)
                               /\ chals = ChallengesOf(c, vk.phases[next]) /\ q = Len(chals)
  OBVIOUS
<1>2. ASSUME NEW i PROVE Fits(AdviceCommitments(i, v), ColumnSlots(next, i))
  <2>1. PICK t, s : t = AdviceCommitments(i, v) /\ s = ColumnSlots(next, i)
    OBVIOUS
  <2>2. l \in Nat /\ DOMAIN cols = 1 .. l
    BY <1>1, ColumnSlotsIs
  <2>3. List(s) /\ Len(s) = l /\ \A k \in 1 .. l : s[k] = Pt("advice", i, cols[k])
    BY <1>1, <2>1, ColumnSlotsIs
  <2>4. t = [k \in DOMAIN cols |-> Element("point", "advice", i, cols[k], 0, v)]
    BY <1>1, <2>1 DEF AdviceCommitments, Phase
  <2>5. t = [k \in 1 .. l |-> t[k]] /\ \A k \in 1 .. l : t[k] = Element("point", "advice", i, cols[k], 0, v)
    BY <2>2, <2>4
  <2>6. List(t) /\ Len(t) = l
    BY <2>2, <2>5, ListOf
  <2>7. \A k \in 1 .. l : MeantFor(t[k], s[k])
    BY <2>3, <2>5, Versions
  <2> QED BY <2>1, <2>3, <2>6, <2>7 DEF Fits
<1>3. Fits(CommitmentsUpTo(m, v), AllColumns(next))
  <2>2. PICK fs, gs : fs = [i \in 1 .. m |-> AdviceCommitments(i, v)] /\ gs = [i \in Proofs |-> ColumnSlots(next, i)]
    OBVIOUS
  <2>3. fs = [i \in 1 .. m |-> fs[i]] /\ \A i \in 1 .. m : fs[i] = AdviceCommitments(i, v)
    BY <2>2
  <2>4. gs = [i \in 1 .. m |-> gs[i]] /\ \A i \in 1 .. m : gs[i] = ColumnSlots(next, i)
    BY <2>2
  <2>5. \A i \in 1 .. m : Fits(fs[i], gs[i])
    BY <1>2, <2>3, <2>4
  <2>6. Fits(FlattenSeq(fs), FlattenSeq(gs))
    BY <2>3, <2>4, <2>5, FitsFlatten
  <2> QED BY <2>2, <2>6 DEF CommitmentsUpTo, AllColumns
<1>4. PhaseChallenges = ChallengeSlots(next)
  BY DEF PhaseChallenges, ChallengeSlots, Phase
<1>5. PICK t : t = ChallengeSlots(next)
  OBVIOUS
<1>6. List(t) /\ Len(t) = q /\ \A k \in 1 .. q : t[k] = Sq("challenge", chals[k])
  BY <1>1, <1>5, ChallengeSlotsIs
<1>7. \A j : ~Received(Sq("challenge", j))
  BY DEF Received, Sq, Element
<1>8. \A k \in 1 .. Len(t) : ~Received(t[k])
  BY <1>6, <1>7
<1>9. Fits(t, t)
  BY <1>6, <1>8 DEF Fits, MeantFor
<1>10. Sent(t) = << >>
  BY <1>6, <1>8, SentNone
<1> QED BY <1>3, <1>4, <1>5, <1>9, <1>10

LEMMA CommitPhaseFollows == ASSUME ProverInv, Following, CommitPhase PROVE Following'
<1>1. PICK v, p, h : v = attempt + 1 /\ p = ForEachCircuit(LAMBDA i : AdviceCommitments(i, v)) /\ h = PhaseChallenges
  OBVIOUS
<1>2. /\ pc = "phases" /\ next <= Len(vk.phases)
      /\ tp' = (tp \o p) \o h /\ proof' = proof \o p
      /\ advices' = [i \in Proofs |-> [col \in DOMAIN c.adv |->
                       IF c.adv[col] = Phase THEN v ELSE advices[i][col]]]
      /\ next' = next + 1 /\ input' = input /\ pc' = pc /\ torn' = torn
  BY <1>1 DEF CommitPhase
<1>3. input \in Inputs /\ next \in 1 .. Len(vk.phases) + 1 /\ List(tp)
  BY DEF ProverInv, ProverTypes, ProverLists
<1>4. PICK l : l = Len(vk.phases)
  OBVIOUS
<1>5. l \in Nat /\ next \in 1 .. l /\ next \in Nat /\ vk.phases[next] = next - 1
  <2>1. l \in Nat /\ \A q \in 1 .. l : vk.phases[q] = q - 1
    BY <1>3, <1>4, AllPhasesIs
  <2> QED BY <1>2, <1>3, <1>4, <2>1
<1>6. PICK a, b : a = AllColumns(next) /\ b = ChallengeSlots(next)
  OBVIOUS
<1>11. PICK m : m \in Nat /\ Proofs = 1 .. m
  BY <1>3, TheCircuit
<1>12. p = CommitmentsUpTo(m, v)
  BY <1>1, <1>11 DEF CommitmentsUpTo, ForEachCircuit, ForEach
<1>7. Fits(p, a) /\ h = b /\ Fits(h, b) /\ Sent(h) = << >>
  BY <1>11, <1>12, <1>1, <1>3, <1>6, PhaseFits
<1>8. List(p) /\ List(a) /\ List(h) /\ List(b)
  BY <1>7 DEF Fits
<1>9. Sent(p) = p
  <2>4. \A x \in 1 .. Len(p) : \E i \in 1 .. m : IsCommitment(p[x], i, v)
    BY <1>11, <1>12, <1>3, CommitmentsUpToIs
  <2>5. \A x \in 1 .. Len(p) : Received(p[x])
    BY <2>4, CommitmentIsAdvice DEF Received
  <2> QED BY <1>8, <2>5, SentSelf
<1>10. ASSUME Scripted PROVE Scripted'
  <2>1. proof' = Sent(tp)'
    <3>1. List(tp \o p)
      BY <1>3, <1>8, ListConcat
    <3>2. PICK u : u = tp \o p
      OBVIOUS
    <3>3. Sent(u) = Sent(tp) \o p
      BY <1>3, <1>8, <1>9, <3>2, SentConcat
    <3>4. Sent(u \o h) = Sent(u) \o << >>
      BY <1>7, <1>8, <3>1, <3>2, SentConcat
    <3>5. List(Sent(u))
      BY <3>1, <3>2, SentIs
    <3>6. Sent(u \o h) = Sent(tp) \o p
      BY <3>3, <3>4, <3>5, ConcatNone
    <3>7. Sent(tp)' = Sent(u \o h)
      BY <1>2, <3>2 DEF Sent
    <3> QED BY <1>2, <1>10, <3>6, <3>7 DEF Scripted
  <2>2. PICK n, g : n = next' - 1 /\ g = Opened(next - 1)
    OBVIOUS
  <2>3. Fits(tp, g)
    BY <1>2, <1>10, <2>2 DEF Scripted
  <2>4. Fits((tp \o p) \o h, (g \o a) \o b)
    <3>1. Fits(tp \o p, g \o a)
      BY <1>7, <2>3, FitsConcat
    <3> QED BY <1>7, <3>1, FitsConcat
  <2>5. (g \o a) \o b = Opened(n)
    <3>1. n = next /\ next - 1 \in 0 .. l - 1
      BY <1>2, <1>5, <2>2
    <3>2. PICK k : k = next - 1
      OBVIOUS
    <3>3. k + 1 = next /\ k \in 0 .. l - 1
      BY <1>5, <3>1, <3>2
    <3>4. Opened(k + 1) = Opened(k) \o PhaseSlots(k + 1)
      BY <1>3, <1>4, <3>3, OpenedIs
    <3>5. PhaseSlots(next) = a \o b
      BY <1>3, <1>6, PhaseSlotsIs
    <3>6. List(g)
      BY <2>3 DEF Fits
    <3>7. g \o (a \o b) = (g \o a) \o b
      <4>1. List(g) /\ List(a) /\ List(b)
        BY <1>8, <3>6
      <4>2. Assoc(g, a, b)
        BY <4>1, ConcatAssoc
      <4> QED BY <4>2 DEF Assoc
    <3>8. g = Opened(k) /\ PhaseSlots(k + 1) = a \o b /\ Opened(n) = Opened(k + 1)
      BY <2>2, <3>1, <3>2, <3>3, <3>5
    <3> QED BY <3>4, <3>7, <3>8
  <2>6. Fits(tp, Opened(next - 1))'
    BY <1>2, <2>2, <2>4, <2>5, SameBehind
  <2>7. (\A i \in Proofs : \A col \in DOMAIN c.adv : advices[i][col] # 0 => c.adv[col] < next - 1)'
    <3>1. c' = c /\ Proofs' = Proofs
      BY <1>2, SameSession
    <3>2. PICK d : d = advices'
      OBVIOUS
    <3>3. ASSUME NEW i \in Proofs, NEW col \in DOMAIN c.adv, d[i][col] # 0 PROVE c.adv[col] < next' - 1
      <4>1. d[i][col] = IF c.adv[col] = Phase THEN v ELSE advices[i][col]
        BY <1>2, <3>2
      <4>2. CASE c.adv[col] = Phase
        BY <1>2, <1>5, <4>2 DEF Phase
      <4>3. CASE c.adv[col] # Phase
        <5>1. c.adv[col] < next - 1
          BY <1>10, <3>3, <4>1, <4>3 DEF Scripted
        <5>2. c.adv[col] \in Nat
          BY <1>3, TheLists
        <5> QED BY <1>2, <1>5, <5>1, <5>2
      <4> QED BY <4>2, <4>3
    <3> QED BY <3>1, <3>2, <3>3
  <2> QED BY <1>2, <2>1, <2>6, <2>7 DEF Scripted, Writing, Sealing, Answering
<1> QED BY <1>2, <1>10 DEF Following, Sealing, Answering

LEMMA TornFollows ==
  ASSUME Following, NEW i, NEW col, TornCommitPhase(i, col) PROVE Following'
<1>1. pc = "phases" /\ pc' = pc /\ torn' = TRUE
  BY DEF TornCommitPhase
<1> QED BY <1>1 DEF Following, Sealing, Answering

LEMMA GenPermutedLookupsFollows == ASSUME ProverInv, Following, GenPermutedLookups PROVE Following'
<1>1. PICK items : items = Lookups
  OBVIOUS
<1>2. Challenged /\ Write("phases", "permutations", items)
  BY <1>1 DEF GenPermutedLookups, Lookups
<1>3. /\ pc = "phases" /\ pc' = "permutations" /\ tp' = tp \o items /\ proof' = proof \o Sent(items)
      /\ UNCHANGED <<input, next, advices, torn>>
  BY <1>2 DEF Write
<1>4. input \in Inputs /\ List(tp)
  BY DEF ProverInv, ProverTypes, ProverLists
<1>5. Fits(items, items) /\ List(items) /\ items \o FromPermutations = Session
  BY <1>1, <1>4, PartsClean, CleanFits DEF Session, Fits
<1>6. Challenged'
  BY <1>2, <1>3, SameColumns
<1>7. ASSUME Scripted PROVE Scripted'
  <2>1. proof' = Sent(tp)'
    <3>1. Sent(tp \o items) = Sent(tp) \o Sent(items)
      BY <1>4, <1>5, SentConcat
    <3>2. Sent(tp)' = Sent(tp \o items)
      BY <1>3 DEF Sent
    <3> QED BY <1>3, <1>7, <3>1, <3>2 DEF Scripted
  <2>2. PICK n : n = next' - 1
    OBVIOUS
  <2>3. Fits(tp, Opened(n))
    BY <1>3, <1>7, <2>2 DEF Scripted
  <2>4. Fits(tp', Opened(n) \o items)
    BY <1>3, <1>5, <2>3, FitsConcat
  <2>5. PICK rem : rem = FromPermutations
    OBVIOUS
  <2>6. Behind(rem)'
    BY <1>3, <1>5, <2>2, <2>4, <2>5, SameBehind
  <2>7. rem = Left("permutations") /\ "permutations" \in Writing
    BY <2>5 DEF Left, Writing, Sealing
  <2>8. Behind(Left(pc))'
    BY <1>3, <2>6, <2>7, BehindAt
  <2>9. (\A i \in Proofs : \A col \in DOMAIN c.adv : advices[i][col] # 0 => c.adv[col] < next - 1)'
    BY <1>3, <1>7, SameColumns DEF Scripted
  <2> QED BY <1>3, <2>1, <2>8, <2>9 DEF Scripted
<1> QED BY <1>3, <1>6, <1>7 DEF Following

LEMMA LeftIs ==
  /\ Left("permutations") = FromPermutations /\ Left("lookup products") = FromLookupProducts
  /\ Left("shuffles") = FromShuffles /\ Left("vanishing") = FromVanishing
  /\ Left("advice polys") = FromH /\ Left("h") = FromH
  /\ Left("advice evals") = FromAdviceEvals /\ Left("fixed evals") = FromFixedEvals
  /\ Left("permutation evals") = FromPermutationEvals
  /\ Left("lookup evals") = LookupEvals \o ShuffleEvals
  /\ Left("shuffle evals") = ShuffleEvals /\ Left("open") = << >>
  /\ Writing = {"permutations", "lookup products", "shuffles", "vanishing", "advice polys", "h", "advice evals",
                "fixed evals", "permutation evals", "lookup evals", "shuffle evals", "open"}
<1>1. /\ Left("permutations") = FromPermutations /\ Left("lookup products") = FromLookupProducts
      /\ Left("shuffles") = FromShuffles /\ Left("vanishing") = FromVanishing
      /\ Left("advice polys") = FromH /\ Left("h") = FromH
  BY DEF Left
<1>2. /\ Left("advice evals") = FromAdviceEvals /\ Left("fixed evals") = FromFixedEvals
      /\ Left("permutation evals") = FromPermutationEvals
      /\ Left("lookup evals") = LookupEvals \o ShuffleEvals
      /\ Left("shuffle evals") = ShuffleEvals /\ Left("open") = << >>
  BY DEF Left
<1>3. Writing = {"permutations", "lookup products", "shuffles", "vanishing", "advice polys", "h", "advice evals",
                "fixed evals", "permutation evals", "lookup evals", "shuffle evals", "open"}
  BY DEF Writing, Sealing, Answering
<1> QED BY <1>1, <1>2, <1>3

LEMMA CommitFollows ==
  ASSUME ProverInv, Following
  PROVE  /\ GenCommittedPermutationPolys => Following'
         /\ GenCommittedLookupsPolys => Following'
         /\ GenCommittedShuffles => Following'
         /\ GenCommittedVanishing => Following'
         /\ GenConstructedVanishing => Following'
<1>1. input \in Inputs
  BY DEF ProverInv, ProverTypes
<1>2. CASE GenCommittedPermutationPolys
  <2>1. PICK items : items = PermutationProducts
    OBVIOUS
  <2>2. Fits(items, items)
    BY <1>1, <2>1, PartsClean, CleanFits
  <2>3. Write("permutations", "lookup products", items)
    BY <1>2, <2>1 DEF GenCommittedPermutationPolys, PermutationProducts
  <2>4. List(Left("lookup products")) /\ Left("permutations") = items \o Left("lookup products")
    BY <1>1, <2>1, LeftIs, SessionIsList DEF FromPermutations
  <2>5. "permutations" \in Writing /\ "lookup products" \in Writing
    BY LeftIs
  <2> QED BY <2>2, <2>3, <2>4, <2>5, WriteFollows
<1>3. CASE GenCommittedLookupsPolys
  <2>1. PICK items : items = LookupProducts
    OBVIOUS
  <2>2. Fits(items, items)
    BY <1>1, <2>1, PartsClean, CleanFits
  <2>3. Write("lookup products", "shuffles", items)
    BY <1>3, <2>1 DEF GenCommittedLookupsPolys, LookupProducts
  <2>4. List(Left("shuffles")) /\ Left("lookup products") = items \o Left("shuffles")
    BY <1>1, <2>1, LeftIs, SessionIsList DEF FromLookupProducts
  <2>5. "lookup products" \in Writing /\ "shuffles" \in Writing
    BY LeftIs
  <2> QED BY <2>2, <2>3, <2>4, <2>5, WriteFollows
<1>4. CASE GenCommittedShuffles
  <2>1. PICK items : items = Shuffles
    OBVIOUS
  <2>2. Fits(items, items)
    BY <1>1, <2>1, PartsClean, CleanFits
  <2>3. Write("shuffles", "vanishing", items)
    BY <1>4, <2>1 DEF GenCommittedShuffles, Shuffles
  <2>4. List(Left("vanishing")) /\ Left("shuffles") = items \o Left("vanishing")
    BY <1>1, <2>1, LeftIs, SessionIsList DEF FromShuffles
  <2>5. "vanishing" \in Writing /\ "shuffles" \in Writing
    BY LeftIs
  <2> QED BY <2>2, <2>3, <2>4, <2>5, WriteFollows
<1>5. CASE GenCommittedVanishing
  <2>1. PICK items : items = VanishingCommit
    OBVIOUS
  <2>2. Fits(items, items)
    BY <1>1, <2>1, PartsClean, CleanFits
  <2>3. Write("vanishing", "advice polys", items)
    BY <1>5, <2>1 DEF GenCommittedVanishing
  <2>4. List(Left("advice polys")) /\ Left("vanishing") = items \o Left("advice polys")
    BY <1>1, <2>1, LeftIs, SessionIsList DEF FromVanishing
  <2>5. "vanishing" \in Writing /\ "advice polys" \in Writing
    BY LeftIs
  <2> QED BY <2>2, <2>3, <2>4, <2>5, WriteFollows
<1>6. CASE GenConstructedVanishing
  <2>1. PICK items : items = <<Sq("y", 0)>> \o VanishingConstruct
    OBVIOUS
  <2>2. Fits(items, items)
    BY <1>1, <2>1, PartsClean, CleanFits
  <2>3. Write("h", "advice evals", items)
    BY <1>6, <2>1 DEF GenConstructedVanishing
  <2>4. List(Left("advice evals")) /\ Left("h") = items \o Left("advice evals")
    BY <1>1, <2>1, LeftIs, SessionIsList DEF FromH
  <2>5. "h" \in Writing /\ "advice evals" \in Writing
    BY LeftIs
  <2> QED BY <2>2, <2>3, <2>4, <2>5, WriteFollows
<1> QED BY <1>2, <1>3, <1>4, <1>5, <1>6

LEMMA EvaluateFollows ==
  ASSUME ProverInv, Following
  PROVE  /\ WriteAdviceEvals => Following'
         /\ WriteFixedEvals => Following'
         /\ EvaluatePermutations => Following'
         /\ EvaluateLookups => Following'
         /\ EvaluateShuffles => Following'
<1>1. input \in Inputs
  BY DEF ProverInv, ProverTypes
<1>2. CASE WriteAdviceEvals
  <2>1. PICK h : h = <<Sq("x", 0)>>
    OBVIOUS
  <2>2. PICK s : s = ForEachCircuit(LAMBDA i : LET qs == vk.queries["advice"] IN
                    [k \in DOMAIN qs |->
                       Element("scalar", "advice", i, qs[k][2], Point(qs[k][3]), advices[i][qs[k][2]])])
    OBVIOUS
  <2>3. Fits(s, AdviceEvals)
    BY <1>1, <2>2, ColumnEvalsFit
  <2>4. Fits(h, h)
    BY <2>1, CleanOne, Fields, CleanFits
  <2>5. PICK items, part : items = h \o s /\ part = h \o AdviceEvals
    OBVIOUS
  <2>6. Fits(items, part)
    BY <2>3, <2>4, <2>5, FitsConcat
  <2>7. Write("advice evals", "fixed evals", items)
    BY <1>2, <2>1, <2>2, <2>5 DEF WriteAdviceEvals
  <2>8. List(Left("fixed evals")) /\ Left("advice evals") = part \o Left("fixed evals")
    BY <1>1, <2>1, <2>5, LeftIs, SessionIsList DEF FromAdviceEvals
  <2>9. "advice evals" \in Writing /\ "fixed evals" \in Writing
    BY LeftIs
  <2> QED BY <2>6, <2>7, <2>8, <2>9, WriteFollows
<1>3. CASE WriteFixedEvals
  <2>1. PICK items : items = (FixedEvals \o VanishingEvaluate) \o SigmaEvaluate
    OBVIOUS
  <2>2. Fits(items, items)
    BY <1>1, <2>1, PartsClean, CleanFits
  <2>3. Write("fixed evals", "permutation evals", items)
    BY <1>3, <2>1 DEF WriteFixedEvals, FixedEvals
  <2>4. List(Left("permutation evals")) /\ Left("fixed evals") = items \o Left("permutation evals")
    BY <1>1, <2>1, LeftIs, SessionIsList DEF FromFixedEvals
  <2>5. "fixed evals" \in Writing /\ "permutation evals" \in Writing
    BY LeftIs
  <2> QED BY <2>2, <2>3, <2>4, <2>5, WriteFollows
<1>4. CASE EvaluatePermutations
  <2>1. PICK items : items = PermutationEvals
    OBVIOUS
  <2>2. Fits(items, items)
    BY <1>1, <2>1, PartsClean, CleanFits
  <2>3. Write("permutation evals", "lookup evals", items)
    BY <1>4, <2>1 DEF EvaluatePermutations, PermutationEvals
  <2>4. List(Left("lookup evals")) /\ Left("permutation evals") = items \o Left("lookup evals")
    BY <1>1, <2>1, LeftIs, SessionIsList DEF FromPermutationEvals
  <2>5. "lookup evals" \in Writing /\ "permutation evals" \in Writing
    BY LeftIs
  <2> QED BY <2>2, <2>3, <2>4, <2>5, WriteFollows
<1>5. CASE EvaluateLookups
  <2>1. PICK items : items = LookupEvals
    OBVIOUS
  <2>2. Fits(items, items)
    BY <1>1, <2>1, PartsClean, CleanFits
  <2>3. Write("lookup evals", "shuffle evals", items)
    BY <1>5, <2>1 DEF EvaluateLookups, LookupEvals
  <2>4. List(Left("shuffle evals")) /\ Left("lookup evals") = items \o Left("shuffle evals")
    BY <1>1, <2>1, LeftIs, PartsAreLists
  <2>5. "lookup evals" \in Writing /\ "shuffle evals" \in Writing
    BY LeftIs
  <2> QED BY <2>2, <2>3, <2>4, <2>5, WriteFollows
<1>6. CASE EvaluateShuffles
  <2>1. PICK items : items = ShuffleEvals
    OBVIOUS
  <2>2. Fits(items, items) /\ List(items)
    BY <1>1, <2>1, PartsClean, CleanFits, PartsAreLists
  <2>3. Write("shuffle evals", "open", items)
    BY <1>6, <2>1 DEF EvaluateShuffles, ShuffleEvals
  <2>4. List(Left("open")) /\ Left("shuffle evals") = items \o Left("open")
    BY <2>1, <2>2, LeftIs, NoItems, ConcatNone
  <2>5. "shuffle evals" \in Writing /\ "open" \in Writing
    BY LeftIs
  <2> QED BY <2>2, <2>3, <2>4, <2>5, WriteFollows
<1> QED BY <1>2, <1>3, <1>4, <1>5, <1>6

LEMMA GenAdvicePolysFollows == ASSUME Following, GenAdvicePolys PROVE Following'
<1>1. /\ pc = "advice polys" /\ pc' = "h"
      /\ UNCHANGED <<input, next, advices, torn, tp, proof>>
  BY DEF GenAdvicePolys
<1>2. pc \in Writing /\ pc' \in Writing /\ Left(pc) = FromH /\ Left("h") = FromH /\ pc \in Sealing
  BY <1>1, LeftIs DEF Sealing
<1>3. Challenged'
  BY <1>1, <1>2, SameColumns DEF Following
<1>4. ASSUME Scripted PROVE Scripted'
  <2>1. proof' = Sent(tp)'
    BY <1>1, <1>4 DEF Scripted, Sent
  <2>2. PICK n, rem : n = next' - 1 /\ rem = FromH
    OBVIOUS
  <2>3. Behind(rem)
    BY <1>2, <1>4, <2>2 DEF Scripted
  <2>4. PICK s : List(s) /\ Fits(tp, Opened(next - 1) \o s) /\ s \o rem = Session
    BY <2>3 DEF Behind
  <2>5. Fits(tp', Opened(n) \o s)
    BY <1>1, <2>2, <2>4
  <2>6. Behind(rem)'
    BY <1>1, <2>2, <2>4, <2>5, SameBehind
  <2>7. Behind(Left(pc))'
    BY <1>1, <1>2, <2>2, <2>6, BehindAt
  <2>8. (\A i \in Proofs : \A col \in DOMAIN c.adv : advices[i][col] # 0 => c.adv[col] < next - 1)'
    BY <1>1, <1>4, SameColumns DEF Scripted
  <2> QED BY <1>1, <2>1, <2>7, <2>8 DEF Scripted
<1> QED BY <1>1, <1>3, <1>4 DEF Following

LEMMA CreateProofFollows == ASSUME ProverInv, Following, CreateProof PROVE Following'
<1>1. PICK items : items = OpeningSlots
  OBVIOUS
<1>2. /\ pc = "open" /\ pc' = "proved" /\ tp' = tp \o items /\ proof' = proof \o Sent(items)
      /\ UNCHANGED <<input, next, advices, torn>>
  BY <1>1 DEF CreateProof, Write, OpeningSlots
<1>3. input \in Inputs /\ List(tp) /\ List(items)
  BY <1>1, OpeningSlotsClean DEF ProverInv, ProverTypes, ProverLists
<1>4. pc \in Writing /\ pc' \notin Writing /\ Left(pc) = << >> /\ pc \in Answering
  BY <1>2, LeftIs DEF Answering
<1>5. Challenged'
  BY <1>2, <1>4, SameColumns DEF Following
<1>6. ASSUME Scripted PROVE Scripted'
  <2>1. proof' = Sent(tp)'
    <3>1. Sent(tp \o items) = Sent(tp) \o Sent(items)
      BY <1>3, SentConcat
    <3>2. Sent(tp)' = Sent(tp \o items)
      BY <1>2 DEF Sent
    <3> QED BY <1>2, <1>6, <3>1, <3>2 DEF Scripted
  <2>2. PICK n : n = next' - 1
    OBVIOUS
  <2>3. PICK s : List(s) /\ Fits(tp, Opened(next - 1) \o s) /\ s \o << >> = Session
    BY <1>4, <1>6 DEF Scripted, Behind
  <2>4. s = Session
    BY <2>3, ConcatNone
  <2>5. Fits(tp, Opened(n) \o Session)
    BY <1>2, <2>2, <2>3, <2>4
  <2>6. items = OpeningSlots'
    BY <1>1, <1>2, SameOpening
  <2>7. Complete'
    BY <1>2, <1>3, <2>2, <2>5, <2>6, SameBehind
  <2>8. (\A i \in Proofs : \A col \in DOMAIN c.adv : advices[i][col] # 0 => c.adv[col] < next - 1)'
    BY <1>2, <1>6, SameColumns DEF Scripted
  <2> QED BY <1>2, <1>4, <2>1, <2>7, <2>8 DEF Scripted
<1> QED BY <1>2, <1>5, <1>6 DEF Following

LEMMA FailFollows == ASSUME Following, Fail PROVE Following'
BY FollowingRests DEF Fail

LEMMA ProverFollows == ASSUME ProverInv, Following, Caller \/ Prover PROVE Following'
<1>1. CASE Caller
  <2>1. CASE \E i \in Proofs : \E col \in DOMAIN c.adv : TornCommitPhase(i, col)
    BY <2>1, TornFollows
  <2>2. CASE NewError \/ MissingChallenges \/ NotInTable
    BY <2>2, FailFollows DEF NewError, MissingChallenges, NotInTable
  <2> QED BY <1>1, <2>1, <2>2, NewFollows, CommitPhaseFollows, GenPermutedLookupsFollows DEF Caller
<1>2. CASE Prover
  <2>1. CASE MissingAdvice \/ IdentityPoint \/ OpeningError
    BY <2>1, FailFollows DEF MissingAdvice, IdentityPoint, OpeningError
  <2> QED BY <1>2, <2>1, CommitFollows, EvaluateFollows, GenAdvicePolysFollows, CreateProofFollows DEF Prover
<1> QED BY <1>1, <1>2

-----------------------------------------------------------------------------
(* What is read at a step, and what is left to read from there. *)
ProductSlots   == (PermutationProducts \o LookupProducts) \o Shuffles
VanishingSlots == ((VanishingCommit \o <<Sq("y", 0)>>) \o VanishingConstruct) \o <<Sq("x", 0)>>
EvalSlots      == ((AdviceEvals \o FixedEvals) \o VanishingEvaluate) \o SigmaEvaluate
ArgumentSlots  == (PermutationEvals \o LookupEvals) \o ShuffleEvals

FromArguments  == ArgumentSlots \o OpeningSlots
FromEvals      == EvalSlots \o FromArguments
FromRandom     == VanishingSlots \o FromEvals
FromProducts   == ProductSlots \o FromRandom
FromLookups    == Lookups \o FromProducts
FromPhases     == Begun(Len(vk.phases)) \o FromLookups
Whole          == Greeting(0) \o FromPhases

LEMMA UnreadIsList ==
  ASSUME input \in Inputs
  PROVE  /\ List(ProductSlots) /\ List(VanishingSlots) /\ List(EvalSlots) /\ List(ArgumentSlots)
         /\ List(OpeningSlots) /\ List(FromArguments) /\ List(FromEvals) /\ List(FromRandom)
         /\ List(FromProducts) /\ List(FromLookups) /\ List(FromPhases) /\ List(Begun(Len(vk.phases)))
<1>1. List(<<Sq("y", 0)>>) /\ List(<<Sq("x", 0)>>)
  BY OneItem
<1>2. List(ProductSlots)
  <2>1. List(PermutationProducts \o LookupProducts)
    BY PartsAreLists, ListConcat
  <2> QED BY <2>1, PartsAreLists, ListConcat DEF ProductSlots
<1>3. List(VanishingSlots)
  <2>1. List(VanishingCommit \o <<Sq("y", 0)>>)
    BY <1>1, PartsAreLists, ListConcat
  <2>2. List((VanishingCommit \o <<Sq("y", 0)>>) \o VanishingConstruct)
    BY <2>1, PartsAreLists, ListConcat
  <2> QED BY <1>1, <2>2, ListConcat DEF VanishingSlots
<1>4. List(EvalSlots)
  <2>1. List(AdviceEvals \o FixedEvals)
    BY PartsAreLists, ListConcat
  <2>2. List((AdviceEvals \o FixedEvals) \o VanishingEvaluate)
    BY <2>1, PartsAreLists, ListConcat
  <2> QED BY <2>2, PartsAreLists, ListConcat DEF EvalSlots
<1>5. List(ArgumentSlots)
  <2>1. List(PermutationEvals \o LookupEvals)
    BY PartsAreLists, ListConcat
  <2> QED BY <2>1, PartsAreLists, ListConcat DEF ArgumentSlots
<1>6. List(OpeningSlots)
  BY OpeningSlotsClean
<1>7. List(FromArguments)
  BY <1>5, <1>6, ListConcat DEF FromArguments
<1>8. List(FromEvals)
  BY <1>4, <1>7, ListConcat DEF FromEvals
<1>9. List(FromRandom)
  BY <1>3, <1>8, ListConcat DEF FromRandom
<1>10. List(FromProducts)
  BY <1>2, <1>9, ListConcat DEF FromProducts
<1>11. List(FromLookups)
  BY <1>10, PartsAreLists, ListConcat DEF FromLookups
<1>12. List(Begun(Len(vk.phases)))
  <2>1. PICK n : n = Len(vk.phases)
    OBVIOUS
  <2>2. n \in Nat /\ n \in 0 .. n
    BY <2>1, AllPhasesIs
  <2> QED BY <2>1, <2>2, BegunIs
<1>13. List(FromPhases)
  BY <1>11, <1>12, ListConcat DEF FromPhases
<1> QED BY <1>2, <1>3, <1>4, <1>5, <1>6, <1>7, <1>8, <1>9, <1>10, <1>11, <1>12, <1>13

(* The verifier's script is the prover's, cut at other places. *)
LEMMA SessionIs ==
  ASSUME input \in Inputs
  PROVE  Session = Lookups \o (ProductSlots \o (VanishingSlots \o (EvalSlots \o ArgumentSlots)))
<1>1. FromPermutationEvals = ArgumentSlots
  <2>1. List(PermutationEvals) /\ List(LookupEvals) /\ List(ShuffleEvals)
    BY PartsAreLists
  <2>2. Assoc(PermutationEvals, LookupEvals, ShuffleEvals)
    BY <2>1, ConcatAssoc
  <2> QED BY <2>2 DEF FromPermutationEvals, ArgumentSlots, Assoc
<1>2. PICK ar, ev : ar = ArgumentSlots /\ ev = EvalSlots \o ar
  OBVIOUS
<1>3. List(ar) /\ List(ev)
  BY <1>2, UnreadIsList, ListConcat
<1>4. PICK x, y, a : x = <<Sq("x", 0)>> /\ y = <<Sq("y", 0)>> /\ a = AdviceEvals
  OBVIOUS
<1>5. List(x) /\ List(y) /\ List(a)
  BY <1>4, OneItem, PartsAreLists
<1>6. FromAdviceEvals = x \o ev
  <2>1. PICK f, v, s : f = FixedEvals /\ v = VanishingEvaluate /\ s = SigmaEvaluate
    OBVIOUS
  <2>2. List(f) /\ List(v) /\ List(s)
    BY <2>1, PartsAreLists
  <2>3. PICK w : w = ((f \o v) \o s) \o ar
    OBVIOUS
  <2>0. List(f) /\ List(v) /\ List(s) /\ List(ar) /\ List(a)
    BY <1>3, <1>5, <2>2
  <2>13. AssocThree(f, v, s, ar)
    BY <2>0, Regroup
  <2>4. w = f \o (v \o (s \o ar))
    BY <2>3, <2>13 DEF AssocThree
  <2>14. AssocFour(a, f, v, s, ar)
    BY <2>0, RegroupFour
  <2>15. ev = (((a \o f) \o v) \o s) \o ar
    BY <1>2, <1>4, <2>1 DEF EvalSlots
  <2>5. ev = a \o (f \o (v \o (s \o ar)))
    BY <2>14, <2>15 DEF AssocFour
  <2>6. ev = a \o w
    BY <2>4, <2>5
  <2>7. List(w)
    <3>1. List(f \o v)
      BY <2>2, ListConcat
    <3>2. List((f \o v) \o s)
      BY <2>2, <3>1, ListConcat
    <3> QED BY <1>3, <2>3, <3>2, ListConcat
  <2>8. List(x) /\ List(a) /\ List(w)
    BY <1>5, <2>7
  <2>9. Assoc(x, a, w)
    BY <2>8, ConcatAssoc
  <2>10. FromAdviceEvals = (x \o a) \o w
    BY <1>1, <1>2, <1>4, <2>1, <2>3 DEF FromAdviceEvals, FromFixedEvals
  <2> QED BY <2>6, <2>9, <2>10 DEF Assoc
<1>7. FromVanishing = VanishingSlots \o ev
  <2>1. PICK r, h, xe : r = VanishingCommit /\ h = VanishingConstruct /\ xe = x \o ev
    OBVIOUS
  <2>2. List(r) /\ List(h) /\ List(xe)
    BY <1>3, <1>5, <2>1, PartsAreLists, ListConcat
  <2>3. List(y) /\ List(h) /\ List(xe)
    BY <1>5, <2>2
  <2>4. Assoc(y, h, xe)
    BY <2>3, ConcatAssoc
  <2>5. FromVanishing = r \o ((y \o h) \o xe)
    BY <1>4, <1>6, <2>1 DEF FromVanishing, FromH
  <2>6. VanishingSlots \o ev = (((r \o y) \o h) \o x) \o ev
    BY <1>4, <2>1 DEF VanishingSlots
  <2>8. List(r) /\ List(y) /\ List(h) /\ List(x) /\ List(ev)
    BY <1>3, <1>5, <2>2
  <2>7. AssocFour(r, y, h, x, ev)
    BY <2>8, RegroupFour
  <2> QED BY <2>1, <2>4, <2>5, <2>6, <2>7 DEF Assoc, AssocFour
<1>8. PICK va : va = VanishingSlots \o ev
  OBVIOUS
<1>9. List(va)
  BY <1>3, <1>8, UnreadIsList, ListConcat
<1>10. FromPermutations = ProductSlots \o va
  <2>1. PICK p, l, s : p = PermutationProducts /\ l = LookupProducts /\ s = Shuffles
    OBVIOUS
  <2>2. List(p) /\ List(l) /\ List(s)
    BY <2>1, PartsAreLists
  <2>3. FromPermutations = p \o (l \o (s \o va))
    BY <1>7, <1>8, <2>1 DEF FromPermutations, FromLookupProducts, FromShuffles
  <2>4. ProductSlots \o va = ((p \o l) \o s) \o va
    BY <2>1 DEF ProductSlots
  <2>6. List(p) /\ List(l) /\ List(s) /\ List(va)
    BY <1>9, <2>2
  <2>5. AssocThree(p, l, s, va)
    BY <2>6, Regroup
  <2> QED BY <2>3, <2>4, <2>5 DEF AssocThree
<1> QED BY <1>2, <1>8, <1>10 DEF Session

LEMMA WholeIs ==
  ASSUME input \in Inputs
  PROVE  (Opened(Len(vk.phases)) \o Session) \o OpeningSlots = Whole
<1>1. PICK g, b, o : g = Greeting(0) /\ b = Begun(Len(vk.phases)) /\ o = OpeningSlots
  OBVIOUS
<1>2. PICK l, p, v, e, a : l = Lookups /\ p = ProductSlots /\ v = VanishingSlots /\ e = EvalSlots /\ a = ArgumentSlots
  OBVIOUS
<1>3. List(g) /\ List(b) /\ List(o) /\ List(l) /\ List(p) /\ List(v) /\ List(e) /\ List(a)
  BY <1>1, <1>2, UnreadIsList, GreetingIs, PartsAreLists
<1>4. PICK ea, vea, pvea, s : ea = e \o a /\ vea = v \o ea /\ pvea = p \o vea /\ s = l \o pvea
  OBVIOUS
<1>5. List(ea) /\ List(vea)
  BY <1>3, <1>4, ListConcat
<1>6. List(pvea) /\ List(s)
  BY <1>3, <1>4, <1>5, ListConcat
<1>7. Session = s
  BY <1>2, <1>4, SessionIs
<1>8. AssocThree(g, b, s, o)
  <2>1. List(g) /\ List(b) /\ List(s) /\ List(o)
    BY <1>3, <1>6
  <2> QED BY <2>1, Regroup
<1>9. s \o o = l \o (pvea \o o)
  <2>1. List(l) /\ List(pvea) /\ List(o)
    BY <1>3, <1>6
  <2>2. Assoc(l, pvea, o)
    BY <2>1, ConcatAssoc
  <2> QED BY <1>4, <2>2 DEF Assoc
<1>10. pvea \o o = p \o (vea \o o)
  <2>1. List(p) /\ List(vea) /\ List(o)
    BY <1>3, <1>5
  <2>2. Assoc(p, vea, o)
    BY <2>1, ConcatAssoc
  <2> QED BY <1>4, <2>2 DEF Assoc
<1>11. vea \o o = v \o (ea \o o)
  <2>1. List(v) /\ List(ea) /\ List(o)
    BY <1>3, <1>5
  <2>2. Assoc(v, ea, o)
    BY <2>1, ConcatAssoc
  <2> QED BY <1>4, <2>2 DEF Assoc
<1>12. ea \o o = e \o (a \o o)
  <2>1. List(e) /\ List(a) /\ List(o)
    BY <1>3
  <2>2. Assoc(e, a, o)
    BY <2>1, ConcatAssoc
  <2> QED BY <1>4, <2>2 DEF Assoc
<1>13. s \o o = FromLookups
  BY <1>1, <1>2, <1>9, <1>10, <1>11, <1>12 DEF FromLookups, FromProducts, FromRandom, FromEvals, FromArguments
<1>14. Whole = g \o (b \o (s \o o))
  BY <1>1, <1>13 DEF Whole, FromPhases
<1> QED BY <1>1, <1>7, <1>8, <1>14 DEF Opened, AssocThree

-----------------------------------------------------------------------------
(* What is left for the verifier to read at a step. *)
Reading == {"instances", "phases", "lookups", "products", "vanishing", "evals", "argument evals", "open", "check"}

Unread(at) ==
  CASE at = "instances"      -> Whole
    [] at = "phases"         -> FromPhases
    [] at = "lookups"        -> FromLookups
    [] at = "products"       -> FromProducts
    [] at = "vanishing"      -> FromRandom
    [] at = "evals"          -> FromEvals
    [] at = "argument evals" -> FromArguments
    [] at = "open"           -> OpeningSlots
    [] at = "check"          -> << >>

LEMMA UnreadIs ==
  /\ Unread("instances") = Whole /\ Unread("phases") = FromPhases /\ Unread("lookups") = FromLookups
  /\ Unread("products") = FromProducts /\ Unread("vanishing") = FromRandom /\ Unread("evals") = FromEvals
  /\ Unread("argument evals") = FromArguments /\ Unread("open") = OpeningSlots /\ Unread("check") = << >>
<1>1. /\ Unread("instances") = Whole /\ Unread("phases") = FromPhases /\ Unread("lookups") = FromLookups
      /\ Unread("products") = FromProducts
  BY DEF Unread
<1>2. /\ Unread("vanishing") = FromRandom /\ Unread("evals") = FromEvals
      /\ Unread("argument evals") = FromArguments /\ Unread("open") = OpeningSlots /\ Unread("check") = << >>
  BY DEF Unread
<1> QED BY <1>1, <1>2

(* What is left of the prover's transcript when the verifier has read its   *)
(* part of it.                                                             *)
Ahead(at) == \E rest : List(rest) /\ tp = tv \o rest /\ (at \in Reading => Fits(rest, Unread(at)))

Hears ==
  /\ vpc # "idle" => pc = "proved"
  /\ Honest => (\A s \in DOMAIN got : Meant(s, got[s])) /\ Ahead(vpc)

LEMMA SameUnread ==
  ASSUME UNCHANGED <<input, advices>>, NEW at, at \in Reading PROVE Unread(at)' = Unread(at)
<1>1. c' = c /\ vk' = vk /\ Proofs' = Proofs
  BY SameSession
<1>2. ShuffleEvals' = ShuffleEvals
  BY <1>1 DEF ShuffleEvals, ForEachCircuit, ForEach, ShuffleEvaluate
<1>3. LookupEvals' = LookupEvals
  BY <1>1 DEF LookupEvals, ForEachCircuit, ForEach, LookupEvaluate, Point
<1>4. PermutationEvals' = PermutationEvals
  BY <1>1 DEF PermutationEvals, ForEachCircuit, ForEach, PermutationEvaluate, LastRow, Point
<1>5. FixedEvals' = FixedEvals /\ SigmaEvaluate' = SigmaEvaluate /\ VanishingEvaluate' = VanishingEvaluate
  BY <1>1 DEF FixedEvals, Point, SigmaEvaluate, VanishingEvaluate
<1>6. AdviceEvals' = AdviceEvals
  BY <1>1 DEF AdviceEvals, ForEachCircuit, ForEach, Point
<1>7. VanishingConstruct' = VanishingConstruct /\ VanishingCommit' = VanishingCommit
  BY <1>1 DEF VanishingConstruct, VanishingCommit
<1>8. Shuffles' = Shuffles
  BY <1>1 DEF Shuffles, ForEachCircuit, ForEach, ShuffleCommitProduct
<1>9. LookupProducts' = LookupProducts
  BY <1>1 DEF LookupProducts, ForEachCircuit, ForEach, LookupCommitProduct
<1>10. PermutationProducts' = PermutationProducts
  BY <1>1 DEF PermutationProducts, ForEachCircuit, ForEach, PermutationCommit
<1>11. Lookups' = Lookups
  BY <1>1 DEF Lookups, ForEachCircuit, ForEach, LookupCommitPermuted
<1>12. Begun(Len(vk.phases))' = Begun(Len(vk.phases))
  BY <1>1 DEF Begun, AllPhases, Upto, PhaseSlots, ColumnSlots, ChallengeSlots, ForEachCircuit, ForEach
<1>13. OpeningSlots' = OpeningSlots /\ Greeting(0)' = Greeting(0)
  BY SameOpening, SameScript
<1>14. FromArguments' = FromArguments
  BY <1>2, <1>3, <1>4, <1>13 DEF FromArguments, ArgumentSlots
<1>15. FromEvals' = FromEvals
  BY <1>5, <1>6, <1>14 DEF FromEvals, EvalSlots
<1>16. FromRandom' = FromRandom
  BY <1>7, <1>15 DEF FromRandom, VanishingSlots
<1>17. FromProducts' = FromProducts
  BY <1>8, <1>9, <1>10, <1>16 DEF FromProducts, ProductSlots
<1>18. FromLookups' = FromLookups
  BY <1>11, <1>17 DEF FromLookups
<1>19. FromPhases' = FromPhases
  BY <1>12, <1>18 DEF FromPhases
<1>20. Whole' = Whole
  BY <1>13, <1>19 DEF Whole
<1> QED BY <1>13, <1>14, <1>15, <1>16, <1>17, <1>18, <1>19, <1>20 DEF Unread, Reading

LEMMA AheadNow ==
  ASSUME UNCHANGED <<input, advices, tp>>, NEW at, at = vpc', NEW rest, List(rest), tp = tv' \o rest,
         at \in Reading => Fits(rest, Unread(at))
  PROVE  Ahead(vpc)'
<1>1. vpc' \in Reading => Unread(vpc)' = Unread(at)
  <2>1. at \in Reading => Unread(at)' = Unread(at)
    BY SameUnread
  <2> QED BY <2>1 DEF Unread
<1>2. (vpc \in Reading)' <=> at \in Reading
  BY DEF Reading
<1>3. (vpc \in Reading)' => Fits(rest, Unread(vpc)')
  BY <1>1, <1>2
<1> QED BY <1>3 DEF Ahead, Fits, Reading

LEMMA InitHears == ASSUME Init PROVE Hears
BY DEF Init, Hears, Honest

(* The prover has stopped by the time the proof is out. *)
LEMMA ProverDone == ASSUME Caller \/ Prover PROVE pc # "proved"
<1>1. CASE Caller
  <2>1. \A i \in Proofs : \A col \in DOMAIN c.adv : TornCommitPhase(i, col) => pc # "proved"
    BY DEF TornCommitPhase
  <2> QED BY <1>1, <2>1 DEF Caller, New, NewError, CommitPhase, GenPermutedLookups, MissingChallenges, NotInTable, Write
<1>2. CASE Prover
  <2>1. CASE GenCommittedPermutationPolys \/ GenCommittedLookupsPolys \/ GenCommittedShuffles
    BY <2>1 DEF GenCommittedPermutationPolys, GenCommittedLookupsPolys, GenCommittedShuffles, Write
  <2>2. CASE GenCommittedVanishing \/ GenAdvicePolys \/ MissingAdvice \/ GenConstructedVanishing \/ IdentityPoint
    BY <2>2 DEF GenCommittedVanishing, GenAdvicePolys, MissingAdvice, GenConstructedVanishing, IdentityPoint, Write
  <2>3. CASE WriteAdviceEvals \/ WriteFixedEvals \/ EvaluatePermutations
    BY <2>3 DEF WriteAdviceEvals, WriteFixedEvals, EvaluatePermutations, Write
  <2>4. CASE EvaluateLookups \/ EvaluateShuffles \/ CreateProof \/ OpeningError
    BY <2>4 DEF EvaluateLookups, EvaluateShuffles, CreateProof, OpeningError, Write
  <2> QED BY <1>2, <2>1, <2>2, <2>3, <2>4 DEF Prover
<1> QED BY <1>1, <1>2

LEMMA ProverHears == ASSUME Hears, Caller \/ Prover PROVE Hears'
<1>1. vpc = "idle" /\ vpc' = vpc
  BY ProverDone, ProverAlone DEF Hears
<1> QED BY <1>1 DEF Hears, Honest


-----------------------------------------------------------------------------
LEMMA ReturnHears == ASSUME Hears, vpc # "idle", NEW answer, Return(answer) PROVE Hears'
<1>1. /\ vpc' = "done" /\ UNCHANGED <<input, advices, tp, proof, torn, pc, wire, told, tv, got>>
  BY DEF Return, proverVars
<1>2. ASSUME Honest' PROVE (\A s \in DOMAIN got : Meant(s, got[s]))' /\ Ahead(vpc)'
  <2>1. Honest
    BY <1>1, <1>2 DEF Honest, Intact
  <2>2. \A s \in DOMAIN got : Meant(s, got[s])
    BY <2>1 DEF Hears
  <2>3. PICK rest : List(rest) /\ tp = tv \o rest
    BY <2>1 DEF Hears, Ahead
  <2>4. PICK at : at = vpc'
    OBVIOUS
  <2>5. at \notin Reading /\ tp = tv' \o rest
    BY <1>1, <2>3, <2>4 DEF Reading
  <2>6. Ahead(vpc)'
    BY <1>1, <2>3, <2>4, <2>5, AheadNow
  <2> QED BY <1>1, <2>2, <2>6 DEF Meant
<1> QED BY <1>1, <1>2 DEF Hears

(* A step of the verifier asks for the first part of what is left. *)
LEMMA ReadHears ==
  ASSUME ProverInv, VerifierInv, Following, Hears, NEW from, from \in Reading, NEW to, to \in Reading,
         NEW slots, List(slots), Read(from, to, slots), NEW more, List(more),
         Unread(from) = slots \o more, Unread(to) = more
  PROVE  Hears'
<1>1. vpc = from /\ from # "idle" /\ to # "idle"
  BY DEF Read, Reading
<1>2. CASE Return("reject")
  BY <1>1, <1>2, ReturnHears
<1>3. CASE ~Return("reject")
  <2>1. vpc' = to /\ UNCHANGED <<input, advices, tp, proof, torn, pc, wire, told>>
    BY <1>3 DEF Read, proverVars
  <2>2. ASSUME Honest' PROVE (\A s \in DOMAIN got : Meant(s, got[s]))' /\ Ahead(vpc)'
    <3>1. Honest
      BY <1>1, <2>1, <2>2 DEF Honest, Intact
    <3>2. PICK rest : List(rest) /\ tp = tv \o rest /\ Fits(rest, slots \o more)
      <4>1. PICK rest : List(rest) /\ tp = tv \o rest /\ Fits(rest, Unread(from))
        BY <1>1, <3>1 DEF Hears, Ahead
      <4> QED BY <4>1
    <3>3. PICK mine, others : rest = mine \o others /\ Fits(mine, slots) /\ Fits(others, more)
      <4>1. FitsInParts(rest, slots, more)
        BY <3>2, FitsSplit
      <4> QED BY <4>1 DEF FitsInParts
    <3>4. List(mine) /\ List(others) /\ List(tv) /\ List(wire)
      BY <3>3 DEF Fits, VerifierInv
    <3>5. tp = tv \o (mine \o others)
      BY <3>2, <3>3
    <3>6. proof = Sent(tp) /\ IsPrefix(proof, wire)
      BY <3>1 DEF Honest, Intact, Following, Scripted
    <3>7. /\ tv' = tv \o mine
          /\ \A s \in DOMAIN got : got'[s] = got[s]
          /\ \A s \in DOMAIN got' : s \notin DOMAIN got => Meant(s, got'[s])
      BY <1>3, <3>3, <3>4, <3>5, <3>6, ReadFits
    <3>8. \A s \in DOMAIN got : Meant(s, got[s])
      BY <3>1 DEF Hears
    <3>9. ASSUME NEW s \in DOMAIN got' PROVE Meant(s, got'[s])
      <4>1. CASE s \in DOMAIN got
        BY <3>7, <3>8, <4>1
      <4> QED BY <3>7, <4>1
    <3>10. PICK t : t = tv'
      OBVIOUS
    <3>11. tp = t \o others
      <4>1. Assoc(tv, mine, others)
        BY <3>4, ConcatAssoc
      <4> QED BY <3>5, <3>7, <3>10, <4>1 DEF Assoc
    <3>12. Ahead(vpc)'
      <4>1. tp = tv' \o others
        BY <3>10, <3>11
      <4>2. Fits(others, Unread(to))
        BY <3>3
      <4> QED BY <2>1, <3>4, <4>1, <4>2, AheadNow
    <3> QED BY <3>9, <3>12 DEF Meant
  <2> QED BY <1>1, <2>1, <2>2 DEF Hears
<1> QED BY <1>2, <1>3

LEMMA ReadInstancesHears == ASSUME ProverInv, VerifierInv, Hears, ReadInstances PROVE Hears'
<1>1. /\ vpc = "instances" /\ vpc' = "phases" /\ tv' = Greeting(told)
      /\ UNCHANGED <<input, advices, tp, proof, torn, pc, wire, told, got>>
  BY DEF ReadInstances, proverVars, Greeting
<1>2. tv = << >> /\ DOMAIN got = {} /\ input \in Inputs
  BY <1>1 DEF VerifierInv, ProverInv, ProverTypes
<1>3. ASSUME Honest' PROVE (\A s \in DOMAIN got : Meant(s, got[s]))' /\ Ahead(vpc)'
  <2>1. Honest
    BY <1>1, <1>3 DEF Honest, Intact
  <2>2. PICK g, more : g = Greeting(0) /\ more = FromPhases
    OBVIOUS
  <2>3. tv' = g
    BY <1>1, <2>1, <2>2 DEF Honest, Intact
  <2>4. PICK rest : List(rest) /\ tp = << >> \o rest /\ Fits(rest, g \o more)
    <3>1. PICK rest : List(rest) /\ tp = tv \o rest /\ Fits(rest, Unread("instances"))
      BY <1>1, <2>1 DEF Hears, Ahead, Reading
    <3> QED BY <1>2, <2>2, <3>1, UnreadIs DEF Whole
  <2>5. tp = rest
    BY <2>4, ConcatNone
  <2>6. List(g) /\ \A k \in 1 .. Len(g) : ~Received(g[k])
    BY <1>2, <2>2, GreetingIs, GreetingOf
  <2>7. List(more)
    BY <1>2, <2>2, UnreadIsList
  <2>8. PICK a, b : tp = a \o b /\ Fits(a, g) /\ Fits(b, more)
    <3>1. List(g) /\ List(more) /\ Fits(rest, g \o more)
      BY <2>4, <2>6, <2>7
    <3>2. FitsInParts(rest, g, more)
      BY <3>1, FitsSplit
    <3> QED BY <2>5, <3>2 DEF FitsInParts
  <2>9. a = g
    <3>1. List(a) /\ List(g) /\ Len(a) = Len(g) /\ \A k \in 1 .. Len(g) : MeantFor(a[k], g[k])
      BY <2>8 DEF Fits
    <3>2. \A k \in 1 .. Len(a) : a[k] = g[k]
      BY <2>6, <3>1 DEF MeantFor
    <3> QED BY <3>1, <3>2, ListEqual
  <2>10. tp = tv' \o b /\ List(b)
    BY <2>3, <2>8, <2>9 DEF Fits
  <2>11. Fits(b, Unread("phases"))
    BY <2>2, <2>8, UnreadIs
  <2>12. Ahead(vpc)'
    BY <1>1, <2>10, <2>11, AheadNow
  <2> QED BY <1>1, <1>2, <2>12 DEF Meant
<1> QED BY <1>1, <1>3 DEF Hears

(* When the proof is out, all phases that have anything to say have been    *)
(* committed: the prover's transcript is the whole script.                 *)
LEMMA ProvedIsWhole == ASSUME ProverInv, Following, pc = "proved", ~torn PROVE Fits(tp, Whole)
<1>1. input \in Inputs /\ Committed /\ Challenged
  BY DEF ProverInv, ProverTypes, Kept, Answering, Following
<1>2. PICK n, l : n = next - 1 /\ l = Len(vk.phases)
  OBVIOUS
<1>3. l \in Nat /\ n \in 0 .. l /\ \A p \in 1 .. l : vk.phases[p] = p - 1
  <2>1. l \in Nat /\ \A p \in 1 .. l : vk.phases[p] = p - 1
    BY <1>1, <1>2, AllPhasesIs
  <2>2. next \in 1 .. l + 1
    BY <1>2 DEF ProverInv, ProverTypes
  <2> QED BY <1>2, <2>1, <2>2
<1>4. \A i \in Proofs : \A col \in DOMAIN c.adv : c.adv[col] < n
  BY <1>1, <1>2 DEF Committed, Following, Scripted
<1>5. ASSUME NEW idx \in DOMAIN c.chal PROVE c.chal[idx] < n
  <2>1. PICK k \in 1 .. n : vk.phases[k] = c.chal[idx]
    BY <1>1, <1>2 DEF Challenged
  <2> QED BY <1>3, <2>1
<1>6. Begun(l) = Begun(n)
  BY <1>1, <1>2, <1>3, <1>4, <1>5, NothingLeft
<1>7. Opened(n) = Opened(Len(vk.phases))
  BY <1>2, <1>6 DEF Opened
<1>8. PICK t : List(t) /\ tp = t \o OpeningSlots /\ Fits(t, Opened(n) \o Session)
  BY <1>2 DEF Following, Scripted, Complete
<1>9. Fits(OpeningSlots, OpeningSlots)
  BY <1>1, OpeningSlotsClean, CleanFits
<1>10. Fits(tp, (Opened(n) \o Session) \o OpeningSlots)
  BY <1>8, <1>9, FitsConcat
<1> QED BY <1>1, <1>7, <1>10, WholeIs

LEMMA CarryHears ==
  ASSUME ProverInv, VerifierInv, Following, NEW elements, NEW version, Carry(elements, version) PROVE Hears'
<1>1. /\ pc = "proved" /\ vpc = "idle" /\ vpc' = "instances"
      /\ UNCHANGED <<input, advices, tp, proof, torn, pc, tv, got>>
  BY DEF Carry, proverVars
<1>2. tv = << >> /\ DOMAIN got = {} /\ List(tp)
  BY <1>1 DEF VerifierInv, ProverInv, ProverLists
<1>3. ASSUME Honest' PROVE (\A s \in DOMAIN got : Meant(s, got[s]))' /\ Ahead(vpc)'
  <2>1. ~torn
    BY <1>1, <1>3 DEF Honest
  <2>2. PICK rest : rest = tp
    OBVIOUS
  <2>3. List(rest) /\ Fits(rest, Unread("instances"))
    BY <1>1, <1>2, <2>1, <2>2, ProvedIsWhole, UnreadIs
  <2>4. tp = tv' \o rest
    BY <1>1, <1>2, <2>2, ConcatNone
  <2>5. Ahead(vpc)'
    BY <1>1, <2>3, <2>4, AheadNow
  <2> QED BY <1>1, <1>2, <2>5 DEF Meant
<1> QED BY <1>1, <1>3 DEF Hears

LEMMA ChannelHears == ASSUME ProverInv, VerifierInv, Following, Channel PROVE Hears'
BY CarryHears DEF Channel, Deliver, Extend, Misinform, Cut, Change


-----------------------------------------------------------------------------
(* The verifier's claims are at the points of the prover's queries, one by  *)
(* one: so GWC opens at as many points on both sides.                      *)
LEMMA ClaimAt ==
  /\ \A com, r, eval : Claim(com, r, eval).at = Point(r)
  /\ \A com, r : Query(com, r).at = Point(r)
  /\ \A slot, r : ReadClaim(slot, r).at = Point(r)
  /\ \A com, r : KeyClaim(com, r).at = Point(r)
<1>1. \A com, r, eval : Claim(com, r, eval).at = Point(r)
  BY DEF Claim
<1>2. \A com, r : Query(com, r).at = Point(r)
  BY DEF Query
<1>3. \A slot, r : ReadClaim(slot, r).at = Point(r)
  BY <1>1 DEF ReadClaim
<1>4. \A com, r : KeyClaim(com, r).at = Point(r)
  BY <1>1 DEF KeyClaim
<1> QED BY <1>1, <1>2, <1>3, <1>4


LEMMA ArgumentsAskSame ==
  ASSUME input \in Inputs, NEW i
  PROVE  /\ SameAt(PermutationClaims(i), PermutationOpens(i))
         /\ SameAt(LookupClaims(i), LookupOpens(i))
         /\ SameAt(ShuffleClaims(i), ShuffleOpens(i))
<1>1. SameAt(PermutationClaims(i), PermutationOpens(i))
  <2>1. PICK n \in Nat : n = vk.sets
    BY TheKey
  <2>2. PICK b \in Nat : AllButLast = 1 .. b
    BY AllButLastIs
  <2>3. PICK fs, gs : /\ fs = [x \in 1 .. n |->
                           <<ReadClaim(Pt("permutation", i, x), 0), ReadClaim(Pt("permutation", i, x), 1)>>]
                      /\ gs = [x \in 1 .. n |->
                           <<Query(Pt("permutation", i, x), 0), Query(Pt("permutation", i, x), 1)>>]
    OBVIOUS
  <2>4. PICK t, u : /\ t = [k \in AllButLast |-> ReadClaim(Pt("permutation", i, n - k), -(vk.blinding + 1))]
                    /\ u = [k \in AllButLast |-> Query(Pt("permutation", i, n - k), -(vk.blinding + 1))]
    OBVIOUS
  <2>5. PermutationClaims(i) = FlattenSeq(fs) \o t /\ PermutationOpens(i) = FlattenSeq(gs) \o u
    BY <2>1, <2>3, <2>4 DEF PermutationClaims, PermutationOpens, ForEach
  <2>6. fs = [k \in 1 .. n |-> fs[k]] /\ gs = [k \in 1 .. n |-> gs[k]]
    BY <2>3
  <2>7. ASSUME NEW k \in 1 .. n PROVE SameAt(fs[k], gs[k])
    BY SMTT(40), <2>3, ClaimAt, SameAtTwo
  <2>8. SameAt(FlattenSeq(fs), FlattenSeq(gs))
    BY <2>6, <2>7, SameAtFlatten
  <2>9. t = [k \in 1 .. b |-> t[k]] /\ u = [k \in 1 .. b |-> u[k]] /\ \A k \in 1 .. b : t[k].at = u[k].at
    BY <2>2, <2>4, ClaimAt
  <2>10. SameAt(t, u)
    BY <2>9, SameAtOf
  <2> QED BY <2>5, <2>8, <2>10, SameAtConcat
<1>2. SameAt(LookupClaims(i), LookupOpens(i))
  <2>1. PICK n \in Nat : DOMAIN c.lookups = 1 .. n
    BY TheLists
  <2>2. PICK fs, gs : /\ fs = [l \in 1 .. n |->
                           <<ReadClaim(Pt("lookup product", i, l), 0), ReadClaim(Pt("lookup input", i, l), 0),
                             ReadClaim(Pt("lookup table", i, l), 0), ReadClaim(Pt("lookup input", i, l), -1),
                             ReadClaim(Pt("lookup product", i, l), 1)>>]
                      /\ gs = [l \in 1 .. n |->
                           <<Query(Pt("lookup product", i, l), 0), Query(Pt("lookup input", i, l), 0),
                             Query(Pt("lookup table", i, l), 0), Query(Pt("lookup input", i, l), -1),
                             Query(Pt("lookup product", i, l), 1)>>]
    OBVIOUS
  <2>3. LookupClaims(i) = FlattenSeq(fs) /\ LookupOpens(i) = FlattenSeq(gs)
    BY <2>1, <2>2 DEF LookupClaims, LookupOpens, ForEach
  <2>4. fs = [k \in 1 .. n |-> fs[k]] /\ gs = [k \in 1 .. n |-> gs[k]]
    BY <2>2
  <2>5. ASSUME NEW k \in 1 .. n PROVE SameAt(fs[k], gs[k])
    <3>1. PICK a, b, d, e, f : /\ a = ReadClaim(Pt("lookup product", i, k), 0)
                               /\ b = ReadClaim(Pt("lookup input", i, k), 0)
                               /\ d = ReadClaim(Pt("lookup table", i, k), 0)
                               /\ e = ReadClaim(Pt("lookup input", i, k), -1)
                               /\ f = ReadClaim(Pt("lookup product", i, k), 1)
      OBVIOUS
    <3>2. PICK u, v, w, x, y : /\ u = Query(Pt("lookup product", i, k), 0)
                               /\ v = Query(Pt("lookup input", i, k), 0)
                               /\ w = Query(Pt("lookup table", i, k), 0)
                               /\ x = Query(Pt("lookup input", i, k), -1)
                               /\ y = Query(Pt("lookup product", i, k), 1)
      OBVIOUS
    <3>3. a.at = u.at /\ b.at = v.at /\ d.at = w.at /\ e.at = x.at /\ f.at = y.at
      BY ZenonT(60), <3>1, <3>2, ClaimAt
    <3>4. SameAt(<<a, b, d, e, f>>, <<u, v, w, x, y>>)
      BY <3>3, SameAtFive
    <3> QED BY <2>2, <3>1, <3>2, <3>4
  <2> QED BY <2>3, <2>4, <2>5, SameAtFlatten
<1>3. SameAt(ShuffleClaims(i), ShuffleOpens(i))
  <2>1. PICK n \in Nat : DOMAIN c.shuffles = 1 .. n
    BY TheLists
  <2>2. PICK fs, gs : /\ fs = [s \in 1 .. n |->
                           <<ReadClaim(Pt("shuffle", i, s), 0), ReadClaim(Pt("shuffle", i, s), 1)>>]
                      /\ gs = [s \in 1 .. n |->
                           <<Query(Pt("shuffle", i, s), 0), Query(Pt("shuffle", i, s), 1)>>]
    OBVIOUS
  <2>3. ShuffleClaims(i) = FlattenSeq(fs) /\ ShuffleOpens(i) = FlattenSeq(gs)
    BY <2>1, <2>2 DEF ShuffleClaims, ShuffleOpens, ForEach
  <2>4. fs = [k \in 1 .. n |-> fs[k]] /\ gs = [k \in 1 .. n |-> gs[k]]
    BY <2>2
  <2>5. ASSUME NEW k \in 1 .. n PROVE SameAt(fs[k], gs[k])
    BY SMTT(40), <2>2, ClaimAt, SameAtTwo
  <2> QED BY <2>3, <2>4, <2>5, SameAtFlatten
<1> QED BY <1>1, <1>2, <1>3

LEMMA ClaimsAskSame == ASSUME input \in Inputs PROVE SameAt(Claims, ProverQueries)
<1> DEFINE qs == vk.queries["advice"]
           fx == vk.queries["fixed"]
           a == [i \in Proofs |-> [k \in DOMAIN qs |-> ReadClaim(Pt("advice", i, qs[k][2]), qs[k][3])]]
           p == [i \in Proofs |-> PermutationClaims(i)]
           l == [i \in Proofs |-> LookupClaims(i)]
           s == [i \in Proofs |-> ShuffleClaims(i)]
           f == [k \in DOMAIN fx |-> KeyClaim(Pt("fixed", 0, fx[k][2]), fx[k][3])]
           aa == [i \in Proofs |-> [k \in DOMAIN qs |-> Query(AdvicePoly(i, qs[k][2]), qs[k][3])]]
           pp == [i \in Proofs |-> PermutationOpens(i)]
           ll == [i \in Proofs |-> LookupOpens(i)]
           ss == [i \in Proofs |-> ShuffleOpens(i)]
           ff == [k \in DOMAIN fx |-> Query(Pt("fixed", 0, fx[k][2]), fx[k][3])]
<1>1. PICK n : n \in Nat /\ DOMAIN qs = 1 .. n
  BY TheKey, ListDomain
<1>2. PICK r : r \in Nat /\ DOMAIN fx = 1 .. r
  BY TheKey, ListDomain
<1>3. PICK u : u \in Nat /\ DOMAIN c.perm = 1 .. u
  BY TheLists
<1>4. Claims =
        FlattenSeq([i \in Proofs |-> ((a[i] \o p[i]) \o l[i]) \o s[i]]) \o f \o SigmaClaims \o VanishingClaims
  BY DEF Claims, ForEachCircuit, ForEach
<1>5. ProverQueries =
        FlattenSeq([i \in Proofs |-> ((aa[i] \o pp[i]) \o ll[i]) \o ss[i]]) \o ff \o SigmaOpens \o VanishingOpens
  BY DEF ProverQueries, ForEachCircuit, ForEach
<1> HIDE DEF qs, fx
<1>6. ASSUME NEW i \in Proofs PROVE SameAt(a[i], aa[i])
  <2>1. PICK d, e : d = a[i] /\ e = aa[i]
    OBVIOUS
  <2>2. d = [k \in 1 .. n |-> d[k]] /\ e = [k \in 1 .. n |-> e[k]] /\ \A k \in 1 .. n : d[k].at = e[k].at
    BY <1>1, <2>1, ClaimAt
  <2>3. SameAt(d, e)
    BY <1>1, <2>2, SameAtOf
  <2> QED BY <2>1, <2>3
<1>7. \A i \in Proofs : SameAt(p[i], pp[i]) /\ SameAt(l[i], ll[i]) /\ SameAt(s[i], ss[i])
  BY ArgumentsAskSame
<1>8. SameAt(f, ff)
  <2>1. PICK d, e : d = f /\ e = ff
    OBVIOUS
  <2>2. d = [k \in 1 .. r |-> d[k]] /\ e = [k \in 1 .. r |-> e[k]] /\ \A k \in 1 .. r : d[k].at = e[k].at
    BY <1>2, <2>1, ClaimAt
  <2>3. SameAt(d, e)
    BY <1>2, <2>2, SameAtOf
  <2> QED BY <2>1, <2>3
<1>9. SameAt(SigmaClaims, SigmaOpens)
  <2>1. PICK d, e : d = SigmaClaims /\ e = SigmaOpens
    OBVIOUS
  <2>2. d = [k \in 1 .. u |-> d[k]] /\ e = [k \in 1 .. u |-> e[k]] /\ \A k \in 1 .. u : d[k].at = e[k].at
    BY <1>3, <2>1, ClaimAt DEF SigmaClaims, SigmaOpens
  <2>3. SameAt(d, e)
    BY <1>3, <2>2, SameAtOf
  <2> QED BY <2>1, <2>3
<1>10. SameAt(VanishingClaims, VanishingOpens)
  BY ClaimAt, SameAtTwo DEF VanishingClaims, VanishingOpens, QuotientClaim
<1> HIDE DEF a, p, l, s, f, aa, pp, ll, ss, ff
<1>11. /\ \A i \in Proofs : SameAt(a[i], aa[i])
       /\ \A i \in Proofs : SameAt(p[i], pp[i])
       /\ \A i \in Proofs : SameAt(l[i], ll[i])
       /\ \A i \in Proofs : SameAt(s[i], ss[i])
  BY <1>6, <1>7
<1>12. PICK fs, gs : /\ fs = [i \in Proofs |-> ((a[i] \o p[i]) \o l[i]) \o s[i]]
                     /\ gs = [i \in Proofs |-> ((aa[i] \o pp[i]) \o ll[i]) \o ss[i]]
  OBVIOUS
<1>13. ASSUME NEW i \in Proofs PROVE SameAt(fs[i], gs[i])
  <2>1. SameAt(a[i] \o p[i], aa[i] \o pp[i])
    BY <1>11, SameAtConcat
  <2>2. SameAt((a[i] \o p[i]) \o l[i], (aa[i] \o pp[i]) \o ll[i])
    BY <1>11, <2>1, SameAtConcat
  <2>3. SameAt(((a[i] \o p[i]) \o l[i]) \o s[i], ((aa[i] \o pp[i]) \o ll[i]) \o ss[i])
    BY <1>11, <2>2, SameAtConcat
  <2> QED BY <1>12, <2>3
<1>14. PICK m \in Nat : Proofs = 1 .. m
  BY TheCircuit
<1>15. fs = [i \in 1 .. m |-> fs[i]] /\ gs = [i \in 1 .. m |-> gs[i]]
  BY <1>12, <1>14
<1>16. PICK t, w : t = FlattenSeq(fs) /\ w = FlattenSeq(gs)
  OBVIOUS
<1>17. SameAt(t, w)
  BY <1>13, <1>14, <1>15, <1>16, SameAtFlatten
<1>18. SameAt(t \o f, w \o ff)
  BY <1>8, <1>17, SameAtConcat
<1>19. SameAt((t \o f) \o SigmaClaims, (w \o ff) \o SigmaOpens)
  BY <1>9, <1>18, SameAtConcat
<1>20. SameAt(((t \o f) \o SigmaClaims) \o VanishingClaims, ((w \o ff) \o SigmaOpens) \o VanishingOpens)
  BY <1>10, <1>19, SameAtConcat
<1> QED BY <1>4, <1>5, <1>12, <1>16, <1>20

LEMMA OpeningAgrees ==
  ASSUME input \in Inputs
  PROVE  (IF input.scheme = "shplonk" THEN VerifyShplonk ELSE VerifyGwc(Asked(Claims))) = OpeningSlots
<1>1. PICK s, t, q : s = Claims /\ t = ProverQueries /\ q = Asked(s)
  OBVIOUS
<1>2. SameAt(s, t)
  BY <1>1, ClaimsAskSame
<1>3. PICK n \in Nat : DOMAIN s = 1 .. n /\ DOMAIN t = 1 .. n /\ \A k \in 1 .. n : s[k].at = t[k].at
  BY <1>2, ListDomain DEF SameAt
<1>4. DOMAIN q = 1 .. n /\ \A k \in 1 .. n : q[k].at = s[k].at
  BY <1>1, <1>3 DEF Asked
<1>5. {q[k].at : k \in DOMAIN q} = {t[k].at : k \in DOMAIN t}
  BY <1>3, <1>4
<1>6. VerifyGwc(q) = ProveGwc(t)
  BY <1>5 DEF VerifyGwc, ProveGwc
<1>7. VerifyShplonk = ProveShplonk
  BY DEF VerifyShplonk, ProveShplonk
<1> QED BY <1>1, <1>6, <1>7 DEF OpeningSlots


-----------------------------------------------------------------------------
(* The verifier asks, step by step, for what is left of the script. *)
LEMMA SlotsAre ==
  ASSUME input \in Inputs
  PROVE  /\ ReadPhases => Read("phases", "lookups", Begun(Len(vk.phases)))
         /\ ReadLookups => Read("lookups", "products", Lookups)
         /\ ReadProducts => Read("products", "vanishing", ProductSlots)
         /\ ReadVanishing => Read("vanishing", "evals", VanishingSlots)
         /\ ReadColumnEvals => Read("evals", "argument evals", EvalSlots)
         /\ ReadArgumentEvals => Read("argument evals", "open", ArgumentSlots)
         /\ ReadOpening => Read("open", "check", OpeningSlots)
<1>1. ASSUME ReadPhases PROVE Read("phases", "lookups", Begun(Len(vk.phases)))
  <2>1. PICK s : s = ForEach(DOMAIN vk.phases, LAMBDA p :
                   ForEachCircuit(LAMBDA i : LET cols == ColumnsOf(c, vk.phases[p]) IN
                     [k \in DOMAIN cols |-> Pt("advice", i, cols[k])])
                   \o LET chals == ChallengesOf(c, vk.phases[p]) IN
                        [k \in DOMAIN chals |-> Sq("challenge", chals[k])])
    OBVIOUS
  <2>2. s = FlattenSeq(AllPhases)
    BY <2>1 DEF ForEach, AllPhases, PhaseSlots, ColumnSlots, ChallengeSlots
  <2>3. PICK n : n = Len(vk.phases)
    OBVIOUS
  <2>4. Begun(n) = FlattenSeq(AllPhases)
    BY <2>3, AllPhasesIs
  <2>5. Read("phases", "lookups", s)
    BY <1>1, <2>1 DEF ReadPhases
  <2> QED BY <2>2, <2>3, <2>4, <2>5
<1>2. ASSUME ReadLookups PROVE Read("lookups", "products", Lookups)
  BY <1>2 DEF ReadLookups, Lookups, LookupReadPermuted, LookupCommitPermuted
<1>3. ASSUME ReadProducts PROVE Read("products", "vanishing", ProductSlots)
  BY <1>3 DEF ReadProducts, ProductSlots, PermutationProducts, LookupProducts, Shuffles,
     PermutationReadProducts, PermutationCommit, LookupReadProduct, LookupCommitProduct,
     ShuffleReadProduct, ShuffleCommitProduct
<1>4. ASSUME ReadVanishing PROVE Read("vanishing", "evals", VanishingSlots)
  BY <1>4 DEF ReadVanishing, VanishingSlots, VanishingReadBeforeY, VanishingCommit,
     VanishingReadAfterY, VanishingConstruct
<1>5. ASSUME ReadColumnEvals PROVE Read("evals", "argument evals", EvalSlots)
  BY <1>5 DEF ReadColumnEvals, EvalSlots, AdviceEvals, FixedEvals, VanishingEvaluateAfterX,
     VanishingEvaluate, SigmaReadEvals, SigmaEvaluate
<1>6. ASSUME ReadArgumentEvals PROVE Read("argument evals", "open", ArgumentSlots)
  BY <1>6 DEF ReadArgumentEvals, ArgumentSlots, PermutationEvals, LookupEvals, ShuffleEvals,
     PermutationReadEvals, PermutationEvaluate, LookupReadEvals, LookupEvaluate, ShuffleReadEvals, ShuffleEvaluate
<1>7. ASSUME ReadOpening PROVE Read("open", "check", OpeningSlots)
  <2>1. PICK s, q : /\ q = Asked(Claims)
                    /\ s = IF input.scheme = "shplonk" THEN VerifyShplonk ELSE VerifyGwc(q)
    OBVIOUS
  <2>2. Read("open", "check", s)
    BY <1>7, <2>1 DEF ReadOpening
  <2> QED BY <2>1, <2>2, OpeningAgrees
<1> QED BY <1>1, <1>2, <1>3, <1>4, <1>5, <1>6, <1>7

LEMMA VerifierHears == ASSUME ProverInv, VerifierInv, Following, Hears, Verifier PROVE Hears'
<1>1. input \in Inputs
  BY DEF ProverInv, ProverTypes
<1>2. CASE ReadInstances
  BY <1>2, ReadInstancesHears
<1>3. CASE ReadPhases
  <2>1. PICK slots, more : slots = Begun(Len(vk.phases)) /\ more = FromLookups
    OBVIOUS
  <2>2. Read("phases", "lookups", slots) /\ List(slots) /\ List(more)
    BY <1>1, <1>3, <2>1, SlotsAre, UnreadIsList
  <2>3. Unread("phases") = slots \o more /\ Unread("lookups") = more
    BY <2>1, UnreadIs DEF FromPhases
  <2> QED BY <2>2, <2>3, ReadHears DEF Reading
<1>4. CASE ReadLookups
  <2>1. PICK slots, more : slots = Lookups /\ more = FromProducts
    OBVIOUS
  <2>2. Read("lookups", "products", slots) /\ List(slots) /\ List(more)
    BY <1>1, <1>4, <2>1, SlotsAre, UnreadIsList, PartsAreLists
  <2>3. Unread("lookups") = slots \o more /\ Unread("products") = more
    BY <2>1, UnreadIs DEF FromLookups
  <2> QED BY <2>2, <2>3, ReadHears DEF Reading
<1>5. CASE ReadProducts
  <2>1. PICK slots, more : slots = ProductSlots /\ more = FromRandom
    OBVIOUS
  <2>2. Read("products", "vanishing", slots) /\ List(slots) /\ List(more)
    BY <1>1, <1>5, <2>1, SlotsAre, UnreadIsList
  <2>3. Unread("products") = slots \o more /\ Unread("vanishing") = more
    BY <2>1, UnreadIs DEF FromProducts
  <2> QED BY <2>2, <2>3, ReadHears DEF Reading
<1>6. CASE ReadVanishing
  <2>1. PICK slots, more : slots = VanishingSlots /\ more = FromEvals
    OBVIOUS
  <2>2. Read("vanishing", "evals", slots) /\ List(slots) /\ List(more)
    BY <1>1, <1>6, <2>1, SlotsAre, UnreadIsList
  <2>3. Unread("vanishing") = slots \o more /\ Unread("evals") = more
    BY <2>1, UnreadIs DEF FromRandom
  <2> QED BY <2>2, <2>3, ReadHears DEF Reading
<1>7. CASE ReadColumnEvals
  <2>1. PICK slots, more : slots = EvalSlots /\ more = FromArguments
    OBVIOUS
  <2>2. Read("evals", "argument evals", slots) /\ List(slots) /\ List(more)
    BY <1>1, <1>7, <2>1, SlotsAre, UnreadIsList
  <2>3. Unread("evals") = slots \o more /\ Unread("argument evals") = more
    BY <2>1, UnreadIs DEF FromEvals
  <2> QED BY <2>2, <2>3, ReadHears DEF Reading
<1>8. CASE ReadArgumentEvals
  <2>1. PICK slots, more : slots = ArgumentSlots /\ more = OpeningSlots
    OBVIOUS
  <2>2. Read("argument evals", "open", slots) /\ List(slots) /\ List(more)
    BY <1>1, <1>8, <2>1, SlotsAre, UnreadIsList
  <2>3. Unread("argument evals") = slots \o more /\ Unread("open") = more
    BY <2>1, UnreadIs DEF FromArguments
  <2> QED BY <2>2, <2>3, ReadHears DEF Reading
<1>9. CASE ReadOpening
  <2>1. PICK slots, more : slots = OpeningSlots /\ more = << >>
    OBVIOUS
  <2>2. Read("open", "check", slots) /\ List(slots) /\ List(more)
    BY <1>1, <1>9, <2>1, SlotsAre, UnreadIsList, NoItems
  <2>3. Unread("open") = slots \o more /\ Unread("check") = more
    BY <2>1, <2>2, UnreadIs, ConcatNone
  <2> QED BY <2>2, <2>3, ReadHears DEF Reading
<1>10. CASE Check
  <2>1. vpc # "idle" /\ \E answer : Return(answer)
    BY <1>10 DEF Check
  <2> QED BY <2>1, ReturnHears
<1> QED BY <1>2, <1>3, <1>4, <1>5, <1>6, <1>7, <1>8, <1>9, <1>10 DEF Verifier

LEMMA HearsRests ==
  ASSUME Hears, UNCHANGED <<input, proverVars, verifierVars>> PROVE Hears'
<1>1. UNCHANGED <<input, advices, tp, proof, torn, pc, wire, told, vpc, tv, got>>
  BY DEF proverVars, verifierVars
<1>2. ASSUME Honest' PROVE (\A s \in DOMAIN got : Meant(s, got[s]))' /\ Ahead(vpc)'
  <2>1. Honest
    BY <1>1, <1>2 DEF Honest, Intact
  <2>2. \A s \in DOMAIN got : Meant(s, got[s])
    BY <2>1 DEF Hears
  <2>3. PICK at : at = vpc'
    OBVIOUS
  <2>4. PICK rest : List(rest) /\ tp = tv \o rest /\ (at \in Reading => Fits(rest, Unread(at)))
    <3>1. at = vpc
      BY <1>1, <2>3
    <3> QED BY <2>1, <3>1 DEF Hears, Ahead
  <2>5. tp = tv' \o rest
    BY <1>1, <2>4
  <2>6. Ahead(vpc)'
    BY <1>1, <2>3, <2>4, <2>5, AheadNow
  <2> QED BY <1>1, <2>2, <2>6 DEF Meant
<1> QED BY <1>1, <1>2 DEF Hears

Agree == Inv /\ Following /\ Hears

LEMMA AgreeHolds == Spec => []Agree
<1>1. Init => Agree
  BY InitProver, InitVerifier, InitFollows, InitHears DEF Agree, Inv
<1>2. Agree /\ Inv' /\ [Next]_vars => Agree'
  <2> SUFFICES ASSUME Agree, Inv', [Next]_vars PROVE Agree'
    OBVIOUS
  <2>1. CASE Caller \/ Prover
    BY <2>1, ProverFollows, ProverHears DEF Agree, Inv
  <2>2. CASE Channel \/ Verifier
    <3>1. Following'
      BY <2>2, VerifierAlone, FollowingRests DEF Agree
    <3>2. Hears'
      BY <2>2, ChannelHears, VerifierHears DEF Agree, Inv
    <3> QED BY <3>1, <3>2 DEF Agree
  <2>3. CASE UNCHANGED vars
    <3>1. Following'
      BY <2>3, FollowingRests DEF Agree, vars, proverVars
    <3>2. Hears'
      BY <2>3, HearsRests DEF Agree, vars
    <3> QED BY <3>1, <3>2 DEF Agree
  <2> QED BY <2>1, <2>2, <2>3 DEF Next
<1> QED BY <1>1, <1>2, InvHolds, PTL DEF Spec

(* prover.rs and verifier.rs number their steps TRANSCRIPT-1 to 23, and no
   element carries its number.  Whatever the circuit, the instances and the
   scheme: in a session no write of which failed, delivered as it was sent,
   each element the verifier has read is the one the prover wrote for that
   slot, and its transcript is a prefix of the prover's. *)
THEOREM PartiesAgree == Spec => []SlotsAgree
<1>1. Agree => SlotsAgree
  <2> SUFFICES ASSUME Agree, Honest PROVE (\A s \in DOMAIN got : Meant(s, got[s])) /\ IsPrefix(tv, tp)
    BY DEF SlotsAgree
  <2>1. \A s \in DOMAIN got : Meant(s, got[s])
    BY DEF Agree, Hears
  <2>2. PICK rest : List(rest) /\ tp = tv \o rest
    BY DEF Agree, Hears, Ahead
  <2>3. List(tv) /\ List(tp)
    BY DEF Agree, Inv, VerifierInv, ProverInv, ProverLists
  <2> QED BY <2>1, <2>2, <2>3, PrefixOf
<1> QED BY <1>1, AgreeHolds, PTL

-----------------------------------------------------------------------------
(***************************************************************************)
(* What is sent, and what arrives.                                         *)
(***************************************************************************)
(* Each item that is sent stands for one that was absorbed. *)
(* The element sent at a place is an item of the list, as many sent up to it. *)
SentAs(t, x) ==
  \E k \in 1 .. Len(t) : Received(t[k]) /\ x = Len(Sent(Upto(t, k))) /\ Sent(t)[x] = t[k]

LEMMA SentFrom == ASSUME NEW t, List(t), NEW x, x \in 1 .. Len(Sent(t)) PROVE SentAs(t, x)
<1>1. PICK n : n = Len(t)
  OBVIOUS
<1>2. n \in Nat /\ Upto(t, n) = t
  BY <1>1 DEF List, Upto
<1> DEFINE S == {m \in Nat : m <= n => \A y \in 1 .. Len(Sent(Upto(t, m))) :
                   \E k \in 1 .. m : Received(t[k]) /\ y = Len(Sent(Upto(t, k)))}
<1>3. 0 \in S
  <2>1. Upto(t, 0) = << >>
    BY DEF Upto
  <2>2. Len(Sent(Upto(t, 0))) = 0
    BY <2>1, SentNothing, NoItems
  <2> QED BY <2>2
<1>4. ASSUME NEW m \in Nat, m \in S PROVE m + 1 \in S
  <2>1. PICK u, v, e : u = Upto(t, m) /\ v = Upto(t, m + 1) /\ e = t[m + 1]
    OBVIOUS
  <2>2. v = u \o <<e>> /\ List(u)
    BY <2>1, UptoMore, UptoIs
  <2>3. Sent(v) = Sent(u) \o Piece(e)
    BY <2>2, SentMore
  <2>4. PICK a, b : a = Sent(u) /\ b = Piece(e)
    OBVIOUS
  <2>5. List(a) /\ List(b) /\ Len(b) = (IF Received(e) THEN 1 ELSE 0) /\ Len(a) \in Nat
    BY <2>2, <2>4, SentIs, PieceIs, ListDomain
  <2>6. Len(Sent(v)) = Len(a) + Len(b)
    BY <2>3, <2>4, <2>5, ListConcat
  <2>7. ASSUME m + 1 <= n, NEW y \in 1 .. Len(Sent(v))
        PROVE  \E k \in 1 .. m + 1 : Received(t[k]) /\ y = Len(Sent(Upto(t, k)))
    <3>1. CASE y \in 1 .. Len(a)
      <4>1. \E k \in 1 .. m : Received(t[k]) /\ y = Len(Sent(Upto(t, k)))
        BY <1>4, <2>1, <2>4, <2>7, <1>2, <3>1
      <4> QED BY <4>1
    <3>2. CASE y \notin 1 .. Len(a)
      <4>1. Received(e) /\ y = Len(Sent(v)) /\ m + 1 \in 1 .. m + 1
        BY <2>5, <2>6, <2>7, <3>2
      <4> QED BY <2>1, <4>1
    <3> QED BY <3>1, <3>2
  <2> QED BY <2>1, <2>7
<1>5. Nat \subseteq S
  <2> HIDE DEF S
  <2> QED BY <1>3, <1>4, SetInduction
<1>6. PICK k \in 1 .. n : Received(t[k]) /\ x = Len(Sent(Upto(t, k)))
  BY <1>2, <1>5
<1>7. Sent(t)[x] = t[k]
  BY <1>1, <1>6, PlaceIs
<1> QED BY <1>1, <1>6, <1>7 DEF SentAs

(* What the prover sent next is what arrives next. *)
Arrived(x, wanted, before) ==
  /\ Fits(x, wanted) /\ before \in Nat /\ before + Len(x) <= Len(wire)
  /\ \A k \in 1 .. Len(x) : wire[before + k] = x[k]

LEMMA Arrives ==
  ASSUME NEW mine, NEW others, NEW slots, Fits(mine, slots), List(others), List(tv), tp = tv \o (mine \o others),
         proof = Sent(tp), List(wire), IsPrefix(proof, wire)
  PROVE  Arrived(Sent(mine), Sent(slots), Len(Sent(tv)))
<1>0. PICK x, wanted, before : x = Sent(mine) /\ wanted = Sent(slots) /\ before = Len(Sent(tv))
  OBVIOUS
<1>1. PICK z : z = Sent(others)
  OBVIOUS
<1>2. List(mine) /\ List(slots)
  BY DEF Fits
<1>3. List(x) /\ List(z) /\ List(Sent(tv)) /\ List(wanted)
  BY <1>0, <1>1, <1>2, SentIs
<1>4. proof = Sent(tv) \o (x \o z)
  <2>1. List(mine \o others)
    BY <1>2, ListConcat
  <2>2. Sent(tp) = Sent(tv) \o Sent(mine \o others) /\ Sent(mine \o others) = x \o z
    BY <1>0, <1>1, <1>2, <2>1, SentConcat
  <2> QED BY <2>2
<1>5. Fits(x, wanted)
  BY <1>0, FitsSent
<1>6. PICK l, q, y, r : l = Len(x) /\ q = Len(z) /\ y = x \o z /\ r = Len(y)
  OBVIOUS
<1>7. Join(y, x, l, z, q)
  BY <1>3, <1>6, Joins
<1>8. List(y) /\ r = l + q /\ l \in Nat /\ q \in Nat /\ \A k \in 1 .. l : y[k] = x[k]
  BY <1>6, <1>7 DEF Join
<1>9. Join(proof, Sent(tv), before, y, r)
  BY <1>0, <1>3, <1>4, <1>6, <1>8, Joins
<1>10. /\ List(proof) /\ Len(proof) = before + r /\ before \in Nat
       /\ \A k \in 1 .. r : proof[before + k] = y[k]
  BY <1>9 DEF Join
<1>11. Len(proof) <= Len(wire) /\ \A i \in 1 .. Len(proof) : proof[i] = wire[i]
  BY <1>10, PrefixOf
<1>12. Len(wire) \in Nat
  BY ListDomain
<1>13. ASSUME NEW k \in 1 .. l PROVE wire[before + k] = x[k]
  <2>1. k \in 1 .. r /\ before + k \in 1 .. Len(proof)
    BY <1>8, <1>10
  <2> QED BY <1>8, <1>10, <1>11, <2>1
<1> QED BY <1>0, <1>5, <1>6, <1>8, <1>10, <1>11, <1>12, <1>13 DEF Arrived

(* What has been read is, in order, what was given. *)
Echoes == \A x \in 1 .. Len(Sent(tv)) : Sent(tv)[x] = wire[x]

(* t is slots with what was given from before on in the places of points   *)
(* and scalars.                                                            *)
Copies(t, slots, before) ==
  /\ List(t) /\ Len(Sent(t)) = Len(Sent(slots))
  /\ \A x \in 1 .. Len(Sent(t)) : Sent(t)[x] = wire[before + x]
  /\ \A k \in 1 .. Len(t) : Received(t[k]) \/ t[k] = slots[k]

LEMMA TakenEchoes ==
  ASSUME NEW slots, List(slots), NEW before, NEW t, t = Taken(slots, before), before \in Nat,
         \A k \in 1 .. Len(wire) : Received(wire[k]), Len(wire) \in Nat, before + Len(Sent(slots)) <= Len(wire)
  PROVE  Copies(t, slots, before)
<1>1. PICK n, w : n = Len(slots) /\ w = Sent(slots)
  OBVIOUS
<1>2. n \in Nat /\ DOMAIN slots = 1 .. n /\ List(w) /\ Len(w) \in Nat
  BY <1>1, SentIs, ListDomain
<1>3. t = [k \in 1 .. n |-> t[k]]
  BY <1>2 DEF Taken
<1>4. List(t) /\ Len(t) = n
  BY <1>2, <1>3, ListOf
<1>5. ASSUME NEW k \in 1 .. n
      PROVE  IF Received(slots[k])
               THEN /\ Received(t[k]) /\ t[k] = wire[before + Len(Sent(Upto(slots, k)))]
                    /\ before + Len(Sent(Upto(slots, k))) \in 1 .. Len(wire)
               ELSE t[k] = slots[k]
  <2>1. CASE Received(slots[k])
    <3>1. PICK p : p = Len(Sent(Upto(slots, k)))
      OBVIOUS
    <3>2. SubSeq(slots, 1, k) = Upto(slots, k)
      <4>1. k \in 0 .. Len(slots)
        BY <1>1, <1>2
      <4> QED BY <4>1, SplitAt
    <3>3. t[k] = wire[before + p]
      BY <1>2, <2>1, <3>1, <3>2 DEF Taken, Received
    <3>4. p \in 1 .. Len(w)
      BY <1>1, <2>1, <3>1, PlaceIs
    <3>5. before + p \in 1 .. Len(wire)
      BY <1>1, <1>2, <3>4
    <3> QED BY <2>1, <3>1, <3>3, <3>5
  <2>2. CASE ~Received(slots[k])
    BY <1>2, <2>2 DEF Taken, Received
  <2> QED BY <2>1, <2>2
<1>6. \A k \in 1 .. n : Received(t[k]) <=> Received(slots[k])
  BY <1>5
<1>7. Len(Sent(t)) = Len(w)
  BY <1>1, <1>4, <1>6, SentAlike
<1>8. ASSUME NEW x \in 1 .. Len(Sent(t)) PROVE Sent(t)[x] = wire[before + x]
  <2>1. PICK k \in 1 .. n : Received(t[k]) /\ x = Len(Sent(Upto(t, k))) /\ Sent(t)[x] = t[k]
    <3>1. SentAs(t, x)
      BY <1>4, <1>8, SentFrom
    <3> QED BY <1>4, <3>1 DEF SentAs
  <2>2. PICK a, b : a = Upto(t, k) /\ b = Upto(slots, k)
    OBVIOUS
  <2>3. /\ List(a) /\ Len(a) = k /\ List(b) /\ Len(b) = k
        /\ \A i \in 1 .. k : a[i] = t[i] /\ b[i] = slots[i]
    <3>1. k \in Nat
      BY <1>2
    <3>2. List(a) /\ Len(a) = k /\ \A i \in 1 .. k : a[i] = t[i]
      BY <2>2, <3>1, UptoIs
    <3>3. List(b) /\ Len(b) = k /\ \A i \in 1 .. k : b[i] = slots[i]
      BY <2>2, <3>1, UptoIs
    <3> QED BY <3>2, <3>3
  <2>4. \A i \in 1 .. k : Received(a[i]) <=> Received(b[i])
    BY <1>2, <1>6, <2>3
  <2>5. Len(Sent(a)) = Len(Sent(b))
    BY <2>3, <2>4, SentAlike
  <2>6. t[k] = wire[before + Len(Sent(b))]
    BY <1>5, <1>6, <2>1, <2>2
  <2> QED BY <2>1, <2>2, <2>5, <2>6
<1>9. \A k \in 1 .. Len(t) : Received(t[k]) \/ t[k] = slots[k]
  BY <1>4, <1>5
<1> QED BY <1>1, <1>4, <1>7, <1>8, <1>9 DEF Copies

-----------------------------------------------------------------------------
(***************************************************************************)
(* What the prover absorbs, item by item.                                  *)
(***************************************************************************)
(* A column that is queried is a column of the circuit. *)
LEMMA QueriedColumns ==
  ASSUME input \in Inputs
  PROVE  \A k \in 1 .. Len(vk.queries["advice"]) : vk.queries["advice"][k][2] \in DOMAIN c.adv
<1> DEFINE all == Collected(c)
           n == Len(all)
           fs == [k \in 1 .. n |->
                    IF all[k][1] = "advice" /\ \A l \in 1 .. k - 1 : all[l] # all[k] THEN <<all[k]>> ELSE << >>]
<1>1. c \in Circuits /\ vk.queries["advice"] = Queries(c, "advice")
  BY TheCircuit DEF Keygen
<1>2. List(all)
  BY <1>1, CollectedIs
<1>3. n \in Nat /\ DOMAIN all = 1 .. n
  <2> HIDE DEF all
  <2> QED BY <1>2, ListDomain DEF all
<1>4. \A k \in 1 .. n : all[k][1] = "advice" => all[k][2] \in DOMAIN c.adv
  <2>1. \A q \in ToSet(all) : q[1] = "advice" => q[2] \in DOMAIN c.adv
    BY <1>1, ColumnsAssumption
  <2>2. ToSet(all) = {all[k] : k \in 1 .. n}
    BY <1>2, RangeOf
  <2> QED BY <2>1, <2>2
<1>5. Queries(c, "advice") = FlattenSeq(fs)
  BY <1>3 DEF Queries
<1>6. fs = [k \in 1 .. n |-> fs[k]]
  OBVIOUS
<1>7. \A k \in 1 .. n : (all[k][1] = "advice" /\ fs[k] = <<all[k]>>) \/ fs[k] = << >>
  OBVIOUS
<1> HIDE DEF fs, n, all
<1>8. ASSUME NEW k \in 1 .. n
      PROVE  List(fs[k]) /\ \A j \in 1 .. Len(fs[k]) : fs[k][j][2] \in DOMAIN c.adv
  <2>1. CASE all[k][1] = "advice" /\ fs[k] = <<all[k]>>
    <3>1. List(fs[k]) /\ Len(fs[k]) = 1 /\ fs[k][1] = all[k]
      BY <2>1, OneItem
    <3> QED BY <1>4, <2>1, <3>1
  <2>2. CASE fs[k] = << >>
    <3>1. List(fs[k]) /\ Len(fs[k]) = 0
      BY <2>2, NoItems
    <3> QED BY <3>1
  <2> QED BY <1>7, <2>1, <2>2
<1>9. PICK t : t = FlattenSeq(fs)
  OBVIOUS
<1>10. Gathers(fs, n, t)
  BY <1>3, <1>6, <1>8, <1>9, FlattenOf
<1>11. ASSUME NEW x \in 1 .. Len(t) PROVE t[x][2] \in DOMAIN c.adv
  <2>1. PICK k \in 1 .. n : \E j \in 1 .. Len(fs[k]) : t[x] = fs[k][j]
    BY <1>10 DEF Gathers
  <2> QED BY <1>8, <2>1
<1> QED BY <1>1, <1>5, <1>9, <1>11

(* The evaluation of a column, as it was committed last. *)
Evaluated(e) ==
  \E i \in Proofs : \E j \in DOMAIN c.adv : \E r : e = Element("scalar", "advice", i, j, r, advices[i][j])

Absorbed(s) == List(s) /\ \A k \in 1 .. Len(s) : Quiet(s[k]) \/ Evaluated(s[k])

LEMMA AbsorbedClean == ASSUME NEW s, Clean(s) PROVE Absorbed(s)
BY DEF Clean, Absorbed

LEMMA AbsorbedConcat ==
  ASSUME NEW f, NEW g, Absorbed(f), Absorbed(g) PROVE Absorbed(f \o g)
<1>1. PICK h : h = f \o g
  OBVIOUS
<1>2. List(h)
  BY <1>1, ListConcat DEF Absorbed
<1>3. ASSUME NEW k \in 1 .. Len(h) PROVE Quiet(h[k]) \/ Evaluated(h[k])
  BY <1>1, ConcatPlace DEF Absorbed
<1> QED BY <1>1, <1>2, <1>3 DEF Absorbed

LEMMA EvalsAbsorbed ==
  ASSUME input \in Inputs
  PROVE  Absorbed(ForEachCircuit(LAMBDA i : LET qs == vk.queries["advice"] IN
           [k \in DOMAIN qs |->
              Element("scalar", "advice", i, qs[k][2], Point(qs[k][3]), advices[i][qs[k][2]])]))
<1> DEFINE qs == vk.queries["advice"]
<1>1. PICK m : m \in Nat /\ m = Len(qs) /\ DOMAIN qs = 1 .. m
  BY TheKey, ListDomain
<1>2. \A k \in 1 .. m : qs[k][2] \in DOMAIN c.adv
  BY <1>1, QueriedColumns
<1> HIDE DEF qs
<1> DEFINE f(i) == [k \in DOMAIN qs |->
                      Element("scalar", "advice", i, qs[k][2], Point(qs[k][3]), advices[i][qs[k][2]])]
           fs == [i \in Proofs |-> f(i)]
<1>3. ASSUME NEW i \in Proofs PROVE List(f(i)) /\ \A k \in 1 .. Len(f(i)) : Evaluated(f(i)[k])
  <2>1. PICK u : u = f(i)
    OBVIOUS
  <2>2. /\ u = [k \in 1 .. m |-> u[k]]
        /\ \A k \in 1 .. m : u[k] = Element("scalar", "advice", i, qs[k][2], Point(qs[k][3]), advices[i][qs[k][2]])
    BY <1>1, <2>1
  <2>3. List(u) /\ Len(u) = m
    BY <1>1, <2>2, ListOf
  <2>4. ASSUME NEW k \in 1 .. m PROVE Evaluated(u[k])
    <3>1. \E r : u[k] = Element("scalar", "advice", i, qs[k][2], r, advices[i][qs[k][2]])
      BY <2>2
    <3>2. qs[k][2] \in DOMAIN c.adv
      BY <1>2
    <3> QED BY <3>1, <3>2 DEF Evaluated
  <2> QED BY <2>1, <2>3, <2>4
<1>4. PICK n : n \in Nat /\ Proofs = 1 .. n
  BY TheCircuit
<1>5. fs = [i \in 1 .. n |-> fs[i]] /\ \A i \in 1 .. n : fs[i] = f(i)
  BY <1>4
<1>6. PICK t : t = ForEachCircuit(LAMBDA i : LET qt == vk.queries["advice"] IN
           [k \in DOMAIN qt |->
              Element("scalar", "advice", i, qt[k][2], Point(qt[k][3]), advices[i][qt[k][2]])])
  OBVIOUS
<1>7. t = FlattenSeq(fs)
  BY <1>6 DEF ForEachCircuit, ForEach, qs
<1> HIDE DEF f, fs
<1>8. \A i \in 1 .. n : List(fs[i])
  BY <1>3, <1>4, <1>5
<1>9. Gathers(fs, n, t)
  BY <1>4, <1>5, <1>7, <1>8, FlattenOf
<1>10. ASSUME NEW x \in 1 .. Len(t) PROVE Evaluated(t[x])
  <2>1. PICK k \in 1 .. n : \E j \in 1 .. Len(fs[k]) : t[x] = fs[k][j]
    BY <1>9 DEF Gathers
  <2> QED BY <1>3, <1>4, <1>5, <2>1
<1> QED BY <1>6, <1>9, <1>10 DEF Gathers, Absorbed

(* Every step of the prover but the first and the calls of commit_phase     *)
(* adds such items, and touches no column.                                 *)
Adds == \E items : Absorbed(items) /\ tp' = tp \o items /\ UNCHANGED <<input, next, advices, torn>>

LEMMA WriteAdds ==
  ASSUME NEW from, NEW to, NEW items, Absorbed(items), Write(from, to, items) PROVE Adds
BY DEF Write, Adds

LEMMA RestsAdds == ASSUME List(tp), UNCHANGED <<input, next, advices, torn, tp>> PROVE Adds
<1>1. PICK none : none = << >>
  OBVIOUS
<1>2. Absorbed(none) /\ tp \o none = tp
  BY <1>1, CleanNone, AbsorbedClean, ConcatNone
<1> QED BY <1>2 DEF Adds

LEMMA ProverAdds ==
  ASSUME ProverInv, Caller \/ Prover
  PROVE  \/ New \/ CommitPhase
         \/ \E i \in Proofs : \E col \in DOMAIN c.adv : TornCommitPhase(i, col)
         \/ Adds /\ pc' \notin {"new", "phases"} /\ (pc' # "failed" => pc \notin {"new", "failed"})
<1>1. input \in Inputs /\ List(tp)
  BY DEF ProverInv, ProverTypes, ProverLists
<1>2. ASSUME Fail PROVE Adds /\ pc' = "failed"
  BY <1>1, <1>2, RestsAdds DEF Fail
<1>3. CASE NewError \/ MissingChallenges \/ NotInTable \/ MissingAdvice \/ IdentityPoint \/ OpeningError
  BY <1>2, <1>3 DEF NewError, MissingChallenges, NotInTable, MissingAdvice, IdentityPoint, OpeningError
<1>4. CASE GenPermutedLookups
  <2>1. PICK items : items = Lookups
    OBVIOUS
  <2>2. Write("phases", "permutations", items) /\ Absorbed(items) /\ pc = "phases" /\ pc' = "permutations"
    BY <1>1, <1>4, <2>1, PartsClean, AbsorbedClean DEF GenPermutedLookups, Lookups, Write
  <2> QED BY <2>2, WriteAdds
<1>5. CASE GenCommittedPermutationPolys
  <2>1. PICK items : items = PermutationProducts
    OBVIOUS
  <2>2. Write("permutations", "lookup products", items) /\ Absorbed(items) /\ pc = "permutations" /\ pc' = "lookup products"
    BY <1>1, <1>5, <2>1, PartsClean, AbsorbedClean DEF GenCommittedPermutationPolys, PermutationProducts, Write
  <2> QED BY <2>2, WriteAdds
<1>6. CASE GenCommittedLookupsPolys
  <2>1. PICK items : items = LookupProducts
    OBVIOUS
  <2>2. Write("lookup products", "shuffles", items) /\ Absorbed(items) /\ pc = "lookup products" /\ pc' = "shuffles"
    BY <1>1, <1>6, <2>1, PartsClean, AbsorbedClean DEF GenCommittedLookupsPolys, LookupProducts, Write
  <2> QED BY <2>2, WriteAdds
<1>7. CASE GenCommittedShuffles
  <2>1. PICK items : items = Shuffles
    OBVIOUS
  <2>2. Write("shuffles", "vanishing", items) /\ Absorbed(items) /\ pc = "shuffles" /\ pc' = "vanishing"
    BY <1>1, <1>7, <2>1, PartsClean, AbsorbedClean DEF GenCommittedShuffles, Shuffles, Write
  <2> QED BY <2>2, WriteAdds
<1>8. CASE GenCommittedVanishing
  <2>1. PICK items : items = VanishingCommit
    OBVIOUS
  <2>2. Write("vanishing", "advice polys", items) /\ Absorbed(items) /\ pc = "vanishing" /\ pc' = "advice polys"
    BY <1>1, <1>8, <2>1, PartsClean, AbsorbedClean DEF GenCommittedVanishing, Write
  <2> QED BY <2>2, WriteAdds
<1>9. CASE GenAdvicePolys
  <2>1. UNCHANGED <<input, next, advices, torn, tp>> /\ pc = "advice polys" /\ pc' = "h"
    BY <1>9 DEF GenAdvicePolys
  <2> QED BY <1>1, <2>1, RestsAdds
<1>10. CASE GenConstructedVanishing
  <2>1. PICK items : items = <<Sq("y", 0)>> \o VanishingConstruct
    OBVIOUS
  <2>2. Write("h", "advice evals", items) /\ Absorbed(items) /\ pc = "h" /\ pc' = "advice evals"
    BY <1>1, <1>10, <2>1, PartsClean, AbsorbedClean DEF GenConstructedVanishing, Write
  <2> QED BY <2>2, WriteAdds
<1>11. CASE WriteAdviceEvals
  <2>1. PICK h : h = <<Sq("x", 0)>>
    OBVIOUS
  <2>2. PICK s : s = ForEachCircuit(LAMBDA i : LET qs == vk.queries["advice"] IN
                    [k \in DOMAIN qs |->
                       Element("scalar", "advice", i, qs[k][2], Point(qs[k][3]), advices[i][qs[k][2]])])
    OBVIOUS
  <2>3. PICK items : items = h \o s
    OBVIOUS
  <2>4. Absorbed(h)
    BY <2>1, CleanOne, Fields, AbsorbedClean
  <2>5. Absorbed(s)
    BY <1>1, <2>2, EvalsAbsorbed
  <2>6. Absorbed(items)
    BY <2>3, <2>4, <2>5, AbsorbedConcat
  <2>7. Write("advice evals", "fixed evals", items) /\ pc = "advice evals" /\ pc' = "fixed evals"
    BY <1>11, <2>1, <2>2, <2>3 DEF WriteAdviceEvals, Write
  <2> QED BY <2>6, <2>7, WriteAdds
<1>12. CASE WriteFixedEvals
  <2>1. PICK items : items = (FixedEvals \o VanishingEvaluate) \o SigmaEvaluate
    OBVIOUS
  <2>2. Write("fixed evals", "permutation evals", items) /\ Absorbed(items) /\ pc = "fixed evals" /\ pc' = "permutation evals"
    BY <1>1, <1>12, <2>1, PartsClean, AbsorbedClean DEF WriteFixedEvals, FixedEvals, Write
  <2> QED BY <2>2, WriteAdds
<1>13. CASE EvaluatePermutations
  <2>1. PICK items : items = PermutationEvals
    OBVIOUS
  <2>2. Write("permutation evals", "lookup evals", items) /\ Absorbed(items) /\ pc = "permutation evals" /\ pc' = "lookup evals"
    BY <1>1, <1>13, <2>1, PartsClean, AbsorbedClean DEF EvaluatePermutations, PermutationEvals, Write
  <2> QED BY <2>2, WriteAdds
<1>14. CASE EvaluateLookups
  <2>1. PICK items : items = LookupEvals
    OBVIOUS
  <2>2. Write("lookup evals", "shuffle evals", items) /\ Absorbed(items) /\ pc = "lookup evals" /\ pc' = "shuffle evals"
    BY <1>1, <1>14, <2>1, PartsClean, AbsorbedClean DEF EvaluateLookups, LookupEvals, Write
  <2> QED BY <2>2, WriteAdds
<1>15. CASE EvaluateShuffles
  <2>1. PICK items : items = ShuffleEvals
    OBVIOUS
  <2>2. Write("shuffle evals", "open", items) /\ Absorbed(items) /\ pc = "shuffle evals" /\ pc' = "open"
    BY <1>1, <1>15, <2>1, PartsClean, AbsorbedClean DEF EvaluateShuffles, ShuffleEvals, Write
  <2> QED BY <2>2, WriteAdds
<1>16. CASE CreateProof
  <2>1. PICK items : items = OpeningSlots
    OBVIOUS
  <2>2. Write("open", "proved", items) /\ Absorbed(items) /\ pc = "open" /\ pc' = "proved"
    BY <1>1, <1>16, <2>1, OpeningSlotsClean, AbsorbedClean DEF CreateProof, OpeningSlots, Write
  <2> QED BY <2>2, WriteAdds
<1> QED BY <1>3, <1>4, <1>5, <1>6, <1>7, <1>8, <1>9, <1>10, <1>11, <1>12, <1>13, <1>14, <1>15, <1>16
           DEF Caller, Prover

-----------------------------------------------------------------------------
(***************************************************************************)
(* What the prover's transcript says of the prover.  As before it is said  *)
(* of a transcript t and of columns a.                                     *)
(***************************************************************************)
Version(a, e) == IF e.of = "advice" THEN a[e.i][e.j] ELSE 0

(* e is what its own names say: a column, at the version it has now, or     *)
(* something that has no version.                                          *)
Exact(a, e) ==
  /\ e = Element(e.kind, e.of, e.i, e.j, e.r, Version(a, e))
  /\ e.of = "advice" => e.i \in Proofs /\ e.j \in DOMAIN c.adv

Recent(t, a)  == \A k \in 1 .. Len(t) : Received(t[k]) => Exact(a, t[k])
Earlier(t, n) == \A k \in 1 .. Len(t) : Received(t[k]) /\ t[k].of = "advice" => c.adv[t[k].j] < n
Torn(t)       == \E k \in 1 .. Len(t) : t[k].kind = "prefix"
Begins(t, g)  == \E rest : List(rest) /\ t = g \o rest

(* It begins with the instances, it holds the mark of a write that failed,  *)
(* and else no column in it was committed again.                           *)
Recorded ==
  /\ pc = "new" => ~torn /\ tp = << >>
  /\ pc \notin {"new", "failed"} => Begins(tp, Greeting(0))
  /\ torn => Torn(tp)
  /\ ~torn => Recent(tp, advices)
  /\ ~torn /\ pc = "phases" => Earlier(tp, next - 1)

LEMMA SameRecord ==
  ASSUME input' = input
  PROVE  /\ Recent(tp', advices') => Recent(tp, advices)'
         /\ \A n : Earlier(tp', n) => (n = next' - 1 => Earlier(tp, next - 1)')
         /\ Begins(tp', Greeting(0)) => Begins(tp, Greeting(0))'
         /\ Torn(tp') => Torn(tp)'
<1>1. c' = c /\ Proofs' = Proofs
  BY SameSession
<1>2. Recent(tp', advices') => Recent(tp, advices)'
  BY <1>1 DEF Recent, Exact, Version
<1>3. \A n : Earlier(tp', n) => (n = next' - 1 => Earlier(tp, next - 1)')
  BY <1>1 DEF Earlier
<1>4. Begins(tp', Greeting(0)) => Begins(tp, Greeting(0))'
  BY SameScript DEF Begins
<1>5. Torn(tp') => Torn(tp)'
  BY DEF Torn
<1> QED BY <1>2, <1>3, <1>4, <1>5

LEMMA BeginsMore ==
  ASSUME NEW t, NEW g, List(g), Begins(t, g), NEW s, List(s) PROVE Begins(t \o s, g)
<1>1. PICK rest : List(rest) /\ t = g \o rest
  BY DEF Begins
<1>2. PICK u : u = rest \o s
  OBVIOUS
<1>3. List(u)
  BY <1>1, <1>2, ListConcat
<1>4. Assoc(g, rest, s)
  BY <1>1, ConcatAssoc
<1>5. t \o s = g \o u
  BY <1>1, <1>2, <1>4 DEF Assoc
<1> QED BY <1>3, <1>5 DEF Begins

LEMMA TornMore ==
  ASSUME NEW t, List(t), NEW s, List(s) PROVE Torn(t) \/ Torn(s) => Torn(t \o s)
<1>1. PICK u, m, n : u = t \o s /\ m = Len(t) /\ n = Len(s)
  OBVIOUS
<1>2. Join(u, t, m, s, n)
  BY <1>1, Joins
<1>3. m \in Nat /\ n \in Nat /\ Len(u) = m + n
  BY <1>2 DEF Join
<1>4. ASSUME NEW k \in 1 .. m, t[k].kind = "prefix" PROVE Torn(u)
  <2>1. k \in 1 .. m + n /\ u[k] = t[k]
    BY <1>2, <1>3 DEF Join
  <2> QED BY <1>3, <1>4, <2>1 DEF Torn
<1>5. ASSUME NEW k \in 1 .. n, s[k].kind = "prefix" PROVE Torn(u)
  <2>1. m + k \in 1 .. m + n /\ u[m + k] = s[k]
    BY <1>2, <1>3 DEF Join
  <2> QED BY <1>3, <1>5, <2>1 DEF Torn
<1> QED BY <1>1, <1>4, <1>5 DEF Torn

LEMMA RecentMore ==
  ASSUME NEW t, List(t), NEW s, List(s), NEW a
  PROVE  Recent(t, a) /\ Recent(s, a) => Recent(t \o s, a)
<1>1. PICK u : u = t \o s
  OBVIOUS
<1>2. ASSUME Recent(t, a), Recent(s, a), NEW k \in 1 .. Len(u), Received(u[k]) PROVE Exact(a, u[k])
  <2>1. k \in 1 .. Len(t \o s)
    BY <1>1
  <2>2. \/ k \in 1 .. Len(t) /\ u[k] = t[k]
        \/ \E j \in 1 .. Len(s) : k = Len(t) + j /\ u[k] = s[j]
    BY <1>1, <2>1, ConcatPlace
  <2> QED BY <1>2, <2>2 DEF Recent
<1> QED BY <1>1, <1>2 DEF Recent

LEMMA EarlierMore ==
  ASSUME NEW t, List(t), NEW s, List(s), NEW n
  PROVE  Earlier(t, n) /\ Earlier(s, n) => Earlier(t \o s, n)
<1>1. PICK u : u = t \o s
  OBVIOUS
<1>2. ASSUME Earlier(t, n), Earlier(s, n), NEW k \in 1 .. Len(u), Received(u[k]), u[k].of = "advice"
      PROVE  c.adv[u[k].j] < n
  <2>1. k \in 1 .. Len(t \o s)
    BY <1>1
  <2>2. \/ k \in 1 .. Len(t) /\ u[k] = t[k]
        \/ \E j \in 1 .. Len(s) : k = Len(t) + j /\ u[k] = s[j]
    BY <1>1, <2>1, ConcatPlace
  <2> QED BY <1>2, <2>2 DEF Earlier
<1> QED BY <1>1, <1>2 DEF Earlier

(* What the prover absorbs is exact, and marks no failure. *)
LEMMA AbsorbedRecent ==
  ASSUME NEW s, Absorbed(s) PROVE Recent(s, advices)
<1>1. ASSUME NEW e, Quiet(e) PROVE Exact(advices, e)
  BY <1>1 DEF Quiet, Exact, Version
<1>2. ASSUME NEW e, Evaluated(e) PROVE Exact(advices, e)
  <2>1. PICK i \in Proofs, j \in DOMAIN c.adv : \E r : e = Element("scalar", "advice", i, j, r, advices[i][j])
    BY <1>2 DEF Evaluated
  <2>2. PICK r : e = Element("scalar", "advice", i, j, r, advices[i][j])
    BY <2>1
  <2>3. e.kind = "scalar" /\ e.of = "advice" /\ e.i = i /\ e.j = j /\ e.r = r /\ e.v = advices[i][j]
    BY <2>2 DEF Element
  <2> QED BY <2>2, <2>3 DEF Exact, Version
<1> QED BY <1>1, <1>2 DEF Absorbed, Recent

(* The columns of the phase, of the circuits up to m, are at version v. *)
FilledUpTo(a, m, v) ==
  \A i \in 1 .. m : i \in Proofs /\ \A col \in DOMAIN c.adv : c.adv[col] = Phase => a[i][col] = v

LEMMA CommitmentsRecent ==
  ASSUME NEW p, NEW m, NEW v, \A x \in 1 .. Len(p) : \E i \in 1 .. m : IsCommitment(p[x], i, v),
         NEW a, FilledUpTo(a, m, v)
  PROVE  Recent(p, a)
<1>1. ASSUME NEW e, NEW i \in 1 .. m, IsCommitment(e, i, v) PROVE Exact(a, e)
  <2>1. PICK col \in DOMAIN c.adv : c.adv[col] = Phase /\ e = Element("point", "advice", i, col, 0, v)
    BY <1>1 DEF IsCommitment
  <2>2. e.kind = "point" /\ e.of = "advice" /\ e.i = i /\ e.j = col /\ e.r = 0 /\ e.v = v
    BY <2>1 DEF Element
  <2>3. a[i][col] = v /\ i \in Proofs
    BY <2>1 DEF FilledUpTo
  <2> QED BY <2>1, <2>2, <2>3 DEF Exact, Version
<1> QED BY <1>1 DEF Recent

-----------------------------------------------------------------------------
LEMMA InitRecords == ASSUME Init PROVE Recorded
<1>1. tp = << >> /\ pc = "new" /\ torn = FALSE
  BY DEF Init
<1>2. \A k \in 1 .. Len(tp) : FALSE
  BY <1>1, NoItems
<1> QED BY <1>1, <1>2 DEF Recorded, Recent

LEMMA RecordRests ==
  ASSUME Recorded, UNCHANGED <<input, next, advices, torn, tp, pc>> PROVE Recorded'
<1>1. (pc = "phases")' => pc = "phases"
  OBVIOUS
<1>2. PICK n : n = next' - 1
  OBVIOUS
<1>3. pc \notin {"new", "failed"} => Begins(tp, Greeting(0))'
  BY SameRecord DEF Recorded
<1>4. torn => Torn(tp)'
  BY SameRecord DEF Recorded
<1>5. ~torn => Recent(tp, advices)'
  BY SameRecord DEF Recorded
<1>6. ~torn /\ pc = "phases" => Earlier(tp, next - 1)'
  BY <1>2, SameRecord DEF Recorded
<1> QED BY <1>3, <1>4, <1>5, <1>6 DEF Recorded

LEMMA NewRecords == ASSUME ProverInv, Recorded, New PROVE Recorded'
<1>1. PICK g : g = Greeting(0)
  OBVIOUS
<1>2. pc = "new" /\ pc' = "phases" /\ tp' = g /\ UNCHANGED <<input, next, advices, torn>>
  BY <1>1 DEF New, Greeting
<1>3. input \in Inputs /\ ~torn
  BY <1>2 DEF ProverInv, ProverTypes, Recorded
<1>4. List(g) /\ \A k \in 1 .. Len(g) : ~Received(g[k])
  BY <1>1, <1>3, GreetingOf
<1>5. PICK none : none = << >>
  OBVIOUS
<1>6. List(none) /\ g = g \o none
  BY <1>4, <1>5, NoItems, ConcatNone
<1>7. Begins(tp', g)
  BY <1>2, <1>6 DEF Begins
<1>8. Begins(tp, Greeting(0))'
  BY <1>1, <1>2, <1>7, SameRecord
<1>9. Recent(tp', advices')
  BY <1>2, <1>4 DEF Recent
<1>10. PICK n : n = next' - 1
  OBVIOUS
<1>11. Earlier(tp', n)
  BY <1>2, <1>4 DEF Earlier
<1>12. Recent(tp, advices)' /\ Earlier(tp, next - 1)'
  BY <1>2, <1>9, <1>10, <1>11, SameRecord
<1> QED BY <1>2, <1>3, <1>8, <1>12 DEF Recorded

LEMMA AddsRecords ==
  ASSUME ProverInv, Recorded, Adds, pc' \notin {"new", "phases"}, pc' # "failed" => pc \notin {"new", "failed"}
  PROVE  Recorded'
<1>1. PICK items : Absorbed(items) /\ tp' = tp \o items /\ UNCHANGED <<input, next, advices, torn>>
  BY DEF Adds
<1>2. List(tp) /\ List(items) /\ input \in Inputs
  BY <1>1 DEF ProverInv, ProverLists, ProverTypes, Absorbed
<1>3. ASSUME pc' # "failed" PROVE Begins(tp, Greeting(0))'
  <2>1. PICK g : g = Greeting(0) /\ List(g)
    BY <1>2, GreetingOf
  <2>2. Begins(tp, g)
    BY <1>3, <2>1 DEF Recorded
  <2>3. Begins(tp \o items, g)
    BY <1>2, <2>1, <2>2, BeginsMore
  <2> QED BY <1>1, <2>1, <2>3, SameRecord
<1>4. ASSUME torn PROVE Torn(tp)'
  <2>1. Torn(tp \o items)
    BY <1>2, <1>4, TornMore DEF Recorded
  <2> QED BY <1>1, <2>1, SameRecord
<1>5. ASSUME ~torn PROVE Recent(tp, advices)'
  <2>1. Recent(items, advices)
    BY <1>1, AbsorbedRecent
  <2>2. Recent(tp, advices)
    BY <1>5 DEF Recorded
  <2>3. Recent(tp \o items, advices)
    BY <1>2, <2>1, <2>2, RecentMore
  <2> QED BY <1>1, <2>3, SameRecord
<1> QED BY <1>1, <1>3, <1>4, <1>5 DEF Recorded

LEMMA CommitPhaseRecords == ASSUME ProverInv, Recorded, CommitPhase PROVE Recorded'
<1>1. PICK m : m \in Nat /\ Proofs = 1 .. m
  BY TheCircuit DEF ProverInv, ProverTypes
<1>2. PICK v, p, q : v = attempt + 1 /\ p = CommitmentsUpTo(m, v) /\ q = PhaseChallenges
  OBVIOUS
<1>3. p = ForEachCircuit(LAMBDA i : AdviceCommitments(i, attempt + 1))
  BY <1>1, <1>2 DEF CommitmentsUpTo, ForEachCircuit, ForEach
<1>4. /\ pc = "phases" /\ next <= Len(vk.phases)
      /\ tp' = (tp \o p) \o q
      /\ advices' = [i \in Proofs |-> [col \in DOMAIN c.adv |->
                       IF c.adv[col] = Phase THEN v ELSE advices[i][col]]]
      /\ next' = next + 1 /\ input' = input /\ pc' = pc /\ torn' = torn
  BY <1>2, <1>3 DEF CommitPhase
<1>5. input \in Inputs /\ next \in 1 .. Len(vk.phases) + 1 /\ List(tp)
  BY DEF ProverInv, ProverTypes, ProverLists
<1>6. next \in Nat /\ Phase = next - 1
  <2>1. PICK l : l = Len(vk.phases)
    OBVIOUS
  <2>2. l \in Nat
    BY <1>5, <2>1, AllPhasesIs
  <2>3. next \in 1 .. l
    BY <1>4, <1>5, <2>1, <2>2
  <2> QED BY <1>5, <2>1, <2>3, ThePhase
<1>7. List(p) /\ \A x \in 1 .. Len(p) : \E i \in 1 .. m : IsCommitment(p[x], i, v)
  BY <1>1, <1>2, <1>5, CommitmentsUpToIs
<1>8. List(q) /\ \A k \in 1 .. Len(q) : ~Received(q[k])
  <2>1. /\ List(q)
        /\ \A k \in 1 .. Len(q) : \E idx \in DOMAIN c.chal : q[k] = Sq("challenge", idx) /\ c.chal[idx] = Phase
    BY <1>2, <1>5, PhaseChallengesIs
  <2>2. \A idx : ~Received(Sq("challenge", idx))
    BY DEF Received, Sq, Element
  <2> QED BY <2>1, <2>2
<1>9. PICK u : u = tp \o p /\ List(u)
  BY <1>5, <1>7, ListConcat
<1>10. Begins(tp, Greeting(0))'
  <2>1. PICK g : g = Greeting(0) /\ List(g)
    BY <1>5, GreetingOf
  <2>2. Begins(tp, g)
    BY <1>4, <2>1 DEF Recorded
  <2>3. Begins(u, g)
    BY <1>5, <1>7, <1>9, <2>1, <2>2, BeginsMore
  <2>4. Begins(u \o q, g)
    BY <1>8, <2>1, <2>3, BeginsMore
  <2> QED BY <1>4, <1>9, <2>1, <2>4, SameRecord
<1>11. ASSUME torn PROVE Torn(tp)'
  <2>1. Torn(u)
    BY <1>5, <1>7, <1>9, <1>11, TornMore DEF Recorded
  <2>2. Torn(u \o q)
    BY <1>8, <1>9, <2>1, TornMore
  <2> QED BY <1>4, <1>9, <2>2, SameRecord
<1>12. ASSUME ~torn PROVE Recent(tp, advices)' /\ Earlier(tp, next - 1)'
  <2>1. Recent(tp, advices) /\ Earlier(tp, next - 1)
    BY <1>4, <1>12 DEF Recorded
  <2>2. PICK a : a = advices'
    OBVIOUS
  <2>3. \A i \in Proofs : \A col \in DOMAIN c.adv : a[i][col] = IF c.adv[col] = Phase THEN v ELSE advices[i][col]
    BY <1>4, <2>2
  <2>4. ASSUME NEW k \in 1 .. Len(tp), Received(tp[k]) PROVE Exact(a, tp[k])
    <3>1. PICK e : e = tp[k]
      OBVIOUS
    <3>2. Exact(advices, e)
      BY <2>1, <2>4, <3>1 DEF Recent
    <3>3. Version(a, e) = Version(advices, e)
      <4>1. CASE e.of = "advice"
        <5>1. e.i \in Proofs /\ e.j \in DOMAIN c.adv /\ c.adv[e.j] < next - 1
          BY <2>1, <2>4, <3>1, <3>2, <4>1 DEF Exact, Earlier
        <5>2. c.adv[e.j] \in Nat
          BY <1>5, <5>1, TheLists
        <5>3. c.adv[e.j] # Phase
          BY <1>6, <5>1, <5>2
        <5> QED BY <2>3, <5>1, <5>3 DEF Version
      <4>2. CASE e.of # "advice"
        BY <4>2 DEF Version
      <4> QED BY <4>1, <4>2
    <3> QED BY <3>1, <3>2, <3>3 DEF Exact
  <2>5. Recent(tp, a)
    BY <2>4 DEF Recent
  <2>6. Recent(p, a)
    <3>1. FilledUpTo(a, m, v)
      BY <1>1, <2>3 DEF FilledUpTo
    <3> QED BY <1>7, <3>1, CommitmentsRecent
  <2>7. Recent(q, a)
    BY <1>8 DEF Recent
  <2>8. Recent(u, a)
    BY <1>5, <1>7, <1>9, <2>5, <2>6, RecentMore
  <2>9. Recent(u \o q, a)
    BY <1>8, <1>9, <2>7, <2>8, RecentMore
  <2>10. PICK n : n = next' - 1
    OBVIOUS
  <2>11. n = next
    BY <1>4, <1>6, <2>10
  <2>12. Earlier(tp, n)
    <3> SUFFICES ASSUME NEW k \in 1 .. Len(tp), Received(tp[k]), tp[k].of = "advice" PROVE c.adv[tp[k].j] < n
      BY DEF Earlier
    <3>1. c.adv[tp[k].j] < next - 1 /\ tp[k].j \in DOMAIN c.adv
      BY <2>1 DEF Earlier, Recent, Exact
    <3>2. c.adv[tp[k].j] \in Nat
      BY <1>5, <3>1, TheLists
    <3> QED BY <1>6, <2>11, <3>1, <3>2
  <2>13. Earlier(p, n)
    <3> SUFFICES ASSUME NEW x \in 1 .. Len(p) PROVE c.adv[p[x].j] < n
      BY DEF Earlier
    <3>1. PICK i \in 1 .. m : IsCommitment(p[x], i, v)
      BY <1>7
    <3>2. c.adv[p[x].j] = Phase
      BY <3>1, CommitmentIsAdvice
    <3> QED BY <1>6, <2>11, <3>2
  <2>14. Earlier(q, n)
    BY <1>8 DEF Earlier
  <2>15. Earlier(u, n)
    BY <1>5, <1>7, <1>9, <2>12, <2>13, EarlierMore
  <2>16. Earlier(u \o q, n)
    BY <1>8, <1>9, <2>14, <2>15, EarlierMore
  <2> QED BY <1>4, <1>9, <2>2, <2>9, <2>10, <2>16, SameRecord
<1> QED BY <1>4, <1>10, <1>11, <1>12 DEF Recorded

LEMMA TornRecords ==
  ASSUME ProverInv, Recorded, NEW i \in Proofs, NEW col \in DOMAIN c.adv, TornCommitPhase(i, col)
  PROVE  Recorded'
<1>1. PICK m : m \in Nat /\ Proofs = 1 .. m
  BY TheCircuit DEF ProverInv, ProverTypes
<1>2. PICK v, a, b, p : v = attempt + 1 /\ a = CommitmentsUpTo(i - 1, v) /\ b = CommitmentsBefore(i, col, v) /\ p = a \o b
  OBVIOUS
<1>3. p = ForEach(1 .. i - 1, LAMBDA k : AdviceCommitments(k, attempt + 1)) \o CommitmentsBefore(i, col, attempt + 1)
  BY <1>2 DEF CommitmentsUpTo, ForEach
<1>4. /\ pc = "phases" /\ pc' = pc /\ tp' = (tp \o p) \o Hashed /\ torn' = TRUE /\ input' = input
  BY <1>3 DEF TornCommitPhase
<1>5. input \in Inputs /\ List(tp)
  BY DEF ProverInv, ProverTypes, ProverLists
<1>6. List(p)
  <2>1. List(a)
    <3>1. i - 1 \in Nat
      BY <1>1
    <3> QED BY <1>2, <1>5, <3>1, CommitmentsUpToIs
  <2>2. List(b)
    BY <1>2, <1>5, CommitmentsBeforeIs
  <2> QED BY <1>2, <2>1, <2>2, ListConcat
<1>7. List(Hashed) /\ Torn(Hashed)
  <2>1. PICK h : h = Hashed
    OBVIOUS
  <2>2. List(h) /\ Len(h) = 1 /\ h[1] = Prefix
    BY <2>1, OneItem DEF Hashed
  <2>3. h[1].kind = "prefix"
    BY <2>2 DEF Prefix, Element
  <2> QED BY <2>1, <2>2, <2>3 DEF Torn
<1>8. PICK u : u = tp \o p /\ List(u)
  BY <1>5, <1>6, ListConcat
<1>9. Torn(tp)'
  <2>1. Torn(u \o Hashed)
    BY <1>7, <1>8, TornMore
  <2> QED BY <1>4, <1>8, <2>1, SameRecord
<1>10. Begins(tp, Greeting(0))'
  <2>1. PICK g : g = Greeting(0) /\ List(g)
    BY <1>5, GreetingOf
  <2>2. Begins(tp, g)
    BY <1>4, <2>1 DEF Recorded
  <2>3. Begins(u, g)
    BY <1>5, <1>6, <1>8, <2>1, <2>2, BeginsMore
  <2>4. Begins(u \o Hashed, g)
    BY <1>7, <2>1, <2>3, BeginsMore
  <2> QED BY <1>4, <1>8, <2>1, <2>4, SameRecord
<1> QED BY <1>4, <1>9, <1>10 DEF Recorded

LEMMA ProverRecords == ASSUME ProverInv, Recorded, Caller \/ Prover PROVE Recorded'
BY ProverAdds, NewRecords, CommitPhaseRecords, TornRecords, AddsRecords

-----------------------------------------------------------------------------
(***************************************************************************)
(* What the verifier's transcript says of what the verifier was given.     *)
(***************************************************************************)
(* Nothing in it is the mark of a write that failed. *)
Spoken(t) == List(t) /\ \A k \in 1 .. Len(t) : t[k].kind # "prefix"

LEMMA SpokenConcat ==
  ASSUME NEW f, NEW g, Spoken(f), Spoken(g) PROVE Spoken(f \o g)
<1>1. PICK h : h = f \o g
  OBVIOUS
<1>2. List(f) /\ List(g) /\ List(h)
  BY <1>1, ListConcat DEF Spoken
<1>3. ASSUME NEW k \in 1 .. Len(h) PROVE h[k].kind # "prefix"
  BY <1>1, <1>2, ConcatPlace DEF Spoken
<1> QED BY <1>1, <1>2, <1>3 DEF Spoken

LEMMA SpokenFlatten ==
  ASSUME NEW n, n \in Nat, NEW fs, fs = [k \in 1 .. n |-> fs[k]],
         \A k \in 1 .. n : Spoken(fs[k])
  PROVE  Spoken(FlattenSeq(fs))
<1>1. PICK t : t = FlattenSeq(fs)
  OBVIOUS
<1>2. Gathers(fs, n, t)
  BY <1>1, FlattenOf DEF Spoken
<1>3. ASSUME NEW x \in 1 .. Len(t) PROVE t[x].kind # "prefix"
  <2>1. PICK k \in 1 .. n : \E j \in 1 .. Len(fs[k]) : t[x] = fs[k][j]
    BY <1>2 DEF Gathers
  <2> QED BY <2>1 DEF Spoken
<1> QED BY <1>1, <1>2, <1>3 DEF Gathers, Spoken

LEMMA CleanSpoken == ASSUME NEW s, Clean(s) PROVE Spoken(s)
BY DEF Clean, Quiet, Spoken

(* The slots of the phases, and those of the evaluations of the columns.   *)
LEMMA PhasesSpoken == ASSUME input \in Inputs PROVE Spoken(Begun(Len(vk.phases)))
<1>1. PICK n : n = Len(vk.phases)
  OBVIOUS
<1>2. /\ n \in Nat /\ AllPhases = [p \in 1 .. n |-> AllPhases[p]]
      /\ \A p \in 1 .. n : AllPhases[p] = PhaseSlots(p)
      /\ Begun(n) = FlattenSeq(AllPhases)
  BY <1>1, AllPhasesIs
<1>3. PICK m : m \in Nat /\ Proofs = 1 .. m
  BY TheCircuit
<1>4. ASSUME NEW p PROVE Spoken(PhaseSlots(p))
  <2>1. ASSUME NEW i PROVE Spoken(ColumnSlots(p, i))
    <3>1. PICK cols, l : cols = ColumnsOf(c, vk.phases[p]) /\ l = Len(cols)
      OBVIOUS
    <3>2. /\ List(ColumnSlots(p, i)) /\ Len(ColumnSlots(p, i)) = l
          /\ \A k \in 1 .. l : ColumnSlots(p, i)[k] = Pt("advice", i, cols[k])
      BY <3>1, ColumnSlotsIs
    <3>3. \A j : Pt("advice", i, j).kind # "prefix"
      BY DEF Pt, Element
    <3> QED BY <3>2, <3>3 DEF Spoken
  <2>2. PICK fs : fs = [i \in Proofs |-> ColumnSlots(p, i)]
    OBVIOUS
  <2>3. fs = [i \in 1 .. m |-> fs[i]] /\ \A i \in 1 .. m : Spoken(fs[i])
    BY <1>3, <2>1, <2>2
  <2>4. Spoken(FlattenSeq(fs))
    BY <1>3, <2>3, SpokenFlatten
  <2>5. Spoken(AllColumns(p))
    BY <2>2, <2>4 DEF AllColumns
  <2>6. Spoken(ChallengeSlots(p))
    <3>1. PICK chals, l : chals = ChallengesOf(c, vk.phases[p]) /\ l = Len(chals)
      OBVIOUS
    <3>2. /\ List(ChallengeSlots(p)) /\ Len(ChallengeSlots(p)) = l
          /\ \A k \in 1 .. l : ChallengeSlots(p)[k] = Sq("challenge", chals[k])
      BY <3>1, ChallengeSlotsIs
    <3>3. \A j : Sq("challenge", j).kind # "prefix"
      BY DEF Sq, Element
    <3> QED BY <3>2, <3>3 DEF Spoken
  <2>7. PhaseSlots(p) = AllColumns(p) \o ChallengeSlots(p)
    BY PhaseSlotsIs
  <2> QED BY <2>5, <2>6, <2>7, SpokenConcat
<1>5. PICK all : all = AllPhases
  OBVIOUS
<1>6. all = [p \in 1 .. n |-> all[p]] /\ \A p \in 1 .. n : Spoken(all[p])
  BY <1>2, <1>4, <1>5
<1>7. Spoken(FlattenSeq(all))
  BY <1>2, <1>6, SpokenFlatten
<1> QED BY <1>1, <1>2, <1>5, <1>7

LEMMA EvalsSpoken == ASSUME input \in Inputs PROVE Spoken(AdviceEvals)
<1> DEFINE qs == vk.queries["advice"]
           f(i) == [k \in DOMAIN qs |-> Sc("advice", i, qs[k][2], Point(qs[k][3]))]
           fs == [i \in Proofs |-> f(i)]
<1>1. PICK n : n \in Nat /\ Proofs = 1 .. n
  BY TheCircuit
<1>2. Len(qs) \in Nat /\ DOMAIN qs = 1 .. Len(qs)
  BY TheKey, ListDomain
<1>3. ASSUME NEW i PROVE Spoken(f(i))
  <2>1. PICK l, g : l = Len(qs) /\ g = f(i)
    OBVIOUS
  <2>2. g = [k \in 1 .. l |-> g[k]] /\ \A k \in 1 .. l : g[k].kind # "prefix"
    <3>1. \A j, r : Sc("advice", i, j, r).kind # "prefix"
      BY DEF Sc, Element
    <3> QED BY <1>2, <2>1, <3>1
  <2>3. List(g) /\ Len(g) = l
    BY <1>2, <2>1, <2>2, ListOf
  <2> HIDE DEF f
  <2> QED BY <2>1, <2>2, <2>3 DEF Spoken
<1>4. AdviceEvals = FlattenSeq(fs)
  BY DEF AdviceEvals, ForEachCircuit, ForEach
<1>5. fs = [i \in 1 .. n |-> fs[i]] /\ \A i \in 1 .. n : Spoken(fs[i])
  <2> HIDE DEF f, qs
  <2> QED BY <1>1, <1>3
<1> HIDE DEF fs
<1> QED BY <1>1, <1>4, <1>5, SpokenFlatten

LEMMA CleanPieces ==
  ASSUME NEW a, NEW b, List(a), List(b), Clean(a \o b) PROVE Clean(a) /\ Clean(b)
<1>1. PICK h, m, n : h = a \o b /\ m = Len(a) /\ n = Len(b)
  OBVIOUS
<1>2. Join(h, a, m, b, n)
  BY <1>1, Joins
<1>3. /\ Len(h) = m + n /\ m \in Nat /\ n \in Nat
      /\ \A k \in 1 .. m : h[k] = a[k]
      /\ \A k \in 1 .. n : h[m + k] = b[k]
  BY <1>2 DEF Join
<1>4. \A k \in 1 .. m + n : Quiet(h[k])
  BY <1>1, <1>3 DEF Clean
<1>5. \A k \in 1 .. m : Quiet(a[k])
  BY <1>3, <1>4
<1>6. ASSUME NEW k \in 1 .. n PROVE Quiet(b[k])
  <2>1. m + k \in 1 .. m + n
    BY <1>3
  <2> QED BY <1>3, <1>4, <2>1
<1> QED BY <1>1, <1>5, <1>6 DEF Clean

(* Every slot there is. *)
LEMMA SlotsSpoken ==
  ASSUME input \in Inputs
  PROVE  /\ Spoken(Begun(Len(vk.phases))) /\ Spoken(Lookups) /\ Spoken(ProductSlots)
         /\ Spoken(VanishingSlots) /\ Spoken(EvalSlots) /\ Spoken(ArgumentSlots) /\ Spoken(OpeningSlots)
<1>1. /\ Spoken(Lookups) /\ Spoken(PermutationProducts) /\ Spoken(LookupProducts) /\ Spoken(Shuffles)
      /\ Spoken(PermutationEvals) /\ Spoken(LookupEvals) /\ Spoken(ShuffleEvals) /\ Spoken(OpeningSlots)
  BY PartsClean, OpeningSlotsClean, CleanSpoken
<1>2. Spoken(ProductSlots)
  <2>1. Spoken(PermutationProducts \o LookupProducts)
    BY <1>1, SpokenConcat
  <2> QED BY <1>1, <2>1, SpokenConcat DEF ProductSlots
<1>3. Spoken(ArgumentSlots)
  <2>1. Spoken(PermutationEvals \o LookupEvals)
    BY <1>1, SpokenConcat
  <2> QED BY <1>1, <2>1, SpokenConcat DEF ArgumentSlots
<1>4. Clean(<<Sq("y", 0)>>) /\ Clean(<<Sq("x", 0)>>)
  <2>1. Quiet(Sq("y", 0)) /\ Quiet(Sq("x", 0))
    BY Fields
  <2> QED BY <2>1, CleanOne
<1>5. Spoken(VanishingSlots)
  <2>1. Clean(VanishingCommit) /\ Clean(VanishingConstruct)
    BY VanishingClean
  <2>2. Clean(VanishingCommit \o <<Sq("y", 0)>>)
    BY <1>4, <2>1, CleanConcat
  <2>3. Clean((VanishingCommit \o <<Sq("y", 0)>>) \o VanishingConstruct)
    BY <2>1, <2>2, CleanConcat
  <2>4. Clean(((VanishingCommit \o <<Sq("y", 0)>>) \o VanishingConstruct) \o <<Sq("x", 0)>>)
    BY <1>4, <2>3, CleanConcat
  <2> QED BY <2>4, CleanSpoken DEF VanishingSlots
<1>6. Spoken(EvalSlots)
  <2>1. PICK a, b, d : a = FixedEvals /\ b = VanishingEvaluate /\ d = SigmaEvaluate
    OBVIOUS
  <2>2. List(a) /\ List(b) /\ List(d) /\ Clean((a \o b) \o d)
    BY <2>1, PartsAreLists, PartsClean
  <2>3. List(a \o b)
    BY <2>2, ListConcat
  <2>4. Clean(a \o b) /\ Clean(d)
    BY <2>2, <2>3, CleanPieces
  <2>5. Clean(a) /\ Clean(b)
    BY <2>2, <2>4, CleanPieces
  <2>6. Spoken(a) /\ Spoken(b) /\ Spoken(d)
    BY <2>4, <2>5, CleanSpoken
  <2>7. Spoken(AdviceEvals \o a)
    BY <2>6, EvalsSpoken, SpokenConcat
  <2>8. Spoken((AdviceEvals \o a) \o b)
    BY <2>6, <2>7, SpokenConcat
  <2>9. Spoken(((AdviceEvals \o a) \o b) \o d)
    BY <2>6, <2>8, SpokenConcat
  <2> QED BY <2>1, <2>9 DEF EvalSlots
<1> QED BY <1>1, <1>2, <1>3, <1>5, <1>6, PhasesSpoken

-----------------------------------------------------------------------------
LEMMA TakenCopies ==
  ASSUME VerifierInv, NEW slots, List(slots), NEW before, before \in Nat, before + Len(Sent(slots)) <= Len(wire)
  PROVE  Copies(Taken(slots, before), slots, before)
<1>1. List(wire) /\ Len(wire) \in Nat /\ \A k \in 1 .. Len(wire) : Received(wire[k])
  BY ListDomain DEF VerifierInv
<1>2. PICK t : t = Taken(slots, before)
  OBVIOUS
<1>3. Copies(t, slots, before)
  BY <1>1, <1>2, TakenEchoes
<1> QED BY <1>2, <1>3

-----------------------------------------------------------------------------
(* There are instance values, so that others can be told. *)
Told == \E i \in Proofs : \E j \in DOMAIN input.instances[i] : input.instances[i][j] > 0

LEMMA ToldValues ==
  ASSUME input \in Inputs, Told, NEW version PROVE Len(Greeting(version)) >= 2
<1> DEFINE col(i, j) == [r \in 1 .. input.instances[i][j] |-> Element("common", "instance", i, j, r, version)]
           part(i) == [j \in DOMAIN input.instances[i] |-> col(i, j)]
           fs == [i \in Proofs |-> FlattenSeq(part(i))]
<1>1. PICK n : n \in Nat /\ Proofs = 1 .. n
  BY TheCircuit
<1>2. ASSUME NEW i \in Proofs
      PROVE  /\ List(FlattenSeq(part(i)))
             /\ \A j \in DOMAIN input.instances[i] : input.instances[i][j] > 0 => Len(FlattenSeq(part(i))) >= 1
  <2>1. PICK s : s = input.instances[i]
    OBVIOUS
  <2>2. Len(s) \in Nat /\ DOMAIN s = 1 .. Len(s) /\ \A j \in 1 .. Len(s) : s[j] \in Nat
    BY <2>1, TheCircuit, SeqIs
  <2>3. ASSUME NEW j \in 1 .. Len(s) PROVE List(col(i, j)) /\ Len(col(i, j)) = s[j]
    <3>1. s[j] \in Nat
      BY <2>2
    <3>2. col(i, j) = [r \in 1 .. s[j] |-> col(i, j)[r]]
      BY <2>1
    <3> HIDE DEF col
    <3> QED BY <3>1, <3>2, ListOf
  <2>4. PICK f, t : f = part(i) /\ t = FlattenSeq(f)
    OBVIOUS
  <2>5. f = [j \in 1 .. Len(s) |-> f[j]] /\ \A j \in 1 .. Len(s) : f[j] = col(i, j)
    <3> HIDE DEF col
    <3> QED BY <2>1, <2>2, <2>4
  <2> HIDE DEF col, part
  <2>6. Gathers(f, Len(s), t)
    BY <2>2, <2>3, <2>4, <2>5, FlattenOf
  <2>7. ASSUME NEW j \in 1 .. Len(s), s[j] > 0 PROVE Len(t) >= 1
    <3>1. 1 \in 1 .. Len(f[j])
      BY <2>2, <2>3, <2>5, <2>7
    <3>2. PICK x \in 1 .. Len(t) : t[x] = f[j][1]
      BY <2>6, <3>1 DEF Gathers
    <3>3. Len(t) \in Nat
      BY <2>6 DEF Gathers, List
    <3> QED BY <3>2, <3>3
  <2> QED BY <2>1, <2>2, <2>4, <2>6, <2>7 DEF Gathers
<1>3. InstanceValues(version) = FlattenSeq(fs)
  BY DEF InstanceValues, ForEachCircuit, ForEach
<1>4. PICK f, t : f = fs /\ t = FlattenSeq(f)
  OBVIOUS
<1>5. f = [i \in 1 .. n |-> f[i]] /\ \A i \in 1 .. n : f[i] = FlattenSeq(part(i))
  <2> HIDE DEF part, Proofs
  <2> QED BY <1>1, <1>4
<1> HIDE DEF fs, part
<1>6. Gathers(f, n, t)
  BY <1>1, <1>2, <1>4, <1>5, FlattenOf
<1>7. PICK i \in Proofs : Len(f[i]) >= 1
  BY <1>1, <1>2, <1>5 DEF Told
<1>8. 1 \in 1 .. Len(f[i])
  BY <1>1, <1>2, <1>5, <1>7 DEF List
<1>9. PICK x \in 1 .. Len(t) : t[x] = f[i][1]
  BY <1>1, <1>6, <1>8 DEF Gathers
<1>10. Len(t) >= 1 /\ Len(t) \in Nat
  BY <1>6, <1>9 DEF Gathers, List
<1> QED BY <1>3, <1>4, <1>10, GreetingItems

(* So that what the two parties begin with tells them apart. *)
LEMMA GreetingsDiffer ==
  ASSUME input \in Inputs, Told, NEW t, Begins(t, Greeting(0)), Begins(t, Greeting(1)) PROVE FALSE
<1>1. PICK g, h : g = Greeting(0) /\ h = Greeting(1)
  OBVIOUS
<1>2. PICK rest : List(rest) /\ t = g \o rest
  BY <1>1 DEF Begins
<1>3. PICK more : List(more) /\ t = h \o more
  BY <1>1 DEF Begins
<1>4. List(g) /\ Len(g) >= 2 /\ \A k \in 1 .. Len(g) : Introduces(g[k], k, 0)
  BY <1>1, GreetingItems, ToldValues
<1>5. List(h) /\ Len(h) >= 2 /\ \A k \in 1 .. Len(h) : Introduces(h[k], k, 1)
  BY <1>1, GreetingItems, ToldValues
<1>6. 2 \in 1 .. Len(g) /\ 2 \in 1 .. Len(h)
  BY <1>4, <1>5 DEF List
<1>7. t[2] = g[2]
  BY <1>2, <1>4, <1>6, ListConcat
<1>8. t[2] = h[2]
  BY <1>3, <1>5, <1>6, ListConcat
<1>9. g[2].v = 0 /\ h[2].v = 1
  BY <1>4, <1>5, <1>6 DEF Introduces
<1> QED BY <1>7, <1>8, <1>9

-----------------------------------------------------------------------------
(* What the verifier absorbs is what it was told, then what it was given,  *)
(* in order; and it only accepts what came to it whole, from a session in  *)
(* which no write failed.                                                  *)
Heard ==
  /\ vpc \notin {"idle", "instances"} => Begins(tv, Greeting(told))
  /\ Spoken(tv) /\ Echoes
  /\ vpc # "idle" => told = 0 \/ (told = 1 /\ Told)
  /\ vpc # "done" => verdict = "none"
  /\ verdict = "accept" => ~torn /\ Intact

LEMMA SameHeard ==
  ASSUME input' = input, told' = told
  PROVE  /\ Begins(tv', Greeting(told)) => Begins(tv, Greeting(told))'
         /\ Spoken(tv') => Spoken(tv)'
         /\ Told => Told'
<1>1. Greeting(told)' = Greeting(told)
  <2>1. c' = c /\ Proofs' = Proofs
    BY SameSession
  <2>2. InstanceValues(told)' = InstanceValues(told)
    BY <2>1 DEF InstanceValues, ForEachCircuit, ForEach
  <2> QED BY <2>2 DEF Greeting, Key
<1>2. Begins(tv', Greeting(told)) => Begins(tv, Greeting(told))'
  BY <1>1 DEF Begins
<1>3. Spoken(tv') => Spoken(tv)'
  BY DEF Spoken
<1>4. Told => Told'
  BY SameSession DEF Told
<1> QED BY <1>2, <1>3, <1>4

LEMMA HeardRests ==
  ASSUME Heard, UNCHANGED <<input, wire, told, vpc, tv, verdict>>, UNCHANGED <<torn, proof>> \/ vpc # "done"
  PROVE  Heard'
<1>1. vpc' \notin {"idle", "instances"} => Begins(tv, Greeting(told))'
  BY SameHeard DEF Heard
<1>2. Spoken(tv)' /\ Echoes' /\ (Told => Told')
  BY SameHeard DEF Heard, Echoes, Sent
<1>3. verdict' = "accept" => (~torn /\ Intact)'
  BY DEF Heard, Intact
<1> QED BY <1>1, <1>2, <1>3 DEF Heard

LEMMA InitHeard == ASSUME Init PROVE Heard
<1>1. tv = << >> /\ vpc = "idle" /\ verdict = "none"
  BY DEF Init
<1>2. Spoken(tv)
  BY <1>1, NoItems DEF Spoken
<1>3. Sent(tv) = << >>
  BY <1>1, SentNothing
<1>4. Echoes
  BY <1>3, NoItems DEF Echoes
<1> QED BY <1>1, <1>2, <1>4 DEF Heard

(* The prover is done by the time the verifier has anything. *)
LEMMA ProverHeard == ASSUME Hears, Heard, Caller \/ Prover PROVE Heard'
<1>1. vpc = "idle" /\ UNCHANGED <<wire, vpc, tv, verdict>>
  BY ProverDone, ProverAlone DEF Hears
<1>2. ASSUME Spoken(tv) PROVE Spoken(tv)'
  BY <1>1, <1>2 DEF Spoken
<1>3. Echoes'
  BY <1>1 DEF Heard, Echoes, Sent
<1> QED BY <1>1, <1>2, <1>3 DEF Heard

LEMMA CarryHeard ==
  ASSUME VerifierInv, Heard, NEW elements, NEW version, version = 0 \/ (version = 1 /\ Told), Carry(elements, version)
  PROVE  Heard'
<1>1. /\ vpc = "idle" /\ vpc' = "instances" /\ told' = version /\ tv' = tv /\ verdict' = verdict /\ input' = input
      /\ wire' = elements
  BY DEF Carry
<1>2. tv = << >> /\ verdict = "none"
  BY <1>1 DEF VerifierInv, Heard
<1>3. Spoken(tv)'
  BY <1>1, <1>2, NoItems DEF Spoken
<1>4. Echoes'
  <2>1. Sent(tv)' = << >>
    BY <1>1, <1>2, SentNothing DEF Sent
  <2> QED BY <2>1, NoItems DEF Echoes
<1>5. Told => Told'
  BY <1>1, SameSession DEF Told
<1> QED BY <1>1, <1>2, <1>3, <1>4, <1>5 DEF Heard

LEMMA ChannelHeard == ASSUME VerifierInv, Heard, Channel PROVE Heard'
<1>1. ASSUME NEW elements, Carry(elements, 0) PROVE Heard'
  BY <1>1, CarryHeard
<1>2. CASE Deliver \/ Extend
  BY <1>1, <1>2 DEF Deliver, Extend
<1>3. CASE Misinform
  <2>1. Told /\ Carry(proof, 1)
    BY <1>3 DEF Misinform, Told
  <2> QED BY <2>1, CarryHeard
<1>4. CASE \E len \in 0 .. Len(proof) : Cut(len)
  BY <1>1, <1>4 DEF Cut
<1>5. CASE \E pos \in DOMAIN proof : Change(pos)
  BY <1>1, <1>5 DEF Change
<1> QED BY <1>2, <1>3, <1>4, <1>5 DEF Channel

LEMMA ReadInstancesHeard == ASSUME ProverInv, VerifierInv, Heard, ReadInstances PROVE Heard'
<1>1. /\ vpc = "instances" /\ vpc' = "phases" /\ UNCHANGED <<input, wire, told, verdict, torn, proof>>
      /\ tv' = Greeting(told)
  BY DEF ReadInstances, Greeting, proverVars
<1>2. input \in Inputs
  BY DEF ProverInv, ProverTypes
<1>3. PICK g : g = Greeting(told)
  OBVIOUS
<1>4. List(g) /\ \A k \in 1 .. Len(g) : Introduces(g[k], k, told)
  BY <1>2, <1>3, GreetingItems
<1>5. Begins(tv', Greeting(told))
  <2>1. g \o << >> = g /\ List(<< >>)
    BY <1>4, ConcatNone, NoItems
  <2> QED BY <1>1, <1>3, <2>1 DEF Begins
<1>6. Spoken(tv')
  BY <1>1, <1>3, <1>4 DEF Spoken, Introduces
<1>7. Echoes'
  <2>1. Sent(g) = << >>
    BY <1>2, <1>3, GreetingIs
  <2>2. Sent(tv)' = << >>
    BY <1>1, <1>3, <2>1 DEF Sent
  <2> QED BY <2>2, NoItems DEF Echoes
<1>8. Begins(tv, Greeting(told))' /\ Spoken(tv)' /\ (Told => Told')
  BY <1>1, <1>5, <1>6, SameHeard
<1> QED BY <1>1, <1>7, <1>8 DEF Heard

LEMMA RejectHeard == ASSUME Heard, vpc \notin {"idle", "instances", "done"}, Return("reject") PROVE Heard'
<1>1. vpc' = "done" /\ verdict' = "reject" /\ UNCHANGED <<input, wire, told, tv, torn, proof>>
  BY DEF Return, proverVars
<1>2. Begins(tv, Greeting(told))' /\ Spoken(tv)' /\ (Told => Told')
  BY <1>1, SameHeard DEF Heard
<1>3. Echoes'
  BY <1>1 DEF Heard, Echoes, Sent
<1> QED BY <1>1, <1>2, <1>3 DEF Heard

LEMMA ReadHeard ==
  ASSUME input \in Inputs, VerifierInv, Heard, NEW from, from \in Reading \ {"instances"}, NEW to, to \in Reading \ {"instances"},
         NEW slots, Spoken(slots), Read(from, to, slots)
  PROVE  Heard'
<1>1. vpc = from /\ from \notin {"idle", "instances", "done"} /\ to \notin {"idle", "instances", "done"}
  BY DEF Read, Reading
<1>2. CASE Return("reject")
  BY <1>1, <1>2, RejectHeard
<1>3. CASE ~Return("reject")
  <2>1. PICK before, w, t : before = Len(Sent(tv)) /\ w = Sent(slots) /\ t = Taken(slots, before)
    OBVIOUS
  <2>2. /\ before + Len(w) <= Len(wire) /\ vpc' = to /\ tv' = tv \o t
        /\ UNCHANGED <<input, wire, told, verdict, torn, proof>>
    BY <1>3, <2>1 DEF Read, proverVars
  <2>3. List(slots) /\ List(tv) /\ List(wire) /\ List(Sent(tv))
    BY SentIs DEF Spoken, VerifierInv
  <2>4. before \in Nat /\ Len(wire) \in Nat /\ \A k \in 1 .. Len(wire) : Received(wire[k])
    BY <2>1, <2>3, ListDomain DEF VerifierInv
  <2>5. /\ List(t) /\ Len(Sent(t)) = Len(Sent(slots))
        /\ \A x \in 1 .. Len(Sent(t)) : Sent(t)[x] = wire[before + x]
        /\ \A k \in 1 .. Len(t) : Received(t[k]) \/ t[k] = slots[k]
    <3>1. before + Len(Sent(slots)) <= Len(wire)
      BY <2>1, <2>2
    <3>2. Copies(t, slots, before)
      BY <2>1, <2>3, <2>4, <3>1, TakenCopies
    <3> QED BY <3>2 DEF Copies
  <2>6. Len(t) = Len(slots)
    <3>1. PICK n : n \in Nat /\ n = Len(slots) /\ DOMAIN slots = 1 .. n
      BY <2>3, ListDomain
    <3>2. t = [k \in 1 .. n |-> t[k]]
      BY <2>1, <3>1 DEF Taken
    <3> QED BY <3>1, <3>2, ListOf
  <2>7. Spoken(t)
    <3>1. \A k \in 1 .. Len(t) : slots[k].kind # "prefix"
      BY <2>6 DEF Spoken
    <3> QED BY <2>5, <3>1 DEF Spoken, Received
  <2>8. Spoken(tv \o t)
    BY <2>7, SpokenConcat DEF Heard
  <2>9. Begins(tv \o t, Greeting(told))
    <3>1. PICK g, rest : g = Greeting(told) /\ List(rest) /\ tv = g \o rest
      BY <1>1 DEF Heard, Begins
    <3>2. Begins(tv, g)
      BY <3>1 DEF Begins
    <3>3. List(g)
      BY <3>1, GreetingOf
    <3> QED BY <2>5, <3>1, <3>2, <3>3, BeginsMore
  <2>10. Begins(tv, Greeting(told))' /\ Spoken(tv)' /\ (Told => Told')
    BY <2>2, <2>8, <2>9, SameHeard
  <2>11. Echoes'
    <3>1. PICK a, b : a = Sent(tv) /\ b = Sent(t)
      OBVIOUS
    <3>2. List(a) /\ List(b) /\ Len(b) \in Nat
      BY <2>3, <2>5, <3>1, SentIs, ListDomain
    <3>3. Sent(tv)' = a \o b
      <4>1. Sent(tv \o t) = a \o b
        BY <2>3, <2>5, <3>1, SentConcat
      <4> QED BY <2>2, <4>1 DEF Sent
    <3>4. ASSUME NEW x \in 1 .. Len(a \o b) PROVE (a \o b)[x] = wire[x]
      <4>1. CASE x \in 1 .. Len(a) /\ (a \o b)[x] = a[x]
        BY <3>1, <4>1 DEF Heard, Echoes
      <4>2. CASE \E y \in 1 .. Len(b) : x = Len(a) + y /\ (a \o b)[x] = b[y]
        BY <2>1, <2>5, <3>1, <4>2
      <4> QED BY <3>2, <4>1, <4>2, ConcatPlace
    <3> QED BY <2>2, <3>3, <3>4 DEF Echoes
  <2> QED BY <1>1, <2>2, <2>10, <2>11 DEF Heard
<1> QED BY <1>2, <1>3

-----------------------------------------------------------------------------
LEMMA EchoesPrefix ==
  ASSUME VerifierInv, Heard, proof = Sent(tv) PROVE IsPrefix(proof, wire)
<1>1. PICK p, m : p = Sent(tv) /\ m = Len(p)
  OBVIOUS
<1>2. List(wire) /\ List(tv)
  BY DEF VerifierInv
<1>3. List(p) /\ m \in Nat /\ Len(wire) \in Nat /\ m <= Len(wire)
  <2>1. List(p)
    BY <1>1, <1>2, SentIs
  <2> QED BY <1>1, <1>2, <2>1, ListDomain DEF VerifierInv
<1>4. PICK u, v : u = Upto(wire, m) /\ v = Beyond(wire, m)
  OBVIOUS
<1>5. m \in 0 .. Len(wire)
  BY <1>3
<1>6. wire = u \o v /\ List(u) /\ Len(u) = m /\ List(v)
  BY <1>2, <1>4, <1>5, SplitAt
<1>7. \A k \in 1 .. m : u[k] = wire[k] /\ p[k] = wire[k]
  BY <1>1, <1>4 DEF Heard, Echoes, Upto
<1>8. p = u
  BY <1>1, <1>3, <1>6, <1>7, ListEqual
<1>9. wire = p \o v
  BY <1>6, <1>8
<1>10. IsPrefix(p, wire)
  BY <1>2, <1>3, <1>6, <1>9, PrefixOf
<1> QED BY <1>1, <1>10

(* Two transcripts that are the same: the one holds no failed write and    *)
(* begins with the values the verifier was told, the other begins with the *)
(* prover's.                                                               *)
LEMMA SameIsIntact ==
  ASSUME ProverInv, VerifierInv, Following, Hears, Recorded, Heard, vpc = "check", tv = tp
  PROVE  ~torn /\ Intact
<1>1. pc = "proved" /\ input \in Inputs
  BY DEF Hears, ProverInv, ProverTypes
<1>2. ~torn
  <2>1. ~Torn(tp)
    BY DEF Heard, Spoken, Torn
  <2> QED BY <2>1 DEF Recorded
<1>3. told = 0
  <2>1. CASE told = 1 /\ Told
    <3>1. Begins(tp, Greeting(1))
      BY <2>1 DEF Heard
    <3>2. Begins(tp, Greeting(0))
      BY <1>1 DEF Recorded
    <3> QED BY <1>1, <2>1, <3>1, <3>2, GreetingsDiffer
  <2> QED BY <2>1 DEF Heard
<1>4. proof = Sent(tv)
  BY <1>2 DEF Following, Scripted
<1>5. IsPrefix(proof, wire)
  BY <1>4, EchoesPrefix
<1> QED BY <1>2, <1>3, <1>5 DEF Intact

LEMMA CheckHeard ==
  ASSUME ProverInv, VerifierInv, Following, Hears, Recorded, Heard, Check PROVE Heard'
<1>1. PICK answer : answer = (IF Holds THEN "accept" ELSE "reject")
  OBVIOUS
<1>2. vpc = "check" /\ Return(answer)
  BY <1>1 DEF Check
<1>3. /\ vpc' = "done" /\ verdict' = answer
      /\ UNCHANGED <<input, wire, told, tv, torn, proof>>
  BY <1>2 DEF Return, proverVars
<1>4. Begins(tv, Greeting(told))' /\ Spoken(tv)' /\ (Told => Told')
  BY <1>2, <1>3, SameHeard DEF Heard
<1>5. Echoes'
  BY <1>3 DEF Heard, Echoes, Sent
<1>6. answer = "accept" => (~torn /\ Intact)'
  <2>1. SUFFICES ASSUME answer = "accept" PROVE (~torn /\ Intact)'
    OBVIOUS
  <2>2. tv = tp
    BY <1>1, <2>1 DEF Holds
  <2>3. ~torn /\ Intact
    BY <1>2, <2>2, SameIsIntact
  <2> QED BY <1>3, <2>3 DEF Intact
<1> QED BY <1>2, <1>3, <1>4, <1>5, <1>6 DEF Heard

LEMMA VerifierHeard ==
  ASSUME ProverInv, VerifierInv, Following, Hears, Recorded, Heard, Verifier PROVE Heard'
<1>1. input \in Inputs
  BY DEF ProverInv, ProverTypes
<1>2. CASE ReadInstances
  BY <1>2, ReadInstancesHeard
<1>3. CASE ReadPhases
  <2>1. PICK slots : slots = Begun(Len(vk.phases))
    OBVIOUS
  <2>2. Read("phases", "lookups", slots) /\ Spoken(slots)
    BY <1>1, <1>3, <2>1, SlotsAre, SlotsSpoken
  <2> QED BY <1>1, <2>2, ReadHeard DEF Reading
<1>4. CASE ReadLookups
  <2>1. Read("lookups", "products", Lookups) /\ Spoken(Lookups)
    BY <1>1, <1>4, SlotsAre, SlotsSpoken
  <2> QED BY <1>1, <2>1, ReadHeard DEF Reading
<1>5. CASE ReadProducts
  <2>1. Read("products", "vanishing", ProductSlots) /\ Spoken(ProductSlots)
    BY <1>1, <1>5, SlotsAre, SlotsSpoken
  <2> QED BY <1>1, <2>1, ReadHeard DEF Reading
<1>6. CASE ReadVanishing
  <2>1. Read("vanishing", "evals", VanishingSlots) /\ Spoken(VanishingSlots)
    BY <1>1, <1>6, SlotsAre, SlotsSpoken
  <2> QED BY <1>1, <2>1, ReadHeard DEF Reading
<1>7. CASE ReadColumnEvals
  <2>1. Read("evals", "argument evals", EvalSlots) /\ Spoken(EvalSlots)
    BY <1>1, <1>7, SlotsAre, SlotsSpoken
  <2> QED BY <1>1, <2>1, ReadHeard DEF Reading
<1>8. CASE ReadArgumentEvals
  <2>1. Read("argument evals", "open", ArgumentSlots) /\ Spoken(ArgumentSlots)
    BY <1>1, <1>8, SlotsAre, SlotsSpoken
  <2> QED BY <1>1, <2>1, ReadHeard DEF Reading
<1>9. CASE ReadOpening
  <2>1. Read("open", "check", OpeningSlots) /\ Spoken(OpeningSlots)
    BY <1>1, <1>9, SlotsAre, SlotsSpoken
  <2> QED BY <1>1, <2>1, ReadHeard DEF Reading
<1>10. CASE Check
  BY <1>10, CheckHeard
<1> QED BY <1>2, <1>3, <1>4, <1>5, <1>6, <1>7, <1>8, <1>9, <1>10 DEF Verifier

Sound == Agree /\ Recorded /\ Heard

LEMMA SoundHolds == Spec => []Sound
<1>1. Init => Sound
  BY InitProver, InitVerifier, InitFollows, InitHears, InitRecords, InitHeard DEF Sound, Agree, Inv
<1>2. Sound /\ Agree' /\ [Next]_vars => Sound'
  <2> SUFFICES ASSUME Sound, Agree', [Next]_vars PROVE Sound'
    OBVIOUS
  <2>1. CASE Caller \/ Prover
    BY <2>1, ProverRecords, ProverHeard DEF Sound, Agree, Inv
  <2>2. CASE Channel \/ Verifier
    <3>1. Recorded'
      BY <2>2, VerifierAlone, RecordRests DEF Sound
    <3>2. Heard'
      BY <2>2, ChannelHeard, VerifierHeard DEF Sound, Agree, Inv
    <3> QED BY <3>1, <3>2 DEF Sound
  <2>3. CASE UNCHANGED vars
    <3>1. Recorded'
      BY <2>3, RecordRests DEF Sound, vars, proverVars
    <3>2. Heard'
      BY <2>3, HeardRests DEF Sound, vars, proverVars, verifierVars
    <3> QED BY <3>1, <3>2 DEF Sound
  <2> QED BY <2>1, <2>2, <2>3 DEF Next
<1> QED BY <1>1, <1>2, AgreeHolds, PTL DEF Spec

(* A proof is accepted only if no call of commit_phase failed in its session,
   what the verifier was given begins with it unchanged, and the instances are
   the prover's. *)
OnlyIntactAccepted == verdict = "accept" => ~torn /\ Intact

(* The transcript is what decides: an interrupted commit_phase leaves in the
   prover's a prefix that no verifier absorbs, other instances stand at its
   beginning, and a changed or missing element never echoes. *)
THEOREM AcceptedMeansIntact == Spec => []OnlyIntactAccepted
<1>1. Sound => OnlyIntactAccepted
  BY DEF Sound, Heard, OnlyIntactAccepted
<1> QED BY <1>1, SoundHolds, PTL

-----------------------------------------------------------------------------
(***************************************************************************)
(* What the verifier holds in an honest session: in every slot the element *)
(* of that name, at the version the column has, and a slot for everything  *)
(* it has absorbed.                                                        *)
(***************************************************************************)
Slot(e)    == Element(e.kind, e.of, e.i, e.j, e.r, 0)
Exactly(s) == Element(s.kind, s.of, s.i, s.j, s.r, Version(advices, s))

Filed(t) == \A k \in 1 .. Len(t) : Received(t[k]) => Slot(t[k]) \in DOMAIN got

Ready == Honest => (\A s \in DOMAIN got : got[s] = Exactly(s)) /\ Filed(tv)

LEMMA MeantExactly ==
  ASSUME NEW s, NEW e, Meant(s, e), Exact(advices, e) PROVE e = Exactly(s) /\ s = Slot(e)
<1>1. PICK v : v = Version(advices, e)
  OBVIOUS
<1>2. e = Element(e.kind, e.of, e.i, e.j, e.r, v)
  BY <1>1 DEF Exact
<1>3. [e EXCEPT !.v = 0] = Element(e.kind, e.of, e.i, e.j, e.r, 0)
  BY <1>2 DEF Element
<1>4. s = Element(e.kind, e.of, e.i, e.j, e.r, 0)
  BY <1>3 DEF Meant
<1>5. s.kind = e.kind /\ s.of = e.of /\ s.i = e.i /\ s.j = e.j /\ s.r = e.r
  BY <1>4 DEF Element
<1>6. Version(advices, s) = v
  BY <1>1, <1>5 DEF Version
<1> QED BY <1>2, <1>4, <1>5, <1>6 DEF Exactly, Slot

(* No element of the prover's has the version of a damaged one. *)
LEMMA ExactWhole ==
  ASSUME ProverInv, NEW e, Exact(advices, e) PROVE e.v # -1
<1>1. e.v = Version(advices, e)
  BY DEF Exact, Element
<1>2. CASE e.of = "advice"
  <2>1. PICK i, j : i = e.i /\ j = e.j /\ i \in Proofs /\ j \in DOMAIN c.adv
    BY <1>2 DEF Exact
  <2>2. advices[i] \in [DOMAIN c.adv -> 0 .. attempt]
    BY <2>1 DEF ProverInv, ProverTypes
  <2>3. advices[i][j] \in 0 .. attempt
    BY <2>1, <2>2
  <2>4. advices[i][j] # -1
    BY <2>3
  <2> QED BY <1>1, <1>2, <2>1, <2>4 DEF Version
<1>3. CASE e.of # "advice"
  BY <1>1, <1>3 DEF Version
<1> QED BY <1>2, <1>3

LEMMA RecentPart ==
  ASSUME NEW a, NEW m, NEW o, List(a), List(m), List(o), NEW t, t = a \o (m \o o), NEW ads, Recent(t, ads)
  PROVE  Recent(m, ads)
<1>1. PICK y : y = m \o o /\ List(y)
  BY ListConcat
<1>2. PICK l : l = Len(a) /\ l \in Nat
  BY ListDomain
<1>3. PICK n, k : n = Len(m) /\ k = Len(o)
  OBVIOUS
<1>4. Join(y, m, n, o, k)
  BY <1>1, <1>3, Joins
<1>5. Join(t, a, l, y, Len(y))
  BY <1>1, <1>2, Joins
<1>6. ASSUME NEW x \in 1 .. n, Received(m[x]) PROVE Exact(ads, m[x])
  <2>1. x \in 1 .. Len(y) /\ y[x] = m[x]
    BY <1>4 DEF Join
  <2>2. t[l + x] = y[x]
    BY <1>5, <2>1 DEF Join
  <2>3. Len(t) = l + Len(y)
    BY <1>5 DEF Join
  <2>4. l + x \in 1 .. Len(t)
    BY <1>2, <1>4, <1>6, <2>3 DEF Join
  <2>5. t[l + x] = m[x]
    BY <2>1, <2>2
  <2> QED BY <1>6, <2>4, <2>5 DEF Recent
<1> QED BY <1>3, <1>6 DEF Recent

(* In an honest session the next elements are there, of the right kinds, as *)
(* the prover has them.                                                    *)
Awaits(mine, slots) ==
  \E before \in Nat : \E x, wanted :
    /\ before = Len(Sent(tv)) /\ x = Sent(mine) /\ wanted = Sent(slots)
    /\ Fits(x, wanted) /\ before + Len(x) <= Len(wire)
    /\ \A k \in 1 .. Len(x) : wire[before + k] = x[k] /\ Received(x[k]) /\ Exact(advices, x[k])

LEMMA NextAwaits ==
  ASSUME ProverInv, VerifierInv, Following, Recorded, Honest,
         NEW mine, NEW others, NEW slots, Fits(mine, slots), List(others), tp = tv \o (mine \o others)
  PROVE  Awaits(mine, slots)
<1>1. List(tv) /\ List(wire) /\ proof = Sent(tp) /\ IsPrefix(proof, wire) /\ Recent(tp, advices)
  BY DEF VerifierInv, Honest, Intact, Following, Scripted, Recorded
<1>2. PICK before, x, wanted : before = Len(Sent(tv)) /\ x = Sent(mine) /\ wanted = Sent(slots)
  OBVIOUS
<1>3. /\ Fits(x, wanted) /\ before \in Nat /\ before + Len(x) <= Len(wire)
      /\ \A k \in 1 .. Len(x) : wire[before + k] = x[k]
  <2>1. Arrived(x, wanted, before)
    BY <1>1, <1>2, Arrives
  <2> QED BY <2>1 DEF Arrived
<1>4. List(mine)
  BY DEF Fits
<1>5. Recent(mine, advices)
  BY <1>1, <1>4, RecentPart
<1>6. ASSUME NEW k \in 1 .. Len(x) PROVE Received(x[k]) /\ Exact(advices, x[k])
  <2>1. PICK m \in 1 .. Len(mine) : Received(mine[m]) /\ Sent(mine)[k] = mine[m]
    <3>1. SentAs(mine, k)
      BY <1>2, <1>4, <1>6, SentFrom
    <3> QED BY <1>2, <3>1 DEF SentAs
  <2> QED BY <1>2, <1>5, <2>1 DEF Recent
<1> QED BY <1>2, <1>3, <1>6 DEF Awaits

LEMMA NoReject ==
  ASSUME ProverInv, NEW mine, NEW slots, Awaits(mine, slots), NEW from, NEW to, Read(from, to, slots)
  PROVE  vpc' = to
<1>1. PICK before, x, wanted :
        /\ before \in Nat /\ before = Len(Sent(tv)) /\ x = Sent(mine) /\ wanted = Sent(slots)
        /\ Fits(x, wanted) /\ before + Len(x) <= Len(wire)
        /\ \A k \in 1 .. Len(x) : wire[before + k] = x[k] /\ Received(x[k]) /\ Exact(advices, x[k])
  BY DEF Awaits
<1>2. Len(wanted) = Len(x) /\ DOMAIN wanted = 1 .. Len(x) /\ \A k \in 1 .. Len(x) : MeantFor(x[k], wanted[k])
  BY <1>1, ListDomain DEF Fits
<1>3. ASSUME NEW k \in DOMAIN wanted PROVE wire[before + k].kind = wanted[k].kind /\ wire[before + k].v # -1
  <2>1. Received(x[k]) /\ Exact(advices, x[k]) /\ wire[before + k] = x[k] /\ MeantFor(x[k], wanted[k])
    BY <1>1, <1>2
  <2>2. x[k].kind = wanted[k].kind
    BY <2>1 DEF MeantFor
  <2>3. x[k].v # -1
    BY <2>1, ExactWhole
  <2> QED BY <2>1, <2>2, <2>3
<1>4. before + Len(wanted) <= Len(wire)
  BY <1>1, <1>2
<1> QED BY <1>1, <1>3, <1>4 DEF Read

-----------------------------------------------------------------------------
LEMMA SameFiled ==
  ASSUME UNCHANGED <<input, advices>>
  PROVE  /\ \A s : Exactly(s)' = Exactly(s)
         /\ \A t : (\A k \in 1 .. Len(t) : Received(t[k]) => Slot(t[k]) \in DOMAIN got') => Filed(t)'
<1>1. \A s : Exactly(s)' = Exactly(s)
  BY DEF Exactly, Version
<1>2. \A t : (\A k \in 1 .. Len(t) : Received(t[k]) => Slot(t[k]) \in DOMAIN got') => Filed(t)'
  BY DEF Filed
<1> QED BY <1>1, <1>2

LEMMA ReadyRests ==
  ASSUME Ready, UNCHANGED <<input, advices, torn, proof, wire, told, tv, got>>, vpc # "idle" \/ vpc' = vpc
  PROVE  Ready'
<1>1. ASSUME Honest' PROVE (\A s \in DOMAIN got : got[s] = Exactly(s))' /\ Filed(tv)'
  <2>1. Honest
    BY <1>1 DEF Honest, Intact
  <2>2. (\A s \in DOMAIN got : got[s] = Exactly(s)) /\ Filed(tv)
    BY <2>1 DEF Ready
  <2>3. Filed(tv)'
    BY <2>2 DEF Filed
  <2>4. (\A s \in DOMAIN got : got[s] = Exactly(s))'
    BY <2>2, SameFiled
  <2> QED BY <2>3, <2>4
<1> QED BY <1>1 DEF Ready

(* Before anything is read there is nothing to be wrong. *)
LEMMA EmptyReady ==
  ASSUME DOMAIN got' = {}, \A k \in 1 .. Len(tv') : ~Received(tv'[k]) PROVE Ready'
<1>1. (\A s \in DOMAIN got : got[s] = Exactly(s))'
  OBVIOUS
<1>2. Filed(tv)'
  BY DEF Filed
<1> QED BY <1>1, <1>2 DEF Ready

LEMMA InitReady == ASSUME Init PROVE Ready
BY DEF Init, Ready, Honest

LEMMA ProverReady == ASSUME Hears, Caller \/ Prover PROVE Ready'
<1>1. vpc = "idle" /\ vpc' = vpc
  BY ProverDone, ProverAlone DEF Hears
<1> QED BY <1>1 DEF Ready, Honest

LEMMA CarryReady ==
  ASSUME VerifierInv, NEW elements, NEW version, Carry(elements, version) PROVE Ready'
<1>1. vpc = "idle" /\ tv' = tv /\ got' = got
  BY DEF Carry
<1>2. tv = << >> /\ DOMAIN got = {}
  BY <1>1 DEF VerifierInv
<1>3. \A k \in 1 .. Len(tv') : ~Received(tv'[k])
  BY <1>1, <1>2, NoItems
<1> QED BY <1>1, <1>2, <1>3, EmptyReady

LEMMA ChannelReady == ASSUME VerifierInv, Channel PROVE Ready'
BY CarryReady DEF Channel, Deliver, Extend, Misinform, Cut, Change

LEMMA ReadInstancesReady == ASSUME ProverInv, VerifierInv, ReadInstances PROVE Ready'
<1>1. vpc = "instances" /\ tv' = Greeting(told) /\ got' = got
  BY DEF ReadInstances, Greeting
<1>2. input \in Inputs /\ DOMAIN got = {}
  BY <1>1 DEF ProverInv, ProverTypes, VerifierInv
<1>3. \A k \in 1 .. Len(tv') : ~Received(tv'[k])
  <2>1. PICK g : g = Greeting(told)
    OBVIOUS
  <2>2. \A k \in 1 .. Len(g) : ~Received(g[k])
    BY <1>2, <2>1, GreetingOf
  <2> QED BY <1>1, <2>1, <2>2
<1> QED BY <1>1, <1>2, <1>3, EmptyReady

-----------------------------------------------------------------------------
(* What is taken into a slot is what the slot is for. *)
LEMMA FilledExactly ==
  ASSUME NEW mine, NEW slots, Awaits(mine, slots), NEW wanted, wanted = Sent(slots), NEW before, before = Len(Sent(tv)),
         NEW s, s \in ToSet(wanted), s \notin DOMAIN got
  PROVE  Filled(wanted, before)[s] = Exactly(s)
<1>1. PICK x :
        /\ x = Sent(mine) /\ Fits(x, wanted) /\ before + Len(x) <= Len(wire)
        /\ \A k \in 1 .. Len(x) : wire[before + k] = x[k] /\ Received(x[k]) /\ Exact(advices, x[k])
  BY DEF Awaits
<1>2. List(wanted) /\ DOMAIN wanted = 1 .. Len(x) /\ \A k \in 1 .. Len(x) : MeantFor(x[k], wanted[k])
  BY <1>1, ListDomain DEF Fits
<1>3. \E k \in DOMAIN wanted : wanted[k] = s
  BY <1>2, RangeOf, ListDomain
<1>4. PICK k : k = CHOOSE m \in DOMAIN wanted : wanted[m] = s
  OBVIOUS
<1>5. k \in DOMAIN wanted /\ wanted[k] = s
  BY <1>3, <1>4
<1>6. Filled(wanted, before)[s] = wire[before + k]
  BY <1>4 DEF Filled
<1>7. Received(x[k]) /\ Exact(advices, x[k]) /\ wire[before + k] = x[k] /\ MeantFor(x[k], s)
  BY <1>1, <1>2, <1>5
<1>8. Meant(s, x[k])
  BY <1>7 DEF MeantFor, Received
<1>9. x[k] = Exactly(s)
  BY <1>7, <1>8, MeantExactly
<1> QED BY <1>6, <1>7, <1>9

(* What is absorbed has a slot. *)
LEMMA MineFiled ==
  ASSUME NEW mine, NEW slots, Fits(mine, slots), Recent(mine, advices), NEW k, k \in 1 .. Len(mine), Received(mine[k])
  PROVE  Slot(mine[k]) \in ToSet(Sent(slots))
<1>1. PICK e, s : e = mine[k] /\ s = slots[k]
  OBVIOUS
<1>2. MeantFor(e, s) /\ k \in 1 .. Len(slots) /\ List(slots)
  BY <1>1 DEF Fits
<1>3. Received(s) /\ Meant(s, e)
  BY <1>1, <1>2 DEF MeantFor
<1>4. Exact(advices, e)
  BY <1>1 DEF Recent
<1>5. s = Slot(e)
  BY <1>3, <1>4, MeantExactly
<1>6. PICK p : p = Len(Sent(Upto(slots, k)))
  OBVIOUS
<1>7. p \in 1 .. Len(Sent(slots)) /\ Sent(slots)[p] = s
  BY <1>1, <1>2, <1>3, <1>6, PlaceIs
<1>8. List(Sent(slots))
  BY <1>2, SentIs
<1>9. s \in ToSet(Sent(slots))
  BY <1>7, <1>8, RangeOf
<1> QED BY <1>1, <1>5, <1>9

LEMMA FiledMore ==
  ASSUME NEW t, NEW m, NEW u, List(t), List(m), u = t \o m, NEW S,
         \A k \in 1 .. Len(t) : Received(t[k]) => Slot(t[k]) \in S,
         \A k \in 1 .. Len(m) : Received(m[k]) => Slot(m[k]) \in S
  PROVE  \A k \in 1 .. Len(u) : Received(u[k]) => Slot(u[k]) \in S
BY ConcatPlace

LEMMA ReadReady ==
  ASSUME ProverInv, VerifierInv, Following, Hears, Recorded, Ready,
         NEW from, from \in Reading \ {"instances"}, NEW to, to \in Reading,
         NEW slots, List(slots), Read(from, to, slots), NEW more, List(more), Unread(from) = slots \o more
  PROVE  Ready' /\ (Honest => vpc' = to)
<1>1. vpc = from /\ from # "idle" /\ to # "done"
  BY DEF Read, Reading
<1>2. UNCHANGED <<input, advices, tp, proof, torn, pc, wire, told>>
  BY DEF Read, Return, proverVars
<1>3. Honest' => Honest
  BY <1>1, <1>2 DEF Honest, Intact
<1>4. CASE ~Honest
  BY <1>3, <1>4 DEF Ready
<1>5. CASE Honest
  <2>1. PICK rest : List(rest) /\ tp = tv \o rest /\ Fits(rest, slots \o more)
    <3>1. PICK rest : List(rest) /\ tp = tv \o rest /\ Fits(rest, Unread(from))
      BY <1>1, <1>5 DEF Hears, Ahead
    <3> QED BY <3>1
  <2>2. PICK mine, others : rest = mine \o others /\ Fits(mine, slots) /\ Fits(others, more)
    <3>1. FitsInParts(rest, slots, more)
      BY <2>1, FitsSplit
    <3> QED BY <3>1 DEF FitsInParts
  <2>3. List(mine) /\ List(others) /\ List(tv) /\ List(wire)
    BY <2>2 DEF Fits, VerifierInv
  <2>4. tp = tv \o (mine \o others)
    BY <2>1, <2>2
  <2>5. Awaits(mine, slots)
    BY <1>5, <2>2, <2>3, <2>4, NextAwaits
  <2>6. vpc' = to
    BY <2>5, NoReject
  <2>7. proof = Sent(tp) /\ IsPrefix(proof, wire)
    BY <1>5 DEF Honest, Intact, Following, Scripted
  <2>8. /\ tv' = tv \o mine
        /\ \A s \in DOMAIN got : got'[s] = got[s]
        /\ DOMAIN got' = DOMAIN got \cup ToSet(Sent(slots))
    <3>1. ~Return("reject")
      BY <1>1, <2>6 DEF Return
    <3> QED BY <2>2, <2>3, <2>4, <2>7, <3>1, ReadFits
  <2>9. PICK wanted, before : wanted = Sent(slots) /\ before = Len(Sent(tv))
    OBVIOUS
  <2>10. got' = Filled(wanted, before)
    BY <1>1, <2>6, <2>9 DEF Read, Return
  <2>11. ASSUME NEW s \in DOMAIN got' PROVE got'[s] = Exactly(s)
    <3>1. CASE s \in DOMAIN got
      BY <1>5, <2>8, <3>1 DEF Ready
    <3>2. CASE s \notin DOMAIN got
      <4>1. s \in ToSet(wanted)
        BY <2>8, <2>9, <3>2
      <4> QED BY <2>5, <2>9, <2>10, <3>2, <4>1, FilledExactly
    <3> QED BY <3>1, <3>2
  <2>12. Recent(mine, advices)
    <3>1. Recent(tp, advices)
      BY <1>5 DEF Honest, Recorded
    <3> QED BY <2>3, <2>4, <3>1, RecentPart
  <2>13. PICK S, u : S = DOMAIN got' /\ u = tv'
    OBVIOUS
  <2>14. \A k \in 1 .. Len(u) : Received(u[k]) => Slot(u[k]) \in S
    <3>1. \A k \in 1 .. Len(mine) : Received(mine[k]) => Slot(mine[k]) \in S
      <4> SUFFICES ASSUME NEW k \in 1 .. Len(mine), Received(mine[k]) PROVE Slot(mine[k]) \in S
        OBVIOUS
      <4>1. Slot(mine[k]) \in ToSet(Sent(slots))
        BY <2>2, <2>12, MineFiled
      <4> QED BY <2>8, <2>13, <4>1
    <3>2. \A k \in 1 .. Len(tv) : Received(tv[k]) => Slot(tv[k]) \in S
      BY <1>5, <2>8, <2>13 DEF Ready, Filed
    <3> QED BY <2>3, <2>8, <2>13, <3>1, <3>2, FiledMore
  <2>15. Filed(tv)'
    BY <2>13, <2>14 DEF Filed
  <2>16. (\A s \in DOMAIN got : got[s] = Exactly(s))'
    BY <1>2, <2>11, SameFiled
  <2> QED BY <2>6, <2>15, <2>16 DEF Ready
<1> QED BY <1>4, <1>5

-----------------------------------------------------------------------------
(* In an honest session no step before the last ends the call. *)
VerifierGoesOn == Ready' /\ (Honest => vpc' \in Reading)

LEMMA GoesOn ==
  ASSUME ProverInv, VerifierInv, Following, Hears, Recorded, Ready, Verifier, ~Check PROVE VerifierGoesOn
<1>1. input \in Inputs
  BY DEF ProverInv, ProverTypes
<1>2. CASE ReadInstances
  <2>1. Ready'
    BY <1>2, ReadInstancesReady
  <2>2. vpc' \in Reading
    BY <1>2 DEF ReadInstances, Reading
  <2> QED BY <2>1, <2>2 DEF VerifierGoesOn
<1>3. CASE ReadPhases
  <2>1. PICK slots, more : slots = Begun(Len(vk.phases)) /\ more = FromLookups
    OBVIOUS
  <2>2. Read("phases", "lookups", slots) /\ List(slots) /\ List(more)
    BY <1>1, <1>3, <2>1, SlotsAre, UnreadIsList
  <2>3. Unread("phases") = slots \o more
    BY <2>1, UnreadIs DEF FromPhases
  <2> QED BY <2>2, <2>3, ReadReady DEF Reading, VerifierGoesOn
<1>4. CASE ReadLookups
  <2>1. PICK slots, more : slots = Lookups /\ more = FromProducts
    OBVIOUS
  <2>2. Read("lookups", "products", slots) /\ List(slots) /\ List(more)
    BY <1>1, <1>4, <2>1, SlotsAre, UnreadIsList, PartsAreLists
  <2>3. Unread("lookups") = slots \o more
    BY <2>1, UnreadIs DEF FromLookups
  <2> QED BY <2>2, <2>3, ReadReady DEF Reading, VerifierGoesOn
<1>5. CASE ReadProducts
  <2>1. PICK slots, more : slots = ProductSlots /\ more = FromRandom
    OBVIOUS
  <2>2. Read("products", "vanishing", slots) /\ List(slots) /\ List(more)
    BY <1>1, <1>5, <2>1, SlotsAre, UnreadIsList
  <2>3. Unread("products") = slots \o more
    BY <2>1, UnreadIs DEF FromProducts
  <2> QED BY <2>2, <2>3, ReadReady DEF Reading, VerifierGoesOn
<1>6. CASE ReadVanishing
  <2>1. PICK slots, more : slots = VanishingSlots /\ more = FromEvals
    OBVIOUS
  <2>2. Read("vanishing", "evals", slots) /\ List(slots) /\ List(more)
    BY <1>1, <1>6, <2>1, SlotsAre, UnreadIsList
  <2>3. Unread("vanishing") = slots \o more
    BY <2>1, UnreadIs DEF FromRandom
  <2> QED BY <2>2, <2>3, ReadReady DEF Reading, VerifierGoesOn
<1>7. CASE ReadColumnEvals
  <2>1. PICK slots, more : slots = EvalSlots /\ more = FromArguments
    OBVIOUS
  <2>2. Read("evals", "argument evals", slots) /\ List(slots) /\ List(more)
    BY <1>1, <1>7, <2>1, SlotsAre, UnreadIsList
  <2>3. Unread("evals") = slots \o more
    BY <2>1, UnreadIs DEF FromEvals
  <2> QED BY <2>2, <2>3, ReadReady DEF Reading, VerifierGoesOn
<1>8. CASE ReadArgumentEvals
  <2>1. PICK slots, more : slots = ArgumentSlots /\ more = OpeningSlots
    OBVIOUS
  <2>2. Read("argument evals", "open", slots) /\ List(slots) /\ List(more)
    BY <1>1, <1>8, <2>1, SlotsAre, UnreadIsList
  <2>3. Unread("argument evals") = slots \o more
    BY <2>1, UnreadIs DEF FromArguments
  <2> QED BY <2>2, <2>3, ReadReady DEF Reading, VerifierGoesOn
<1>9. CASE ReadOpening
  <2>1. PICK slots, more : slots = OpeningSlots /\ more = << >>
    OBVIOUS
  <2>2. Read("open", "check", slots) /\ List(slots) /\ List(more)
    BY <1>1, <1>9, <2>1, SlotsAre, UnreadIsList, NoItems
  <2>3. Unread("open") = slots \o more
    BY <2>1, <2>2, UnreadIs, ConcatNone
  <2> QED BY <2>2, <2>3, ReadReady DEF Reading, VerifierGoesOn
<1> QED BY <1>2, <1>3, <1>4, <1>5, <1>6, <1>7, <1>8, <1>9 DEF Verifier

LEMMA VerifierReady ==
  ASSUME ProverInv, VerifierInv, Following, Hears, Recorded, Ready, Verifier PROVE Ready'
<1>1. CASE Check
  <2>1. vpc = "check" /\ UNCHANGED <<input, advices, torn, proof, wire, told, tv, got>>
    BY <1>1 DEF Check, Return, proverVars
  <2> QED BY <2>1, ReadyRests
<1>2. CASE ~Check
  BY <1>2, GoesOn DEF VerifierGoesOn
<1> QED BY <1>1, <1>2

Exchange == Sound /\ Ready

LEMMA ExchangeHolds == Spec => []Exchange
<1>1. Init => Exchange
  BY InitReady, InitProver, InitVerifier, InitFollows, InitHears, InitRecords, InitHeard
     DEF Exchange, Sound, Agree, Inv
<1>2. Exchange /\ Sound' /\ [Next]_vars => Exchange'
  <2> SUFFICES ASSUME Exchange, Sound', [Next]_vars PROVE Ready'
    BY DEF Exchange
  <2>1. CASE Caller \/ Prover
    BY <2>1, ProverReady DEF Exchange, Sound, Agree
  <2>2. CASE Channel
    BY <2>2, ChannelReady DEF Exchange, Sound, Agree, Inv
  <2>3. CASE Verifier
    BY <2>3, VerifierReady DEF Exchange, Sound, Agree, Inv
  <2>4. CASE UNCHANGED vars
    BY <2>4, ReadyRests DEF Exchange, vars, proverVars, verifierVars
  <2> QED BY <2>1, <2>2, <2>3, <2>4 DEF Next
<1> QED BY <1>1, <1>2, SoundHolds, PTL DEF Spec

-----------------------------------------------------------------------------
(***************************************************************************)
(* What is asked for in a session.                                         *)
(***************************************************************************)
LEMMA HasPerCircuit ==
  ASSUME input \in Inputs, NEW fs, fs = [i \in Proofs |-> fs[i]], \A i \in Proofs : List(fs[i]),
         NEW i, i \in Proofs, NEW s, Has(fs[i], s)
  PROVE  Has(FlattenSeq(fs), s)
<1>1. PICK n : n \in Nat /\ Proofs = 1 .. n
  BY TheCircuit
<1> QED BY <1>1, HasFlatten

(* Circuit by circuit, argument by argument. *)
PerArgument(args, fs, n) ==
  /\ fs = [i \in Proofs |-> FlattenSeq(args[i])]
  /\ \A i \in Proofs : args[i] = [l \in 1 .. n |-> args[i][l]]
  /\ \A i \in Proofs : \A l \in 1 .. n : List(args[i][l])

LEMMA HasPerArgument ==
  ASSUME input \in Inputs, NEW n, n \in Nat, NEW args, NEW fs, PerArgument(args, fs, n),
         NEW i, i \in Proofs, NEW l, l \in 1 .. n, NEW s, Has(args[i][l], s)
  PROVE  Has(FlattenSeq(fs), s)
<1>1. /\ \A j \in Proofs : fs[j] = FlattenSeq(args[j])
      /\ \A j \in Proofs : args[j] = [k \in 1 .. n |-> args[j][k]]
      /\ \A j \in Proofs : \A k \in 1 .. n : List(args[j][k])
      /\ fs = [j \in Proofs |-> fs[j]]
  BY DEF PerArgument
<1>2. ASSUME NEW j \in Proofs PROVE List(fs[j])
  <2>1. PICK g : g = args[j]
    OBVIOUS
  <2>2. g = [k \in 1 .. n |-> g[k]] /\ \A k \in 1 .. n : List(g[k])
    BY <1>1, <2>1
  <2>3. List(FlattenSeq(g))
    BY <2>2, ListFlatten
  <2> QED BY <1>1, <2>1, <2>3
<1>3. Has(fs[i], s)
  <2>1. PICK g : g = args[i]
    OBVIOUS
  <2>2. g = [k \in 1 .. n |-> g[k]] /\ (\A k \in 1 .. n : List(g[k])) /\ Has(g[l], s)
    BY <1>1, <2>1
  <2>3. Has(FlattenSeq(g), s)
    BY <2>2, HasFlatten
  <2> QED BY <1>1, <2>1, <2>3
<1> QED BY <1>1, <1>2, <1>3, HasPerCircuit

-----------------------------------------------------------------------------
(* Of the parts of a session, one asks for s. *)
InPart(s) ==
  \/ Has(Begun(Len(vk.phases)), s) \/ Has(Lookups, s)
  \/ Has(PermutationProducts, s) \/ Has(LookupProducts, s) \/ Has(Shuffles, s)
  \/ Has(VanishingCommit, s) \/ Has(VanishingConstruct, s)
  \/ Has(AdviceEvals, s) \/ Has(FixedEvals, s) \/ Has(VanishingEvaluate, s) \/ Has(SigmaEvaluate, s)
  \/ Has(PermutationEvals, s) \/ Has(LookupEvals, s) \/ Has(ShuffleEvals, s)

LEMMA WholeHas == ASSUME input \in Inputs, NEW s, InPart(s) PROVE Has(Whole, s)
<1>1. /\ List(PermutationProducts) /\ List(LookupProducts) /\ List(Shuffles) /\ List(Lookups)
      /\ List(VanishingCommit) /\ List(VanishingConstruct)
      /\ List(AdviceEvals) /\ List(FixedEvals) /\ List(VanishingEvaluate) /\ List(SigmaEvaluate)
      /\ List(PermutationEvals) /\ List(LookupEvals) /\ List(ShuffleEvals)
  BY PartsAreLists
<1>2. /\ List(ProductSlots) /\ List(VanishingSlots) /\ List(EvalSlots) /\ List(ArgumentSlots)
      /\ List(OpeningSlots) /\ List(FromArguments) /\ List(FromEvals) /\ List(FromRandom)
      /\ List(FromProducts) /\ List(FromLookups) /\ List(FromPhases) /\ List(Begun(Len(vk.phases)))
  BY UnreadIsList
<1>3. Has(PermutationProducts, s) \/ Has(LookupProducts, s) \/ Has(Shuffles, s) => Has(ProductSlots, s)
  <2>1. List(PermutationProducts \o LookupProducts)
    BY <1>1, ListConcat
  <2>2. Has(PermutationProducts, s) \/ Has(LookupProducts, s) => Has(PermutationProducts \o LookupProducts, s)
    BY <1>1, HasConcat
  <2> QED BY <1>1, <2>1, <2>2, HasConcat DEF ProductSlots
<1>4. Has(VanishingCommit, s) \/ Has(VanishingConstruct, s) => Has(VanishingSlots, s)
  <2>1. PICK y, x : y = <<Sq("y", 0)>> /\ x = <<Sq("x", 0)>> /\ List(y) /\ List(x)
    BY OneItem
  <2>2. List(VanishingCommit \o y) /\ (Has(VanishingCommit, s) => Has(VanishingCommit \o y, s))
    BY <1>1, <2>1, ListConcat, HasConcat
  <2>3. /\ List((VanishingCommit \o y) \o VanishingConstruct)
        /\ Has(VanishingCommit, s) \/ Has(VanishingConstruct, s) => Has((VanishingCommit \o y) \o VanishingConstruct, s)
    BY <1>1, <2>2, ListConcat, HasConcat
  <2>4. Has(VanishingCommit, s) \/ Has(VanishingConstruct, s) => Has(((VanishingCommit \o y) \o VanishingConstruct) \o x, s)
    BY <2>1, <2>3, HasConcat
  <2> QED BY <2>1, <2>4 DEF VanishingSlots
<1>5. Has(AdviceEvals, s) \/ Has(FixedEvals, s) \/ Has(VanishingEvaluate, s) \/ Has(SigmaEvaluate, s) => Has(EvalSlots, s)
  <2>1. /\ List(AdviceEvals \o FixedEvals)
        /\ Has(AdviceEvals, s) \/ Has(FixedEvals, s) => Has(AdviceEvals \o FixedEvals, s)
    BY <1>1, ListConcat, HasConcat
  <2>2. /\ List((AdviceEvals \o FixedEvals) \o VanishingEvaluate)
        /\ Has(AdviceEvals \o FixedEvals, s) \/ Has(VanishingEvaluate, s)
              => Has((AdviceEvals \o FixedEvals) \o VanishingEvaluate, s)
    BY <1>1, <2>1, ListConcat, HasConcat
  <2> QED BY <1>1, <2>1, <2>2, HasConcat DEF EvalSlots
<1>6. Has(PermutationEvals, s) \/ Has(LookupEvals, s) \/ Has(ShuffleEvals, s) => Has(ArgumentSlots, s)
  <2>1. /\ List(PermutationEvals \o LookupEvals)
        /\ Has(PermutationEvals, s) \/ Has(LookupEvals, s) => Has(PermutationEvals \o LookupEvals, s)
    BY <1>1, ListConcat, HasConcat
  <2> QED BY <1>1, <2>1, HasConcat DEF ArgumentSlots
<1>7. Has(ArgumentSlots, s) => Has(FromArguments, s)
  BY <1>2, HasConcat DEF FromArguments
<1>8. Has(EvalSlots, s) \/ Has(FromArguments, s) => Has(FromEvals, s)
  BY <1>2, HasConcat DEF FromEvals
<1>9. Has(VanishingSlots, s) \/ Has(FromEvals, s) => Has(FromRandom, s)
  BY <1>2, HasConcat DEF FromRandom
<1>10. Has(ProductSlots, s) \/ Has(FromRandom, s) => Has(FromProducts, s)
  BY <1>2, HasConcat DEF FromProducts
<1>11. Has(Lookups, s) \/ Has(FromProducts, s) => Has(FromLookups, s)
  BY <1>1, <1>2, HasConcat DEF FromLookups
<1>12. Has(Begun(Len(vk.phases)), s) \/ Has(FromLookups, s) => Has(FromPhases, s)
  BY <1>2, HasConcat DEF FromPhases
<1>13. List(Greeting(0))
  BY GreetingOf
<1>14. Has(FromPhases, s) => Has(Whole, s)
  BY <1>2, <1>13, HasConcat DEF Whole
<1> QED BY <1>3, <1>4, <1>5, <1>6, <1>7, <1>8, <1>9, <1>10, <1>11, <1>12, <1>14 DEF InPart

-----------------------------------------------------------------------------
LEMMA ColumnsAsked ==
  ASSUME input \in Inputs, NEW i, i \in Proofs, NEW col, col \in DOMAIN c.adv PROVE InPart(Pt("advice", i, col))
<1>1. PICK top \in Nat : vk.phases = [k \in 1 .. top + 1 |-> k - 1] /\ \A k \in DOMAIN c.adv : c.adv[k] <= top
  BY TheKey
<1>2. PICK p, n : p = c.adv[col] + 1 /\ n = Len(vk.phases)
  OBVIOUS
<1>3. c.adv[col] \in Nat /\ c.adv[col] <= top
  BY <1>1, TheLists
<1>4. n = top + 1 /\ p \in 1 .. n /\ vk.phases[p] = c.adv[col]
  BY <1>1, <1>2, <1>3
<1>5. PICK cols, s : cols = ColumnsOf(c, vk.phases[p]) /\ s = Pt("advice", i, col)
  OBVIOUS
<1>6. \E k \in 1 .. Len(cols) : cols[k] = col
  <2>1. c.adv \in Seq(0 .. 255)
    BY TheCircuit, CircuitsAssumption
  <2>2. col \in 1 .. Len(c.adv)
    BY <2>1
  <2>3. cols = IndicesOf(c.adv, vk.phases[p])
    BY <1>5 DEF ColumnsOf
  <2> QED BY <1>4, <2>1, <2>2, <2>3, IndicesIs
<1>7. Has(ColumnSlots(p, i), s)
  <2>1. PICK l : l = Len(cols)
    OBVIOUS
  <2>2. Len(ColumnSlots(p, i)) = l /\ \A k \in 1 .. l : ColumnSlots(p, i)[k] = Pt("advice", i, cols[k])
    BY <1>5, <2>1, ColumnSlotsIs
  <2> QED BY <1>5, <1>6, <2>1, <2>2 DEF Has
<1>8. PICK fs : fs = [j \in Proofs |-> ColumnSlots(p, j)]
  OBVIOUS
<1>9. Has(FlattenSeq(fs), s)
  <2>1. \A j \in Proofs : List(fs[j])
    BY <1>8, ColumnSlotsIs
  <2>2. fs = [j \in Proofs |-> fs[j]] /\ Has(fs[i], s)
    BY <1>7, <1>8
  <2> QED BY <2>1, <2>2, HasPerCircuit
<1>10. Has(PhaseSlots(p), s)
  <2>1. Has(AllColumns(p), s)
    BY <1>8, <1>9 DEF AllColumns
  <2>2. PhaseSlots(p) = AllColumns(p) \o ChallengeSlots(p) /\ List(AllColumns(p)) /\ List(ChallengeSlots(p))
    BY PhaseSlotsIs
  <2> QED BY <2>1, <2>2, HasConcat
<1>11. PICK all : all = AllPhases
  OBVIOUS
<1>12. /\ n \in Nat /\ all = [k \in 1 .. n |-> all[k]]
       /\ \A k \in 1 .. n : all[k] = PhaseSlots(k) /\ List(all[k])
       /\ Begun(n) = FlattenSeq(all)
  BY <1>2, <1>11, AllPhasesIs
<1>13. Has(FlattenSeq(all), s)
  <2>1. Has(all[p], s)
    BY <1>4, <1>10, <1>12
  <2> QED BY <1>4, <1>12, <2>1, HasFlatten
<1> QED BY <1>2, <1>5, <1>12, <1>13 DEF InPart

-----------------------------------------------------------------------------
LEMMA PermutationsAsked ==
  ASSUME input \in Inputs, NEW i, i \in Proofs, NEW s, s \in 1 .. vk.sets
  PROVE  /\ InPart(Pt("permutation", i, s))
         /\ InPart(Sc("permutation", i, s, 0)) /\ InPart(Sc("permutation", i, s, 1))
         /\ s < vk.sets => InPart(Sc("permutation", i, s, LastRow))
<1>1. PICK n \in Nat : n = vk.sets
  BY TheKey
<1>2. InPart(Pt("permutation", i, s))
  <2>1. PICK fs, e : fs = [k \in Proofs |-> [l \in 1 .. n |-> Pt("permutation", k, l)]] /\ e = Pt("permutation", i, s)
    OBVIOUS
  <2>2. \A k \in Proofs : List(fs[k]) /\ fs[k] = PermutationCommit(k)
    <3>1. ASSUME NEW k \in Proofs PROVE List(fs[k]) /\ fs[k] = PermutationCommit(k)
      <4>1. PICK g : g = fs[k]
        OBVIOUS
      <4>2. g = [l \in 1 .. n |-> Pt("permutation", k, l)]
        BY <2>1, <4>1
      <4>3. g = [l \in 1 .. n |-> g[l]]
        BY <4>2
      <4> QED BY <1>1, <4>1, <4>2, <4>3, ListOf DEF PermutationCommit
    <3> QED BY <3>1
  <2>3. Has(fs[i], e)
    <3>1. fs[i] = [l \in 1 .. n |-> fs[i][l]] /\ fs[i][s] = e
      BY <1>1, <2>1
    <3> QED BY <1>1, <3>1, HasOf
  <2>4. Has(FlattenSeq(fs), e)
    <3>1. fs = [k \in Proofs |-> fs[k]]
      BY <2>1
    <3> QED BY <2>2, <2>3, <3>1, HasPerCircuit
  <2>5. FlattenSeq(fs) = ForEachCircuit(PermutationCommit)
    BY <1>1, <2>1 DEF ForEachCircuit, ForEach, PermutationCommit
  <2>6. PICK g, h : g = <<Sq("beta", 0), Sq("gamma", 0)>> /\ h = FlattenSeq(fs)
    OBVIOUS
  <2>7. List(g) /\ List(h)
    <3>1. Clean(h)
      BY <2>5, <2>6, CommitsClean
    <3> QED BY <2>6, <3>1, TwoItems DEF Clean
  <2>8. Has(g \o h, e)
    BY <2>4, <2>6, <2>7, HasConcat
  <2> QED BY <2>1, <2>5, <2>6, <2>8 DEF PermutationProducts, InPart
<1> DEFINE h(k, l) == <<Sc("permutation", k, l, 0), Sc("permutation", k, l, 1)>>
           t(k, l) == IF l < n THEN <<Sc("permutation", k, l, LastRow)>> ELSE << >>
<1>3. ASSUME NEW k, NEW l PROVE List(h(k, l)) /\ List(t(k, l)) /\ List(h(k, l) \o t(k, l))
  <2>1. List(h(k, l))
    BY TwoItems
  <2>2. List(t(k, l))
    BY OneItem, NoItems
  <2> QED BY <2>1, <2>2, ListConcat
<1>4. PICK args : args = [k \in Proofs |-> [l \in 1 .. n |-> h(k, l) \o t(k, l)]]
  OBVIOUS
<1>5. PICK fs : fs = [k \in Proofs |-> FlattenSeq(args[k])]
  OBVIOUS
<1>6. PermutationEvals = FlattenSeq(fs)
  BY <1>1, <1>4, <1>5 DEF PermutationEvals, PermutationEvaluate, ForEachCircuit, ForEach
<1>7. args[i][s] = h(i, s) \o t(i, s)
  BY <1>1, <1>4
<1>8. Has(h(i, s), Sc("permutation", i, s, 0)) /\ Has(h(i, s), Sc("permutation", i, s, 1))
  BY HasTwo
<1>9. s < n => Has(t(i, s), Sc("permutation", i, s, LastRow))
  <2>1. ASSUME NEW e PROVE Has(<<e>>, e)
    BY OneItem DEF Has
  <2> QED BY <2>1
<1> HIDE DEF h, t
<1>10. ASSUME NEW e, Has(h(i, s), e) \/ Has(t(i, s), e) PROVE InPart(e)
  <2>1. Has(args[i][s], e)
    BY <1>3, <1>7, <1>10, HasConcat
  <2>2. /\ \A k \in Proofs : args[k] = [l \in 1 .. n |-> args[k][l]]
        /\ \A k \in Proofs : \A l \in 1 .. n : List(args[k][l])
    BY <1>3, <1>4
  <2>3. s \in 1 .. n /\ n \in Nat
    BY <1>1
  <2>4. Has(FlattenSeq(fs), e)
    <3>1. PerArgument(args, fs, n)
      BY <1>5, <2>2 DEF PerArgument
    <3> QED BY <2>1, <2>3, <3>1, HasPerArgument
  <2> QED BY <1>6, <2>4 DEF InPart
<1> QED BY <1>1, <1>2, <1>8, <1>9, <1>10

LEMMA LookupsAsked ==
  ASSUME input \in Inputs, NEW i, i \in Proofs, NEW l, l \in DOMAIN c.lookups
  PROVE  /\ InPart(Pt("lookup input", i, l)) /\ InPart(Pt("lookup table", i, l))
         /\ InPart(Pt("lookup product", i, l))
         /\ InPart(Sc("lookup product", i, l, 0)) /\ InPart(Sc("lookup product", i, l, 1))
         /\ InPart(Sc("lookup input", i, l, 0)) /\ InPart(Sc("lookup input", i, l, Point(-1)))
         /\ InPart(Sc("lookup table", i, l, 0))
<1>1. PICK n \in Nat : DOMAIN c.lookups = 1 .. n
  BY TheLists
<1>2. InPart(Pt("lookup input", i, l)) /\ InPart(Pt("lookup table", i, l))
  <2>1. PICK args, fs : /\ args = [k \in Proofs |-> [m \in 1 .. n |-> LookupCommitPermuted(k, m)]]
                        /\ fs = [k \in Proofs |-> FlattenSeq(args[k])]
    OBVIOUS
  <2>2. /\ \A k \in Proofs : args[k] = [m \in 1 .. n |-> args[k][m]]
        /\ \A k \in Proofs : \A m \in 1 .. n : List(args[k][m])
    <3>1. \A k, m : List(LookupCommitPermuted(k, m))
      BY TwoItems DEF LookupCommitPermuted
    <3> QED BY <2>1, <3>1
  <2>3. FlattenSeq(fs) = ForEachCircuit(LAMBDA k : ForEach(DOMAIN c.lookups, LAMBDA m : LookupCommitPermuted(k, m)))
    BY <1>1, <2>1 DEF ForEachCircuit, ForEach
  <2>4. PICK g, h : g = <<Sq("theta", 0)>> /\ h = FlattenSeq(fs)
    OBVIOUS
  <2>5. List(g) /\ List(h) /\ Lookups = g \o h
    <3>1. Clean(h)
      BY <2>3, <2>4, CommitsClean
    <3> QED BY <2>3, <2>4, <3>1, OneItem DEF Clean, Lookups
  <2>6. ASSUME NEW e, Has(LookupCommitPermuted(i, l), e) PROVE InPart(e)
    <3>1. Has(args[i][l], e)
      BY <1>1, <2>1, <2>6
    <3>2. Has(h, e)
      <4>1. PerArgument(args, fs, n)
        BY <2>1, <2>2 DEF PerArgument
      <4> QED BY <1>1, <2>4, <3>1, <4>1, HasPerArgument
    <3>3. Has(Lookups, e)
      BY <2>5, <3>2, HasConcat
    <3> QED BY <3>3 DEF InPart
  <2> QED BY <2>6, HasTwo DEF LookupCommitPermuted
<1>3. InPart(Pt("lookup product", i, l))
  <2>1. PICK fs : fs = [k \in Proofs |-> [m \in 1 .. n |-> LookupCommitProduct(k, m)]]
    OBVIOUS
  <2>2. ASSUME NEW k \in Proofs PROVE List(fs[k])
    <3>1. PICK g : g = fs[k]
      OBVIOUS
    <3>2. g = [m \in 1 .. n |-> g[m]]
      BY <2>1, <3>1
    <3> QED BY <3>1, <3>2, ListOf
  <2>3. Has(fs[i], LookupCommitProduct(i, l))
    <3>1. fs[i] = [m \in 1 .. n |-> fs[i][m]] /\ fs[i][l] = LookupCommitProduct(i, l)
      BY <1>1, <2>1
    <3> QED BY <1>1, <3>1, HasOf
  <2>4. LookupProducts = FlattenSeq(fs)
    BY <1>1, <2>1 DEF LookupProducts, ForEachCircuit, ForEach
  <2>5. fs = [k \in Proofs |-> fs[k]]
    BY <2>1
  <2>6. Has(LookupProducts, LookupCommitProduct(i, l))
    BY <2>2, <2>3, <2>4, <2>5, HasPerCircuit
  <2> QED BY <2>6 DEF InPart, LookupCommitProduct
<1>4. ASSUME NEW e, Has(LookupEvaluate(i, l), e) PROVE InPart(e)
  <2>1. PICK args, fs : /\ args = [k \in Proofs |-> [m \in 1 .. n |-> LookupEvaluate(k, m)]]
                        /\ fs = [k \in Proofs |-> FlattenSeq(args[k])]
    OBVIOUS
  <2>2. /\ \A k \in Proofs : args[k] = [m \in 1 .. n |-> args[k][m]]
        /\ \A k \in Proofs : \A m \in 1 .. n : List(args[k][m])
    <3>1. \A k, m : List(LookupEvaluate(k, m))
      BY FiveItems DEF LookupEvaluate
    <3> QED BY <2>1, <3>1
  <2>3. FlattenSeq(fs) = LookupEvals
    BY <1>1, <2>1 DEF LookupEvals, ForEachCircuit, ForEach
  <2>4. Has(args[i][l], e)
    BY <1>1, <1>4, <2>1
  <2>5. Has(FlattenSeq(fs), e)
    <3>1. PerArgument(args, fs, n)
      BY <2>1, <2>2 DEF PerArgument
    <3> QED BY <1>1, <2>4, <3>1, HasPerArgument
  <2> QED BY <2>3, <2>5 DEF InPart
<1>5. PICK t, v, w, x, y, z :
        /\ v = Sc("lookup product", i, l, 0) /\ w = Sc("lookup product", i, l, 1)
        /\ x = Sc("lookup input", i, l, 0) /\ y = Sc("lookup input", i, l, Point(-1))
        /\ z = Sc("lookup table", i, l, 0) /\ t = LookupEvaluate(i, l)
  OBVIOUS
<1>6. t = <<v, w, x, y, z>>
  BY <1>5 DEF LookupEvaluate
<1>7. Has(t, v) /\ Has(t, w) /\ Has(t, x) /\ Has(t, y) /\ Has(t, z)
  BY <1>6, HasFive
<1>8. InPart(v) /\ InPart(w) /\ InPart(x) /\ InPart(y) /\ InPart(z)
  BY <1>4, <1>5, <1>7
<1> QED BY <1>2, <1>3, <1>5, <1>8

-----------------------------------------------------------------------------
LEMMA ShufflesAsked ==
  ASSUME input \in Inputs, NEW i, i \in Proofs, NEW s, s \in DOMAIN c.shuffles
  PROVE  /\ InPart(Pt("shuffle", i, s))
         /\ InPart(Sc("shuffle", i, s, 0)) /\ InPart(Sc("shuffle", i, s, 1))
<1>1. PICK n \in Nat : DOMAIN c.shuffles = 1 .. n
  BY TheLists
<1>2. InPart(Pt("shuffle", i, s))
  <2>1. PICK fs : fs = [k \in Proofs |-> [m \in 1 .. n |-> ShuffleCommitProduct(k, m)]]
    OBVIOUS
  <2>2. ASSUME NEW k \in Proofs PROVE List(fs[k])
    <3>1. PICK g : g = fs[k]
      OBVIOUS
    <3>2. g = [m \in 1 .. n |-> g[m]]
      BY <2>1, <3>1
    <3> QED BY <3>1, <3>2, ListOf
  <2>3. Has(fs[i], ShuffleCommitProduct(i, s))
    <3>1. fs[i] = [m \in 1 .. n |-> fs[i][m]] /\ fs[i][s] = ShuffleCommitProduct(i, s)
      BY <1>1, <2>1
    <3> QED BY <1>1, <3>1, HasOf
  <2>4. Shuffles = FlattenSeq(fs)
    BY <1>1, <2>1 DEF Shuffles, ForEachCircuit, ForEach
  <2>5. fs = [k \in Proofs |-> fs[k]]
    BY <2>1
  <2>6. Has(Shuffles, ShuffleCommitProduct(i, s))
    BY <2>2, <2>3, <2>4, <2>5, HasPerCircuit
  <2> QED BY <2>6 DEF InPart, ShuffleCommitProduct
<1>3. ASSUME NEW e, Has(ShuffleEvaluate(i, s), e) PROVE InPart(e)
  <2>1. PICK args, fs : /\ args = [k \in Proofs |-> [m \in 1 .. n |-> ShuffleEvaluate(k, m)]]
                        /\ fs = [k \in Proofs |-> FlattenSeq(args[k])]
    OBVIOUS
  <2>2. /\ \A k \in Proofs : args[k] = [m \in 1 .. n |-> args[k][m]]
        /\ \A k \in Proofs : \A m \in 1 .. n : List(args[k][m])
    <3>1. \A k, m : List(ShuffleEvaluate(k, m))
      BY TwoItems DEF ShuffleEvaluate
    <3> QED BY <2>1, <3>1
  <2>3. FlattenSeq(fs) = ShuffleEvals
    BY <1>1, <2>1 DEF ShuffleEvals, ForEachCircuit, ForEach
  <2>4. Has(args[i][s], e)
    BY <1>1, <1>3, <2>1
  <2>5. Has(FlattenSeq(fs), e)
    <3>1. PerArgument(args, fs, n)
      BY <2>1, <2>2 DEF PerArgument
    <3> QED BY <1>1, <2>4, <3>1, HasPerArgument
  <2> QED BY <2>3, <2>5 DEF InPart
<1>4. Has(ShuffleEvaluate(i, s), Sc("shuffle", i, s, 0)) /\ Has(ShuffleEvaluate(i, s), Sc("shuffle", i, s, 1))
  BY HasTwo DEF ShuffleEvaluate
<1> QED BY <1>2, <1>3, <1>4

LEMMA VanishingAsked ==
  ASSUME input \in Inputs
  PROVE  /\ InPart(Pt("random", 0, 0)) /\ InPart(Sc("random", 0, 0, 0))
         /\ \A p \in 1 .. vk.pieces : InPart(Pt("h", 0, p))
<1>1. ASSUME NEW e PROVE Has(<<e>>, e)
  BY OneItem DEF Has
<1>2. Has(VanishingCommit, Pt("random", 0, 0)) /\ Has(VanishingEvaluate, Sc("random", 0, 0, 0))
  BY <1>1 DEF VanishingCommit, VanishingEvaluate
<1>3. ASSUME NEW p \in 1 .. vk.pieces PROVE Has(VanishingConstruct, Pt("h", 0, p))
  <2>1. PICK f : f = VanishingConstruct
    OBVIOUS
  <2>2. vk.pieces \in Nat
    BY TheKey
  <2>3. f = [k \in 1 .. vk.pieces |-> f[k]] /\ f[p] = Pt("h", 0, p)
    BY <2>1 DEF VanishingConstruct
  <2> QED BY <2>1, <2>2, <2>3, HasOf
<1> QED BY <1>2, <1>3 DEF InPart

LEMMA EvalsAsked ==
  ASSUME input \in Inputs, NEW i, i \in Proofs
  PROVE  LET qs == vk.queries["advice"] IN
           \A k \in DOMAIN qs : InPart(Sc("advice", i, qs[k][2], Point(qs[k][3])))
<1>1. PICK qs : qs = vk.queries["advice"]
  OBVIOUS
<1>2. PICK n : n \in Nat /\ DOMAIN qs = 1 .. n
  BY <1>1, TheKey, ListDomain
<1>3. PICK fs : fs = [j \in Proofs |-> [k \in 1 .. n |-> Sc("advice", j, qs[k][2], Point(qs[k][3]))]]
  OBVIOUS
<1>4. AdviceEvals = FlattenSeq(fs)
  BY <1>1, <1>2, <1>3 DEF AdviceEvals, ForEachCircuit, ForEach
<1>5. ASSUME NEW j \in Proofs PROVE List(fs[j])
  <2>1. PICK g : g = fs[j]
    OBVIOUS
  <2>2. g = [k \in 1 .. n |-> g[k]]
    BY <1>3, <2>1
  <2> QED BY <1>2, <2>1, <2>2, ListOf
<1>6. fs = [j \in Proofs |-> fs[j]]
  BY <1>3
<1>7. ASSUME NEW k \in 1 .. n PROVE InPart(Sc("advice", i, qs[k][2], Point(qs[k][3])))
  <2>1. PICK e, g : e = Sc("advice", i, qs[k][2], Point(qs[k][3])) /\ g = fs[i]
    OBVIOUS
  <2>2. g = [l \in 1 .. n |-> g[l]] /\ g[k] = e
    BY <1>3, <2>1
  <2>3. Has(g, e)
    BY <1>2, <2>2, HasOf
  <2>4. Has(FlattenSeq(fs), e)
    BY <1>5, <1>6, <2>1, <2>3, HasPerCircuit
  <2> QED BY <1>4, <2>1, <2>4 DEF InPart
<1> QED BY <1>1, <1>2, <1>7

LEMMA KeyAsked ==
  ASSUME input \in Inputs
  PROVE  /\ LET qs == vk.queries["fixed"] IN
              \A k \in DOMAIN qs : InPart(Sc("fixed", 0, qs[k][2], Point(qs[k][3])))
         /\ \A k \in DOMAIN c.perm : InPart(Sc("sigma", 0, k, 0))
<1>1. PICK qs : qs = vk.queries["fixed"]
  OBVIOUS
<1>2. PICK n : n \in Nat /\ DOMAIN qs = 1 .. n
  BY <1>1, TheKey, ListDomain
<1>3. ASSUME NEW k \in 1 .. n PROVE InPart(Sc("fixed", 0, qs[k][2], Point(qs[k][3])))
  <2>1. PICK f : f = FixedEvals
    OBVIOUS
  <2>2. f = [l \in 1 .. n |-> f[l]] /\ f[k] = Sc("fixed", 0, qs[k][2], Point(qs[k][3]))
    BY <1>1, <1>2, <2>1 DEF FixedEvals
  <2>3. Has(f, f[k])
    BY <1>2, <2>2, HasOf
  <2> QED BY <2>1, <2>2, <2>3 DEF InPart
<1>4. ASSUME NEW k \in DOMAIN c.perm PROVE InPart(Sc("sigma", 0, k, 0))
  <2>1. PICK f : f = SigmaEvaluate
    OBVIOUS
  <2>2. PICK m : m \in Nat /\ DOMAIN c.perm = 1 .. m
    BY TheLists
  <2>3. f = [l \in 1 .. m |-> f[l]] /\ f[k] = Sc("sigma", 0, k, 0) /\ k \in 1 .. m
    BY <2>1, <2>2 DEF SigmaEvaluate
  <2>4. Has(f, f[k])
    BY <2>2, <2>3, HasOf
  <2> QED BY <2>1, <2>3, <2>4 DEF InPart
<1> QED BY <1>1, <1>2, <1>3, <1>4

-----------------------------------------------------------------------------
(* There are at least the blinding rows, so rows 0 and 1 are two rows. *)
LEMMA BlindingIs == ASSUME NEW circ, circ \in Circuits PROVE BlindingFactors(circ) \in Nat
<1> DEFINE qs == Queries(circ, "advice")
           f == [col \in DOMAIN circ.adv |-> Cardinality({k \in DOMAIN qs : qs[k][2] = col})]
           S == {3} \cup {f[col] : col \in DOMAIN circ.adv}
<1>1. BlindingFactors(circ) = Max(S) + 2
  BY DEF BlindingFactors, NumAdviceQueries
<1>2. PICK n : n \in Nat /\ DOMAIN circ.adv = 1 .. n
  <2>1. PICK adv : adv = circ.adv /\ adv \in Seq(0 .. 255)
    BY CircuitsAssumption
  <2> QED BY <2>1, SeqIs
<1>3. PICK m : m \in Nat /\ DOMAIN qs = 1 .. m
  BY QueriesIs, ListDomain
<1>4. ASSUME NEW col \in 1 .. n PROVE f[col] \in Nat
  <2>1. PICK A : A = {k \in DOMAIN qs : qs[k][2] = col}
    OBVIOUS
  <2>2. IsFiniteSet(1 .. m) /\ A \in SUBSET (1 .. m)
    <3>1. 1 \in Int /\ m \in Int /\ A \subseteq 1 .. m
      BY <1>3, <2>1
    <3> QED BY <3>1, FS_Interval
  <2>3. IsFiniteSet(A)
    BY <2>2, FS_Subset
  <2>4. Cardinality(A) \in Nat
    BY <2>3, FS_CardinalityType
  <2> QED BY <1>2, <2>1, <2>4
<1> HIDE DEF f
<1>5. PICK b \in Nat : \A i \in 1 .. n : f[i] <= b
  BY <1>2, <1>4, BoundExists
<1>6. S \subseteq Nat /\ 3 \in S
  BY <1>2, <1>4
<1>7. b + 3 \in Nat /\ \A y \in S : y <= b + 3
  BY <1>2, <1>4, <1>5
<1> HIDE DEF S
<1>8. Max(S) \in Nat
  BY <1>6, <1>7, MaxIs
<1> QED BY <1>1, <1>8

LEMMA FirstRows == ASSUME input \in Inputs PROVE Point(0) = 0 /\ Point(1) = 1
<1>1. c \in Circuits /\ input.rows \in RowCounts /\ input.rows >= MinimumRows(c)
  BY DEF Inputs, c
<1>2. PICK b \in Nat : b = BlindingFactors(c)
  BY <1>1, BlindingIs
<1>3. PICK r \in Nat : r = input.rows
  BY <1>1, RowsAssumption
<1>4. r >= b + 1 + 1 + 1
  BY <1>1, <1>2, <1>3 DEF MinimumRows
<1>5. 0 % r = 0 /\ 1 % r = 1
  BY <1>4
<1> QED BY <1>3, <1>5 DEF Point

-----------------------------------------------------------------------------
(* The verifier of an honest session has at its last step the prover's     *)
(* transcript and, from the opening on, everything that was asked for      *)
(* before it.                                                              *)
Supplied == \A s : Received(s) /\ InPart(s) /\ s.of # "quotient" => got[s] = Exactly(s)

LEMMA SameTranscript ==
  ASSUME VerifierInv, Hears, Honest, vpc = "check" PROVE tv = tp
<1>1. PICK rest : List(rest) /\ tp = tv \o rest /\ Fits(rest, << >>)
  <2>1. Ahead("check")
    BY DEF Hears
  <2> QED BY <2>1, UnreadIs DEF Ahead, Reading
<1>2. Len(rest) = 0
  BY <1>1, NoItems DEF Fits
<1>3. PICK e : e = << >>
  OBVIOUS
<1>4. rest = [k \in 1 .. 0 |-> rest[k]]
  BY <1>1, <1>2 DEF List
<1>5. rest = << >>
  BY <1>4
<1>6. List(tv)
  BY DEF VerifierInv
<1> QED BY <1>1, <1>5, <1>6, ConcatNone

(* Of what is read from the opening on, only quotients are received. *)
OpeningItems(t) == List(t) /\ \A k \in 1 .. Len(t) : Received(t[k]) => t[k].of = "quotient"

LEMMA OpeningItemsOf ==
  ASSUME NEW n, n \in Nat, NEW f, f = [k \in 1 .. n |-> f[k]],
         \A k \in 1 .. n : Received(f[k]) => f[k].of = "quotient"
  PROVE  OpeningItems(f)
BY ListOf DEF OpeningItems

LEMMA OpeningItemsConcat ==
  ASSUME NEW f, NEW g, OpeningItems(f), OpeningItems(g) PROVE OpeningItems(f \o g)
<1>1. PICK h : h = f \o g
  OBVIOUS
<1>2. PICK m, n : m = Len(f) /\ n = Len(g)
  OBVIOUS
<1>3. Join(h, f, m, g, n)
  BY <1>1, <1>2, Joins DEF OpeningItems
<1>4. m \in Nat /\ n \in Nat /\ List(h) /\ Len(h) = m + n
  BY <1>3 DEF Join
<1>5. ASSUME NEW k \in 1 .. m + n, Received(h[k]) PROVE h[k].of = "quotient"
  <2>1. CASE k \in 1 .. m
    <3>1. h[k] = f[k]
      BY <1>3, <2>1 DEF Join
    <3> QED BY <1>2, <1>5, <2>1, <3>1 DEF OpeningItems
  <2>2. CASE k \notin 1 .. m
    <3>1. PICK j : j = k - m
      OBVIOUS
    <3>2. j \in 1 .. n /\ k = m + j
      BY <1>4, <2>2, <3>1
    <3>3. h[k] = g[j]
      BY <1>3, <3>2 DEF Join
    <3> QED BY <1>2, <1>5, <3>2, <3>3 DEF OpeningItems
  <2> QED BY <2>1, <2>2
<1> QED BY <1>1, <1>4, <1>5 DEF OpeningItems

LEMMA QuotientsOnly ==
  ASSUME input \in Inputs PROVE OpeningItems(OpeningSlots)
<1>1. /\ \A of, j : ~Received(Sq(of, j))
      /\ \A j : Pt("quotient", 0, j).of = "quotient"
  BY DEF Sq, Pt, Element, Received
<1>2. OpeningItems(ProveShplonk)
  <2>1. PICK n \in Nat : n = 5
    OBVIOUS
  <2>2. PICK t : t = ProveShplonk
    OBVIOUS
  <2>3. t = [k \in 1 .. n |-> t[k]]
    BY <2>1, <2>2 DEF ProveShplonk
  <2>4. /\ t[1] = Sq("y", 1) /\ t[2] = Sq("v", 1) /\ t[3] = Pt("quotient", 0, 1)
        /\ t[4] = Sq("u", 1) /\ t[5] = Pt("quotient", 0, 2)
    BY <2>2 DEF ProveShplonk
  <2>5. ASSUME NEW k \in 1 .. n PROVE Received(t[k]) => t[k].of = "quotient"
    <3>1. k = 1 \/ k = 2 \/ k = 3 \/ k = 4 \/ k = 5
      BY <2>1
    <3> QED BY <1>1, <2>4, <3>1
  <2>6. OpeningItems(t)
    BY <2>3, <2>5, OpeningItemsOf
  <2> QED BY <2>2, <2>6
<1>3. OpeningItems(ProveGwc(ProverQueries))
  <2>1. PICK m \in Nat :
          ProveGwc(ProverQueries) = <<Sq("v", 1)>> \o [k \in 1 .. m |-> Pt("quotient", 0, k)]
    BY ProverQueriesList, GwcIs
  <2>2. PICK f : f = [k \in 1 .. m |-> Pt("quotient", 0, k)]
    OBVIOUS
  <2>3. OpeningItems(f)
    <3>1. f = [k \in 1 .. m |-> f[k]] /\ \A k \in 1 .. m : f[k] = Pt("quotient", 0, k)
      BY <2>2
    <3>2. \A k \in 1 .. m : f[k].of = "quotient"
      BY <1>1, <3>1
    <3> QED BY <3>1, <3>2, OpeningItemsOf
  <2>4. PICK e : e = <<Sq("v", 1)>>
    OBVIOUS
  <2>5. OpeningItems(e)
    <3>1. PICK n \in Nat : n = 1
      OBVIOUS
    <3>2. e = [k \in 1 .. n |-> e[k]] /\ \A k \in 1 .. n : e[k] = Sq("v", 1)
      BY <2>4, <3>1
    <3>3. \A k \in 1 .. n : ~Received(e[k])
      BY <1>1, <3>2
    <3> QED BY <3>2, <3>3, OpeningItemsOf
  <2>6. OpeningItems(e \o f)
    BY <2>3, <2>5, OpeningItemsConcat
  <2> QED BY <2>1, <2>2, <2>4, <2>6
<1> QED BY <1>2, <1>3 DEF OpeningSlots

(* What of the prover's transcript is not yet read. *)
Ends(rest) == tp = tv \o rest /\ OpeningItems(rest)

LEMMA TranscriptEnds ==
  ASSUME input \in Inputs, Hears, Honest, vpc \in {"open", "check"} PROVE \E rest : Ends(rest)
<1>1. PICK at : at = vpc
  OBVIOUS
<1>2. at \in Reading
  BY <1>1 DEF Reading
<1>3. Ahead(at)
  BY <1>1 DEF Hears
<1>4. PICK rest : List(rest) /\ tp = tv \o rest /\ Fits(rest, Unread(at))
  BY <1>2, <1>3 DEF Ahead
<1>5. PICK s : s = Unread(at)
  OBVIOUS
<1>6. OpeningItems(s)
  <2>1. CASE at = "open"
    BY <1>5, <2>1, QuotientsOnly, UnreadIs
  <2>2. CASE at = "check"
    <3>1. OpeningItems(<< >>)
      BY NoItems DEF OpeningItems
    <3>2. s = << >>
      BY <1>5, <2>2, UnreadIs
    <3> QED BY <3>1, <3>2
  <2> QED BY <1>1, <2>1, <2>2
<1>7. ASSUME NEW k \in 1 .. Len(rest), Received(rest[k]) PROVE rest[k].of = "quotient"
  <2>1. k \in 1 .. Len(s) /\ MeantFor(rest[k], s[k])
    BY <1>4, <1>5 DEF Fits
  <2>2. PICK e, d : e = rest[k] /\ d = s[k]
    OBVIOUS
  <2>3. Received(d) => d.of = "quotient"
    BY <1>6, <2>1, <2>2 DEF OpeningItems
  <2>4. MeantFor(e, d) /\ Received(e)
    BY <1>7, <2>1, <2>2
  <2>5. CASE Received(d)
    <3>1. Meant(d, e)
      BY <2>4, <2>5 DEF MeantFor
    <3>2. [e EXCEPT !.v = 0].of = e.of
      OBVIOUS
    <3> QED BY <2>2, <2>3, <2>5, <3>1, <3>2 DEF Meant
  <2>6. CASE ~Received(d)
    BY <2>2, <2>4, <2>6 DEF MeantFor
  <2> QED BY <2>5, <2>6
<1> QED BY <1>4, <1>7 DEF Ends, OpeningItems

LEMMA AllSupplied ==
  ASSUME ProverInv, VerifierInv, Following, Hears, Recorded, Ready, Honest, vpc \in {"open", "check"}
  PROVE  Supplied
<1>1. input \in Inputs /\ pc = "proved" /\ ~torn /\ List(tv)
  BY DEF ProverInv, ProverTypes, VerifierInv, Hears, Honest
<1>2. Fits(tp, Whole) /\ Recent(tp, advices)
  BY <1>1, ProvedIsWhole DEF Recorded
<1>3. (\A s \in DOMAIN got : got[s] = Exactly(s)) /\ Filed(tv)
  BY DEF Ready
<1>4. PICK rest : Ends(rest)
  BY <1>1, TranscriptEnds
<1>5. PICK t, m, n : t = tp /\ m = Len(tv) /\ n = Len(rest)
  OBVIOUS
<1>6. Join(t, tv, m, rest, n)
  BY <1>1, <1>4, <1>5, Joins DEF Ends, OpeningItems
<1>7. m \in Nat /\ n \in Nat /\ Len(t) = m + n
  BY <1>6 DEF Join
<1>8. ASSUME NEW s, Received(s), InPart(s), s.of # "quotient" PROVE got[s] = Exactly(s)
  <2>1. PICK k \in 1 .. Len(Whole) : Whole[k] = s
    BY <1>1, <1>8, WholeHas DEF Has
  <2>2. PICK e : e = t[k]
    OBVIOUS
  <2>3. k \in 1 .. m + n /\ MeantFor(e, s)
    BY <1>2, <1>5, <1>7, <2>1, <2>2 DEF Fits
  <2>4. Received(e) /\ Meant(s, e)
    BY <1>8, <2>3 DEF MeantFor, Received
  <2>5. Exact(advices, e)
    BY <1>2, <1>5, <1>7, <2>2, <2>3, <2>4 DEF Recent
  <2>6. s = Slot(e)
    BY <2>4, <2>5, MeantExactly
  <2>7. k \in 1 .. m
    <3>1. ASSUME k \notin 1 .. m PROVE FALSE
      <4>1. PICK j : j = k - m
        OBVIOUS
      <4>2. j \in 1 .. n /\ k = m + j
        BY <1>7, <2>3, <3>1, <4>1
      <4>3. e = rest[j]
        BY <1>6, <2>2, <4>2 DEF Join
      <4>4. e.of = "quotient"
        BY <1>4, <1>5, <2>4, <4>2, <4>3 DEF Ends, OpeningItems
      <4>5. [e EXCEPT !.v = 0].of = e.of
        OBVIOUS
      <4> QED BY <1>8, <2>4, <4>4, <4>5 DEF Meant
    <3> QED BY <3>1
  <2>8. e = tv[k]
    BY <1>6, <2>2, <2>7 DEF Join
  <2>9. s \in DOMAIN got
    BY <1>3, <1>5, <2>4, <2>6, <2>7, <2>8 DEF Filed
  <2> QED BY <1>3, <2>9
<1> QED BY <1>8 DEF Supplied

-----------------------------------------------------------------------------
(* A claim that holds, about the polynomial and the point of a query. *)
Answer(claim, query) == Opens(claim) /\ query = [of |-> claim.of, at |-> claim.at]

Answers(s, t) == List(s) /\ List(t) /\ Len(s) = Len(t) /\ \A k \in 1 .. Len(t) : Answer(s[k], t[k])

LEMMA AnswersConcat ==
  ASSUME NEW t, NEW s, NEW u, NEW r, Answers(t, s), Answers(u, r) PROVE Answers(t \o u, s \o r)
<1>1. PICK a, b : a = t \o u /\ b = s \o r
  OBVIOUS
<1>2. PICK m, n : m = Len(t) /\ n = Len(u)
  OBVIOUS
<1>3. List(t) /\ List(s) /\ List(u) /\ List(r) /\ Len(s) = m /\ Len(r) = n
  BY <1>2 DEF Answers
<1>4. Join(a, t, m, u, n)
  BY <1>1, <1>2, <1>3, Joins
<1>5. Join(b, s, m, r, n)
  BY <1>1, <1>3, Joins
<1>6. m \in Nat /\ n \in Nat /\ List(a) /\ List(b) /\ Len(a) = m + n /\ Len(b) = m + n
  BY <1>4, <1>5 DEF Join
<1>7. ASSUME NEW k \in 1 .. m + n PROVE Answer(a[k], b[k])
  <2>1. CASE k \in 1 .. m
    <3>1. a[k] = t[k] /\ b[k] = s[k]
      BY <1>4, <1>5, <2>1 DEF Join
    <3> QED BY <1>3, <2>1, <3>1 DEF Answers
  <2>2. CASE k \notin 1 .. m
    <3>1. PICK j : j = k - m
      OBVIOUS
    <3>2. j \in 1 .. n /\ k = m + j
      BY <1>6, <2>2, <3>1
    <3>3. a[k] = u[j] /\ b[k] = r[j]
      BY <1>4, <1>5, <3>2 DEF Join
    <3> QED BY <1>3, <3>2, <3>3 DEF Answers
  <2> QED BY <2>1, <2>2
<1> QED BY <1>1, <1>6, <1>7 DEF Answers

LEMMA AnswersFlatten ==
  ASSUME NEW n, n \in Nat, NEW fs, NEW gs, fs = [k \in 1 .. n |-> fs[k]], gs = [k \in 1 .. n |-> gs[k]],
         \A k \in 1 .. n : Answers(fs[k], gs[k])
  PROVE  Answers(FlattenSeq(fs), FlattenSeq(gs))
<1>1. PICK t, u : t = FlattenSeq(fs) /\ u = FlattenSeq(gs)
  OBVIOUS
<1>2. \A k \in 1 .. n : List(fs[k]) /\ List(gs[k]) /\ Len(fs[k]) = Len(gs[k])
  BY DEF Answers
<1>3. Aligned(fs, gs, n, t, u)
  BY <1>1, <1>2, FlattenAligned
<1>4. ASSUME NEW x \in 1 .. Len(u) PROVE Answer(t[x], u[x])
  <2>1. x \in 1 .. Len(t)
    BY <1>3 DEF Aligned
  <2>2. PICK k \in 1 .. n : \E j \in 1 .. Len(fs[k]) : t[x] = fs[k][j] /\ u[x] = gs[k][j]
    BY <1>3, <2>1 DEF Aligned
  <2> QED BY <1>2, <2>2 DEF Answers
<1> QED BY <1>1, <1>3, <1>4 DEF Aligned, Answers

LEMMA AnswersOf ==
  ASSUME NEW n, n \in Nat, NEW fs, NEW gs, fs = [k \in 1 .. n |-> fs[k]], gs = [k \in 1 .. n |-> gs[k]],
         \A k \in 1 .. n : Answer(fs[k], gs[k])
  PROVE  Answers(fs, gs)
<1>1. List(fs) /\ Len(fs) = n /\ List(gs) /\ Len(gs) = n
  BY ListOf
<1> QED BY <1>1 DEF Answers

LEMMA AnswersTwo ==
  ASSUME NEW a, NEW b, NEW d, NEW e, Answer(a, d), Answer(b, e) PROVE Answers(<<a, b>>, <<d, e>>)
<1>1. PICK s, t : s = <<a, b>> /\ t = <<d, e>>
  OBVIOUS
<1>2. PICK n \in Nat : n = 2
  OBVIOUS
<1>3. s = [k \in 1 .. n |-> s[k]] /\ t = [k \in 1 .. n |-> t[k]]
  BY <1>1, <1>2
<1>4. \A k \in 1 .. n : Answer(s[k], t[k])
  BY <1>1, <1>2
<1>5. Answers(s, t)
  BY <1>3, <1>4, AnswersOf
<1> QED BY <1>1, <1>5

LEMMA AnswersFive ==
  ASSUME NEW a, NEW b, NEW d, NEW e, NEW f, NEW u, NEW v, NEW w, NEW x, NEW y,
         Answer(a, u), Answer(b, v), Answer(d, w), Answer(e, x), Answer(f, y)
  PROVE  Answers(<<a, b, d, e, f>>, <<u, v, w, x, y>>)
<1>1. PICK s, t : s = <<a, b, d, e, f>> /\ t = <<u, v, w, x, y>>
  OBVIOUS
<1>2. PICK n \in Nat : n = 5
  OBVIOUS
<1>3. s = [k \in 1 .. n |-> s[k]] /\ t = [k \in 1 .. n |-> t[k]]
  BY <1>1, <1>2
<1>4. \A k \in 1 .. n : Answer(s[k], t[k])
  BY <1>1, <1>2
<1>5. Answers(s, t)
  BY SMTT(40), <1>3, <1>4, AnswersOf
<1> QED BY <1>1, <1>5

-----------------------------------------------------------------------------
LEMMA ExactlyIs ==
  /\ \A of, i, j : of # "advice" => Exactly(Pt(of, i, j)) = Pt(of, i, j)
  /\ \A i, j : Exactly(Pt("advice", i, j)) = AdvicePoly(i, j)
BY DEF Exactly, Pt, Element, Version, AdvicePoly

LEMMA ReadAnswers ==
  ASSUME Supplied, NEW of, of # "quotient", NEW i, NEW j, NEW r,
         InPart(Pt(of, i, j)), InPart(Sc(of, i, j, Point(r)))
  PROVE  Answer(ReadClaim(Pt(of, i, j), r), Query(Exactly(Pt(of, i, j)), r))
<1>1. PICK p, e, row : p = Pt(of, i, j) /\ row = Point(r) /\ e = Sc(of, i, j, row)
  OBVIOUS
<1>2. p.of = of /\ p.i = i /\ p.j = j /\ e.of = of /\ Received(p) /\ Received(e)
  BY <1>1 DEF Pt, Sc, Element, Received
<1>3. got[p] = Exactly(p) /\ got[e] = Exactly(e)
  BY <1>1, <1>2 DEF Supplied
<1>4. PICK v : v = Version(advices, p)
  OBVIOUS
<1>5. Version(advices, e) = v
  BY <1>1, <1>4 DEF Version, Pt, Sc, Element
<1>6. Exactly(p) = Element("point", of, i, j, 0, v) /\ Exactly(e) = Element("scalar", of, i, j, row, v)
  BY <1>1, <1>4, <1>5 DEF Exactly, Pt, Sc, Element
<1>7. ReadClaim(p, r) = Claim(Exactly(p), r, Exactly(e))
  BY <1>1, <1>2, <1>3 DEF ReadClaim
<1>8. Answer(Claim(Exactly(p), r, Exactly(e)), Query(Exactly(p), r))
  BY <1>1, <1>6 DEF Answer, Opens, Claim, Query, Element
<1> QED BY <1>1, <1>7, <1>8

LEMMA KeyAnswers ==
  ASSUME Supplied, NEW of, of \notin {"advice", "quotient"}, NEW j, NEW r, InPart(Sc(of, 0, j, Point(r)))
  PROVE  Answer(KeyClaim(Pt(of, 0, j), r), Query(Pt(of, 0, j), r))
<1>1. PICK p, e, row : p = Pt(of, 0, j) /\ row = Point(r) /\ e = Sc(of, 0, j, row)
  OBVIOUS
<1>2. p.of = of /\ p.j = j /\ e.of = of /\ Received(e)
  BY <1>1 DEF Pt, Sc, Element, Received
<1>3. got[e] = Exactly(e)
  BY <1>1, <1>2 DEF Supplied
<1>4. p = Element("point", of, 0, j, 0, 0) /\ Exactly(e) = Element("scalar", of, 0, j, row, 0)
  BY <1>1 DEF Exactly, Pt, Sc, Element, Version
<1>5. KeyClaim(p, r) = Claim(p, r, Exactly(e))
  BY <1>1, <1>2, <1>3 DEF KeyClaim
<1>6. Answer(Claim(p, r, Exactly(e)), Query(p, r))
  BY <1>1, <1>4 DEF Answer, Opens, Claim, Query, Element
<1> QED BY <1>1, <1>5, <1>6

LEMMA VanishingAnswers ==
  ASSUME input \in Inputs, Supplied PROVE Answers(VanishingClaims, VanishingOpens)
<1>1. /\ InPart(Pt("random", 0, 0)) /\ InPart(Sc("random", 0, 0, 0))
      /\ \A p \in 1 .. vk.pieces : InPart(Pt("h", 0, p))
  BY VanishingAsked
<1>2. ASSUME NEW p \in 1 .. vk.pieces PROVE got[Pt("h", 0, p)] = Pt("h", 0, p)
  <2>1. Received(Pt("h", 0, p)) /\ Pt("h", 0, p).of # "quotient"
    BY DEF Pt, Element, Received
  <2>2. got[Pt("h", 0, p)] = Exactly(Pt("h", 0, p))
    BY <1>1, <2>1 DEF Supplied
  <2> QED BY <2>2, ExactlyIs
<1>3. QuotientClaim = Claim(Pt("h", 0, 0), 0, Sc("h", 0, 0, 0))
  BY <1>2 DEF QuotientClaim
<1>4. Point(0) = 0
  BY FirstRows
<1>5. Answer(QuotientClaim, Query(Pt("h", 0, 0), 0))
  BY <1>3, <1>4 DEF Answer, Opens, Claim, Query, Pt, Sc, Element
<1>6. Answer(ReadClaim(Pt("random", 0, 0), 0), Query(Exactly(Pt("random", 0, 0)), 0))
  BY <1>1, <1>4, ReadAnswers
<1>7. Answer(ReadClaim(Pt("random", 0, 0), 0), Query(Pt("random", 0, 0), 0))
  <2>1. Exactly(Pt("random", 0, 0)) = Pt("random", 0, 0)
    BY ExactlyIs
  <2> QED BY <1>6, <2>1
<1> QED BY <1>5, <1>7, AnswersTwo DEF VanishingClaims, VanishingOpens

(* A claim about something that has no version. *)
LEMMA PlainAnswers ==
  ASSUME Supplied, NEW of, of \notin {"advice", "quotient"}, NEW i, NEW j, NEW r,
         InPart(Pt(of, i, j)), InPart(Sc(of, i, j, Point(r)))
  PROVE  Answer(ReadClaim(Pt(of, i, j), r), Query(Pt(of, i, j), r))
<1>1. Exactly(Pt(of, i, j)) = Pt(of, i, j)
  BY ExactlyIs
<1>2. Answer(ReadClaim(Pt(of, i, j), r), Query(Exactly(Pt(of, i, j)), r))
  BY ReadAnswers
<1> QED BY <1>1, <1>2

LEMMA PermutationAnswers ==
  ASSUME input \in Inputs, Supplied, NEW i, i \in Proofs PROVE Answers(PermutationClaims(i), PermutationOpens(i))
<1>1. PICK n \in Nat : n = vk.sets
  BY TheKey
<1>2. PICK b \in Nat : AllButLast = 1 .. b /\ \A k \in 1 .. b : n - k \in 1 .. n /\ n - k < n
  <2>1. PICK m \in Nat : AllButLast = 1 .. m
    BY AllButLastIs
  <2>2. ASSUME NEW k \in 1 .. m PROVE n - k \in 1 .. n /\ n - k < n
    BY <1>1, <2>1 DEF AllButLast
  <2> QED BY <2>1, <2>2
<1>3. PICK fs, gs : /\ fs = [x \in 1 .. n |->
                         <<ReadClaim(Pt("permutation", i, x), 0), ReadClaim(Pt("permutation", i, x), 1)>>]
                    /\ gs = [x \in 1 .. n |->
                         <<Query(Pt("permutation", i, x), 0), Query(Pt("permutation", i, x), 1)>>]
  OBVIOUS
<1>4. PICK t, u : /\ t = [k \in AllButLast |-> ReadClaim(Pt("permutation", i, n - k), -(vk.blinding + 1))]
                  /\ u = [k \in AllButLast |-> Query(Pt("permutation", i, n - k), -(vk.blinding + 1))]
  OBVIOUS
<1>5. PermutationClaims(i) = FlattenSeq(fs) \o t /\ PermutationOpens(i) = FlattenSeq(gs) \o u
  BY <1>1, <1>3, <1>4 DEF PermutationClaims, PermutationOpens, ForEach
<1>6. fs = [k \in 1 .. n |-> fs[k]] /\ gs = [k \in 1 .. n |-> gs[k]]
  BY <1>3
<1>7. ASSUME NEW k \in 1 .. n PROVE Answers(fs[k], gs[k])
  <2>1. /\ InPart(Pt("permutation", i, k))
        /\ InPart(Sc("permutation", i, k, Point(0))) /\ InPart(Sc("permutation", i, k, Point(1)))
    BY <1>1, PermutationsAsked, FirstRows
  <2>2. Answer(ReadClaim(Pt("permutation", i, k), 0), Query(Pt("permutation", i, k), 0))
    BY <2>1, PlainAnswers
  <2>3. Answer(ReadClaim(Pt("permutation", i, k), 1), Query(Pt("permutation", i, k), 1))
    BY <2>1, PlainAnswers
  <2> QED BY <1>3, <2>2, <2>3, AnswersTwo
<1>8. Answers(FlattenSeq(fs), FlattenSeq(gs))
  BY <1>6, <1>7, AnswersFlatten
<1>9. t = [k \in 1 .. b |-> t[k]] /\ u = [k \in 1 .. b |-> u[k]]
  BY <1>2, <1>4
<1>10. ASSUME NEW k \in 1 .. b PROVE Answer(t[k], u[k])
  <2>1. PICK s, r : s = n - k /\ r = -(vk.blinding + 1)
    OBVIOUS
  <2>2. s \in 1 .. vk.sets /\ s < vk.sets /\ Point(r) = LastRow
    BY <1>1, <1>2, <2>1 DEF LastRow
  <2>3. InPart(Pt("permutation", i, s)) /\ InPart(Sc("permutation", i, s, Point(r)))
    BY <2>2, PermutationsAsked
  <2>4. Answer(ReadClaim(Pt("permutation", i, s), r), Query(Pt("permutation", i, s), r))
    BY <2>3, PlainAnswers
  <2> QED BY <1>2, <1>4, <2>1, <2>4
<1>11. Answers(t, u)
  BY <1>2, <1>9, <1>10, AnswersOf
<1> QED BY <1>5, <1>8, <1>11, AnswersConcat

-----------------------------------------------------------------------------
LEMMA LookupAnswers ==
  ASSUME input \in Inputs, Supplied, NEW i, i \in Proofs PROVE Answers(LookupClaims(i), LookupOpens(i))
<1>1. PICK n \in Nat : DOMAIN c.lookups = 1 .. n
  BY TheLists
<1>2. PICK fs, gs : /\ fs = [l \in 1 .. n |->
                         <<ReadClaim(Pt("lookup product", i, l), 0), ReadClaim(Pt("lookup input", i, l), 0),
                           ReadClaim(Pt("lookup table", i, l), 0), ReadClaim(Pt("lookup input", i, l), -1),
                           ReadClaim(Pt("lookup product", i, l), 1)>>]
                    /\ gs = [l \in 1 .. n |->
                         <<Query(Pt("lookup product", i, l), 0), Query(Pt("lookup input", i, l), 0),
                           Query(Pt("lookup table", i, l), 0), Query(Pt("lookup input", i, l), -1),
                           Query(Pt("lookup product", i, l), 1)>>]
  OBVIOUS
<1>3. LookupClaims(i) = FlattenSeq(fs) /\ LookupOpens(i) = FlattenSeq(gs)
  BY <1>1, <1>2 DEF LookupClaims, LookupOpens, ForEach
<1>4. fs = [k \in 1 .. n |-> fs[k]] /\ gs = [k \in 1 .. n |-> gs[k]]
  BY <1>2
<1>5. ASSUME NEW l \in 1 .. n PROVE Answers(fs[l], gs[l])
  <2>1. PICK a, b, d, e, f : /\ a = ReadClaim(Pt("lookup product", i, l), 0)
                             /\ b = ReadClaim(Pt("lookup input", i, l), 0)
                             /\ d = ReadClaim(Pt("lookup table", i, l), 0)
                             /\ e = ReadClaim(Pt("lookup input", i, l), -1)
                             /\ f = ReadClaim(Pt("lookup product", i, l), 1)
    OBVIOUS
  <2>2. PICK u, v, w, x, y : /\ u = Query(Pt("lookup product", i, l), 0)
                             /\ v = Query(Pt("lookup input", i, l), 0)
                             /\ w = Query(Pt("lookup table", i, l), 0)
                             /\ x = Query(Pt("lookup input", i, l), -1)
                             /\ y = Query(Pt("lookup product", i, l), 1)
    OBVIOUS
  <2>3. /\ InPart(Pt("lookup input", i, l)) /\ InPart(Pt("lookup table", i, l))
        /\ InPart(Pt("lookup product", i, l))
        /\ InPart(Sc("lookup product", i, l, Point(0))) /\ InPart(Sc("lookup product", i, l, Point(1)))
        /\ InPart(Sc("lookup input", i, l, Point(0))) /\ InPart(Sc("lookup input", i, l, Point(-1)))
        /\ InPart(Sc("lookup table", i, l, Point(0)))
    BY <1>1, LookupsAsked, FirstRows
  <2>4. Answer(a, u)
    BY <2>1, <2>2, <2>3, PlainAnswers
  <2>5. Answer(b, v)
    BY <2>1, <2>2, <2>3, PlainAnswers
  <2>6. Answer(d, w)
    BY <2>1, <2>2, <2>3, PlainAnswers
  <2>7. Answer(e, x)
    BY <2>1, <2>2, <2>3, PlainAnswers
  <2>8. Answer(f, y)
    BY <2>1, <2>2, <2>3, PlainAnswers
  <2>9. Answers(<<a, b, d, e, f>>, <<u, v, w, x, y>>)
    BY <2>4, <2>5, <2>6, <2>7, <2>8, AnswersFive
  <2> QED BY <1>2, <2>1, <2>2, <2>9
<1> QED BY <1>3, <1>4, <1>5, AnswersFlatten

LEMMA ShuffleAnswers ==
  ASSUME input \in Inputs, Supplied, NEW i, i \in Proofs PROVE Answers(ShuffleClaims(i), ShuffleOpens(i))
<1>1. PICK n \in Nat : DOMAIN c.shuffles = 1 .. n
  BY TheLists
<1>2. PICK fs, gs : /\ fs = [s \in 1 .. n |->
                         <<ReadClaim(Pt("shuffle", i, s), 0), ReadClaim(Pt("shuffle", i, s), 1)>>]
                    /\ gs = [s \in 1 .. n |->
                         <<Query(Pt("shuffle", i, s), 0), Query(Pt("shuffle", i, s), 1)>>]
  OBVIOUS
<1>3. ShuffleClaims(i) = FlattenSeq(fs) /\ ShuffleOpens(i) = FlattenSeq(gs)
  BY <1>1, <1>2 DEF ShuffleClaims, ShuffleOpens, ForEach
<1>4. fs = [k \in 1 .. n |-> fs[k]] /\ gs = [k \in 1 .. n |-> gs[k]]
  BY <1>2
<1>5. ASSUME NEW s \in 1 .. n PROVE Answers(fs[s], gs[s])
  <2>1. /\ InPart(Pt("shuffle", i, s))
        /\ InPart(Sc("shuffle", i, s, Point(0))) /\ InPart(Sc("shuffle", i, s, Point(1)))
    BY <1>1, ShufflesAsked, FirstRows
  <2>2. Answer(ReadClaim(Pt("shuffle", i, s), 0), Query(Pt("shuffle", i, s), 0))
    BY <2>1, PlainAnswers
  <2>3. Answer(ReadClaim(Pt("shuffle", i, s), 1), Query(Pt("shuffle", i, s), 1))
    BY <2>1, PlainAnswers
  <2> QED BY <1>2, <2>2, <2>3, AnswersTwo
<1> QED BY <1>3, <1>4, <1>5, AnswersFlatten

LEMMA SigmaAnswers == ASSUME input \in Inputs, Supplied PROVE Answers(SigmaClaims, SigmaOpens)
<1>1. PICK u : u \in Nat /\ DOMAIN c.perm = 1 .. u
  BY TheLists
<1>2. PICK d, e : d = SigmaClaims /\ e = SigmaOpens
  OBVIOUS
<1>3. d = [k \in 1 .. u |-> d[k]] /\ e = [k \in 1 .. u |-> e[k]]
  BY <1>1, <1>2 DEF SigmaClaims, SigmaOpens
<1>4. ASSUME NEW k \in 1 .. u PROVE Answer(d[k], e[k])
  <2>1. InPart(Sc("sigma", 0, k, Point(0)))
    BY <1>1, KeyAsked, FirstRows
  <2>2. Answer(KeyClaim(Pt("sigma", 0, k), 0), Query(Pt("sigma", 0, k), 0))
    BY <2>1, KeyAnswers
  <2> QED BY <1>1, <1>2, <2>2 DEF SigmaClaims, SigmaOpens
<1>5. Answers(d, e)
  BY <1>1, <1>3, <1>4, AnswersOf
<1> QED BY <1>2, <1>5

(* The lists of the claims of a circuit, and of the prover's queries. *)
AdviceClaims(i) ==
  LET qs == vk.queries["advice"] IN [k \in DOMAIN qs |-> ReadClaim(Pt("advice", i, qs[k][2]), qs[k][3])]
AdviceOpens(i) ==
  LET qs == vk.queries["advice"] IN [k \in DOMAIN qs |-> Query(AdvicePoly(i, qs[k][2]), qs[k][3])]
FixedClaims ==
  LET qs == vk.queries["fixed"] IN [k \in DOMAIN qs |-> KeyClaim(Pt("fixed", 0, qs[k][2]), qs[k][3])]
FixedOpens ==
  LET qs == vk.queries["fixed"] IN [k \in DOMAIN qs |-> Query(Pt("fixed", 0, qs[k][2]), qs[k][3])]

LEMMA AdviceAnswers ==
  ASSUME input \in Inputs, Supplied, NEW i, i \in Proofs PROVE Answers(AdviceClaims(i), AdviceOpens(i))
<1>1. PICK qs : qs = vk.queries["advice"]
  OBVIOUS
<1>2. PICK n : n \in Nat /\ n = Len(qs) /\ DOMAIN qs = 1 .. n
  BY <1>1, TheKey, ListDomain
<1>3. PICK d, e : d = AdviceClaims(i) /\ e = AdviceOpens(i)
  OBVIOUS
<1>4. /\ d = [k \in 1 .. n |-> ReadClaim(Pt("advice", i, qs[k][2]), qs[k][3])]
      /\ e = [k \in 1 .. n |-> Query(AdvicePoly(i, qs[k][2]), qs[k][3])]
  BY <1>1, <1>2, <1>3 DEF AdviceClaims, AdviceOpens
<1>5. d = [k \in 1 .. n |-> d[k]] /\ e = [k \in 1 .. n |-> e[k]]
  BY <1>4
<1>6. ASSUME NEW k \in 1 .. n PROVE Answer(d[k], e[k])
  <2>1. PICK col, r : col = qs[k][2] /\ r = qs[k][3]
    OBVIOUS
  <2>2. col \in DOMAIN c.adv
    BY <1>1, <1>2, <2>1, QueriedColumns
  <2>3. InPart(Pt("advice", i, col))
    BY <2>2, ColumnsAsked
  <2>4. InPart(Sc("advice", i, col, Point(r)))
    BY <1>1, <1>2, <2>1, EvalsAsked
  <2>5. Answer(ReadClaim(Pt("advice", i, col), r), Query(Exactly(Pt("advice", i, col)), r))
    BY <2>3, <2>4, ReadAnswers
  <2>6. Exactly(Pt("advice", i, col)) = AdvicePoly(i, col)
    BY ExactlyIs
  <2> QED BY <1>4, <2>1, <2>5, <2>6
<1>7. Answers(d, e)
  BY <1>2, <1>5, <1>6, AnswersOf
<1> QED BY <1>3, <1>7

LEMMA FixedAnswers == ASSUME input \in Inputs, Supplied PROVE Answers(FixedClaims, FixedOpens)
<1>1. PICK qs : qs = vk.queries["fixed"]
  OBVIOUS
<1>2. PICK n : n \in Nat /\ DOMAIN qs = 1 .. n
  BY <1>1, TheKey, ListDomain
<1>3. PICK d, e : d = FixedClaims /\ e = FixedOpens
  OBVIOUS
<1>4. /\ d = [k \in 1 .. n |-> KeyClaim(Pt("fixed", 0, qs[k][2]), qs[k][3])]
      /\ e = [k \in 1 .. n |-> Query(Pt("fixed", 0, qs[k][2]), qs[k][3])]
  BY <1>1, <1>2, <1>3 DEF FixedClaims, FixedOpens
<1>5. d = [k \in 1 .. n |-> d[k]] /\ e = [k \in 1 .. n |-> e[k]]
  BY <1>4
<1>6. ASSUME NEW k \in 1 .. n PROVE Answer(d[k], e[k])
  <2>1. InPart(Sc("fixed", 0, qs[k][2], Point(qs[k][3])))
    BY <1>1, <1>2, KeyAsked
  <2>2. Answer(KeyClaim(Pt("fixed", 0, qs[k][2]), qs[k][3]), Query(Pt("fixed", 0, qs[k][2]), qs[k][3]))
    BY <2>1, KeyAnswers
  <2> QED BY <1>4, <2>2
<1>7. Answers(d, e)
  BY <1>2, <1>5, <1>6, AnswersOf
<1> QED BY <1>3, <1>7

LEMMA ClaimsAnswer == ASSUME input \in Inputs, Supplied PROVE Answers(Claims, ProverQueries)
<1>1. PICK fs, gs :
        /\ fs = [i \in Proofs |-> ((AdviceClaims(i) \o PermutationClaims(i)) \o LookupClaims(i)) \o ShuffleClaims(i)]
        /\ gs = [i \in Proofs |-> ((AdviceOpens(i) \o PermutationOpens(i)) \o LookupOpens(i)) \o ShuffleOpens(i)]
  OBVIOUS
<1>2. Claims = ((FlattenSeq(fs) \o FixedClaims) \o SigmaClaims) \o VanishingClaims
  BY <1>1 DEF Claims, ForEachCircuit, ForEach, AdviceClaims, FixedClaims
<1>3. ProverQueries = ((FlattenSeq(gs) \o FixedOpens) \o SigmaOpens) \o VanishingOpens
  BY <1>1 DEF ProverQueries, ForEachCircuit, ForEach, AdviceOpens, FixedOpens
<1>4. ASSUME NEW i \in Proofs PROVE Answers(fs[i], gs[i])
  <2>1. Answers(AdviceClaims(i) \o PermutationClaims(i), AdviceOpens(i) \o PermutationOpens(i))
    BY AdviceAnswers, PermutationAnswers, AnswersConcat
  <2>2. Answers((AdviceClaims(i) \o PermutationClaims(i)) \o LookupClaims(i),
                (AdviceOpens(i) \o PermutationOpens(i)) \o LookupOpens(i))
    BY <2>1, LookupAnswers, AnswersConcat
  <2>3. Answers(((AdviceClaims(i) \o PermutationClaims(i)) \o LookupClaims(i)) \o ShuffleClaims(i),
                ((AdviceOpens(i) \o PermutationOpens(i)) \o LookupOpens(i)) \o ShuffleOpens(i))
    BY <2>2, ShuffleAnswers, AnswersConcat
  <2> QED BY <1>1, <2>3
<1>5. PICK m \in Nat : Proofs = 1 .. m
  BY TheCircuit
<1>6. fs = [i \in 1 .. m |-> fs[i]] /\ gs = [i \in 1 .. m |-> gs[i]]
  BY <1>1, <1>5
<1>7. PICK t, w : t = FlattenSeq(fs) /\ w = FlattenSeq(gs)
  OBVIOUS
<1>8. Answers(t, w)
  BY <1>4, <1>5, <1>6, <1>7, AnswersFlatten
<1>9. Answers(t \o FixedClaims, w \o FixedOpens)
  BY <1>8, FixedAnswers, AnswersConcat
<1>10. Answers((t \o FixedClaims) \o SigmaClaims, (w \o FixedOpens) \o SigmaOpens)
  BY <1>9, SigmaAnswers, AnswersConcat
<1>11. Answers(((t \o FixedClaims) \o SigmaClaims) \o VanishingClaims,
               ((w \o FixedOpens) \o SigmaOpens) \o VanishingOpens)
  BY <1>10, VanishingAnswers, AnswersConcat
<1> QED BY <1>2, <1>3, <1>7, <1>11

LEMMA AnswersAsk == ASSUME NEW s, NEW t, Answers(s, t) PROVE Asked(s) = t
<1>1. PICK n \in Nat : n = Len(t) /\ n = Len(s) /\ DOMAIN s = 1 .. n
  BY ListDomain DEF Answers
<1>2. t = [k \in 1 .. n |-> t[k]]
  BY <1>1 DEF Answers, List
<1>3. \A k \in 1 .. n : t[k] = [of |-> s[k].of, at |-> s[k].at]
  BY <1>1 DEF Answers, Answer
<1>4. Asked(s) = [k \in 1 .. n |-> [of |-> s[k].of, at |-> s[k].at]]
  BY <1>1 DEF Asked
<1> QED BY <1>2, <1>3, <1>4

(* A proof that was made without a failed call and arrives as it is passes  *)
(* the last check.                                                         *)
LEMMA HonestHolds ==
  ASSUME ProverInv, VerifierInv, Following, Hears, Recorded, Ready, Honest, vpc = "check"
  PROVE  Holds
<1>1. input \in Inputs /\ Supplied /\ tv = tp
  BY AllSupplied, SameTranscript DEF ProverInv, ProverTypes
<1>2. PICK s, t : s = Claims /\ t = ProverQueries
  OBVIOUS
<1>3. Answers(s, t)
  BY <1>1, <1>2, ClaimsAnswer
<1>4. Asked(s) = t
  BY <1>3, AnswersAsk
<1>5. ASSUME NEW k \in DOMAIN s PROVE Opens(s[k])
  <2>1. k \in 1 .. Len(t)
    BY <1>3, ListDomain DEF Answers
  <2> QED BY <1>3, <2>1 DEF Answers, Answer
<1> QED BY <1>1, <1>2, <1>4, <1>5 DEF Holds

-----------------------------------------------------------------------------
(***************************************************************************)
(* Step by step, what the two parties do is what ProofSession allows.      *)
(***************************************************************************)
(* The prover's steps leave its session open, or end it. *)
Proceeds ==
  /\ pc \notin {"failed", "proved"} /\ UNCHANGED verifierVars
  /\ torn' = torn \/ (torn' = TRUE /\ pc' = pc)

LEMMA ProverProceeds == ASSUME Caller \/ Prover PROVE Proceeds
<1>1. ASSUME NEW from, NEW to, NEW asked, from \notin {"failed", "proved"}, Write(from, to, asked) PROVE Proceeds
  BY <1>1 DEF Write, Proceeds
<1>2. ASSUME Fail, pc \notin {"failed", "proved"} PROVE Proceeds
  BY <1>2 DEF Fail, Proceeds
<1>3. CASE Caller
  <2>1. CASE New \/ CommitPhase
    BY <2>1 DEF New, CommitPhase, Proceeds
  <2>2. CASE NewError \/ MissingChallenges \/ NotInTable
    BY <1>2, <2>2 DEF NewError, MissingChallenges, NotInTable
  <2>3. CASE GenPermutedLookups
    BY <1>1, <2>3 DEF GenPermutedLookups
  <2>4. ASSUME NEW i \in Proofs, NEW col \in DOMAIN c.adv, TornCommitPhase(i, col) PROVE Proceeds
    BY <2>4 DEF TornCommitPhase, Proceeds
  <2> QED BY <1>3, <2>1, <2>2, <2>3, <2>4 DEF Caller
<1>4. CASE Prover
  <2>1. CASE GenCommittedPermutationPolys
    <3>1. \E asked : Write("permutations", "lookup products", asked)
      BY <2>1 DEF GenCommittedPermutationPolys
    <3> QED BY <1>1, <3>1
  <2>2. CASE GenCommittedLookupsPolys
    BY <1>1, <2>2 DEF GenCommittedLookupsPolys
  <2>3. CASE GenCommittedShuffles
    BY <1>1, <2>3 DEF GenCommittedShuffles
  <2>4. CASE GenCommittedVanishing
    BY <1>1, <2>4 DEF GenCommittedVanishing
  <2>5. CASE GenConstructedVanishing
    <3>1. \E asked : Write("h", "advice evals", asked)
      BY <2>5 DEF GenConstructedVanishing
    <3> QED BY <1>1, <3>1
  <2>6. CASE WriteAdviceEvals
    <3>1. \E asked : Write("advice evals", "fixed evals", asked)
      BY <2>6 DEF WriteAdviceEvals
    <3> QED BY <1>1, <3>1
  <2>7. CASE WriteFixedEvals
    <3>1. \E asked : Write("fixed evals", "permutation evals", asked)
      BY <2>7 DEF WriteFixedEvals
    <3> QED BY <1>1, <3>1
  <2>8. CASE EvaluatePermutations
    BY <1>1, <2>8 DEF EvaluatePermutations
  <2>9. CASE EvaluateLookups
    BY <1>1, <2>9 DEF EvaluateLookups
  <2>10. CASE EvaluateShuffles
    BY <1>1, <2>10 DEF EvaluateShuffles
  <2>11. CASE CreateProof
    BY <1>1, <2>11 DEF CreateProof
  <2>12. CASE GenAdvicePolys
    BY <2>12 DEF GenAdvicePolys, Proceeds
  <2>13. CASE MissingAdvice \/ IdentityPoint \/ OpeningError
    BY <1>2, <2>13 DEF MissingAdvice, IdentityPoint, OpeningError
  <2> QED BY <1>4, <2>1, <2>2, <2>3, <2>4, <2>5, <2>6, <2>7, <2>8, <2>9, <2>10, <2>11, <2>12, <2>13 DEF Prover
<1> QED BY <1>3, <1>4

LEMMA ProverPromised ==
  ASSUME Hears, Proceeds PROVE [Promise!Next]_(Promise!vars)
<1>1. /\ pc \notin {"failed", "proved"} /\ vpc = "idle" /\ vpc' = "idle" /\ verdict' = verdict
      /\ torn' = torn \/ (torn' = TRUE /\ pc' = pc)
  BY DEF Proceeds, Hears, verifierVars
<1>2. CASE torn' = torn /\ pc' = "failed"
  <2>1. Promise!GiveUp
    BY <1>1, <1>2 DEF Promise!GiveUp
  <2> QED BY <2>1 DEF Promise!Next
<1>3. CASE torn' = torn /\ pc' = "proved"
  <2>1. Promise!Prove
    BY <1>1, <1>3 DEF Promise!Prove
  <2> QED BY <2>1 DEF Promise!Next
<1>4. CASE torn' = torn /\ pc' \notin {"failed", "proved"}
  BY <1>1, <1>4 DEF Promise!vars
<1>5. CASE torn' = TRUE /\ pc' = pc
  <2>1. Promise!Tear
    BY <1>1, <1>5 DEF Promise!Tear
  <2> QED BY <2>1 DEF Promise!Next
<1> QED BY <1>1, <1>2, <1>3, <1>4, <1>5

LEMMA CarryPromised ==
  ASSUME NEW elements, NEW version, Carry(elements, version) PROVE [Promise!Next]_(Promise!vars)
<1>1. /\ pc = "proved" /\ pc' = "proved" /\ vpc = "idle" /\ vpc' = "instances"
      /\ torn' = torn /\ verdict' = verdict
  BY DEF Carry, proverVars
<1>2. CASE Intact'
  <2>1. Promise!Deliver(TRUE)
    BY <1>1, <1>2 DEF Promise!Deliver
  <2> QED BY <2>1 DEF Promise!Next
<1>3. CASE ~Intact'
  <2>1. Promise!Deliver(FALSE)
    BY <1>1, <1>3 DEF Promise!Deliver
  <2> QED BY <2>1 DEF Promise!Next
<1> QED BY <1>2, <1>3

(* A step of the verifier reads on, or ends the call with a verdict. *)
Goes(answer) == vpc' = "done" /\ verdict' = answer
ReadsOn      == vpc' \in Reading /\ verdict' = verdict

Hearing == vpc \in Reading /\ UNCHANGED <<pc, torn, proof, wire, told>>

LEMMA VerifierEnds == ASSUME Verifier, ~Check PROVE Hearing /\ (ReadsOn \/ Goes("reject"))
<1>1. ASSUME NEW from, NEW to, NEW slots, from \in Reading, to \in Reading, Read(from, to, slots)
      PROVE  Hearing /\ (ReadsOn \/ Goes("reject"))
  <2>1. Hearing
    BY <1>1 DEF Hearing, Read, Return, proverVars
  <2>2. ReadsOn \/ Goes("reject")
    BY <1>1 DEF Read, Return, ReadsOn, Goes
  <2> QED BY <2>1, <2>2
<1>2. CASE ReadInstances
  BY <1>2 DEF ReadInstances, Hearing, Reading, ReadsOn, proverVars
<1>3. CASE ReadPhases
  <2>1. \E asked : Read("phases", "lookups", asked)
    BY <1>3 DEF ReadPhases
  <2>2. "phases" \in Reading /\ "lookups" \in Reading
    BY DEF Reading
  <2> QED BY <1>1, <2>1, <2>2
<1>4. CASE ReadLookups
  <2>1. \E asked : Read("lookups", "products", asked)
    BY <1>4 DEF ReadLookups
  <2>2. "lookups" \in Reading /\ "products" \in Reading
    BY DEF Reading
  <2> QED BY <1>1, <2>1, <2>2
<1>5. CASE ReadProducts
  <2>1. \E asked : Read("products", "vanishing", asked)
    BY <1>5 DEF ReadProducts
  <2>2. "products" \in Reading /\ "vanishing" \in Reading
    BY DEF Reading
  <2> QED BY <1>1, <2>1, <2>2
<1>6. CASE ReadVanishing
  <2>1. \E asked : Read("vanishing", "evals", asked)
    BY <1>6 DEF ReadVanishing
  <2>2. "vanishing" \in Reading /\ "evals" \in Reading
    BY DEF Reading
  <2> QED BY <1>1, <2>1, <2>2
<1>7. CASE ReadColumnEvals
  <2>1. \E asked : Read("evals", "argument evals", asked)
    BY <1>7 DEF ReadColumnEvals
  <2>2. "evals" \in Reading /\ "argument evals" \in Reading
    BY DEF Reading
  <2> QED BY <1>1, <2>1, <2>2
<1>8. CASE ReadArgumentEvals
  <2>1. \E asked : Read("argument evals", "open", asked)
    BY <1>8 DEF ReadArgumentEvals
  <2>2. "argument evals" \in Reading /\ "open" \in Reading
    BY DEF Reading
  <2> QED BY <1>1, <2>1, <2>2
<1>9. CASE ReadOpening
  <2>1. \E asked : Read("open", "check", asked)
    BY <1>9 DEF ReadOpening
  <2>2. "open" \in Reading /\ "check" \in Reading
    BY DEF Reading
  <2> QED BY <1>1, <2>1, <2>2
<1> QED BY <1>2, <1>3, <1>4, <1>5, <1>6, <1>7, <1>8, <1>9 DEF Verifier

LEMMA JudgePromised ==
  ASSUME Hears, Hearing, NEW answer, Goes(answer), answer = IF Honest THEN "accept" ELSE "reject"
  PROVE  [Promise!Next]_(Promise!vars)
<1>1. /\ pc = "proved" /\ pc' = "proved" /\ vpc \notin {"idle", "done"} /\ vpc' = "done" /\ torn' = torn
      /\ Intact' = Intact /\ verdict' = answer
  BY DEF Hears, Hearing, Reading, Goes, Intact
<1>2. answer = IF ~torn /\ Intact THEN "accept" ELSE "reject"
  BY <1>1 DEF Honest
<1>3. Promise!Judge
  BY <1>1, <1>2 DEF Promise!Judge
<1> QED BY <1>3 DEF Promise!Next

LEMMA VerifierPromised ==
  ASSUME Exchange, Exchange', Verifier PROVE [Promise!Next]_(Promise!vars)
<1>1. /\ ProverInv /\ VerifierInv /\ Following /\ Hears /\ Recorded /\ Ready
      /\ (verdict = "accept" => ~torn /\ Intact)'
  BY DEF Exchange, Sound, Agree, Inv, Heard
<1>2. CASE Check
  <2>1. PICK answer : answer = IF Holds THEN "accept" ELSE "reject"
    OBVIOUS
  <2>2. Hearing /\ Goes(answer) /\ vpc = "check"
    BY <1>2, <2>1 DEF Check, Return, Hearing, Reading, Goes, proverVars
  <2>3. Honest => answer = "accept"
    BY <1>1, <2>1, <2>2, HonestHolds
  <2>4. answer = "accept" => Honest
    <3>1. ASSUME answer = "accept" PROVE Honest
      <4>1. ~torn' /\ Intact'
        BY <1>1, <2>2, <3>1 DEF Goes
      <4>2. Intact' = Intact /\ torn' = torn
        BY <2>2 DEF Hearing, Intact
      <4> QED BY <2>2, <4>1, <4>2 DEF Honest
    <3> QED BY <3>1
  <2>5. answer = IF Honest THEN "accept" ELSE "reject"
    BY <2>1, <2>3, <2>4
  <2> QED BY <1>1, <2>2, <2>5, JudgePromised
<1>3. CASE ~Check
  <2>1. Hearing /\ (ReadsOn \/ Goes("reject"))
    BY <1>3, VerifierEnds
  <2>2. CASE ReadsOn
    <3>1. /\ pc' = pc /\ torn' = torn /\ Intact' = Intact /\ verdict' = verdict
          /\ vpc \notin {"idle", "done"} /\ vpc' \notin {"idle", "done"}
      BY <2>1, <2>2 DEF Hearing, Reading, ReadsOn, Intact
    <3> QED BY <3>1 DEF Promise!vars
  <2>3. CASE Goes("reject")
    <3>1. Honest => vpc' \in Reading
      BY <1>1, <1>3, GoesOn DEF VerifierGoesOn
    <3>2. ~Honest
      BY <2>3, <3>1 DEF Goes, Reading
    <3> QED BY <1>1, <2>1, <2>3, <3>2, JudgePromised
  <2> QED BY <2>1, <2>2, <2>3
<1> QED BY <1>2, <1>3

LEMMA RestPromised == ASSUME UNCHANGED vars PROVE UNCHANGED Promise!vars
<1>1. UNCHANGED <<pc, torn, vpc, verdict, proof, wire, told>>
  BY DEF vars, proverVars, verifierVars
<1>2. Intact' = Intact
  BY <1>1 DEF Intact
<1> QED BY <1>1, <1>2 DEF Promise!vars

LEMMA StepPromised ==
  ASSUME Exchange, Exchange', [Next]_vars PROVE [Promise!Next]_(Promise!vars)
<1>1. Hears
  BY DEF Exchange, Sound, Agree
<1>2. CASE Caller \/ Prover
  BY <1>1, <1>2, ProverProceeds, ProverPromised
<1>3. CASE Channel
  BY <1>3, CarryPromised DEF Channel, Deliver, Extend, Misinform, Cut, Change
<1>4. CASE Verifier
  BY <1>4, VerifierPromised
<1>5. CASE UNCHANGED vars
  BY <1>5, RestPromised
<1> QED BY <1>2, <1>3, <1>4, <1>5 DEF Next

(* One session makes one proof or none, and the verdict on it is right in
   both directions: the verifier accepts exactly a proof in whose session no
   call of commit_phase failed and that reached it unchanged, with the
   prover's instances, whatever the circuit, the number of rows and the scheme. *)
THEOREM ProvingImplementsSession == Spec => ImplementsProofSession
<1>1. Init => Promise!Init
  BY DEF Init, Promise!Init
<1>2. Exchange /\ Exchange' /\ [Next]_vars => [Promise!Next]_(Promise!vars)
  BY StepPromised
<1> QED BY <1>1, <1>2, ExchangeHolds, PTL DEF Spec, ImplementsProofSession

-----------------------------------------------------------------------------
(***************************************************************************)
(* The multi-open is given no polynomial twice at one point.               *)
(***************************************************************************)
(* No polynomial twice at one point: the multi-open takes the queries. *)
LEMMA DistinctOpens == ASSUME NEW t, Distinct(t) PROVE Openable(t)
<1>1. PICK n \in Nat : n = Len(t)
  BY DEF Distinct, List
<1>2. t = [k \in 1 .. n |-> t[k]] /\ \A k, l \in 1 .. n : t[k] = t[l] => k = l
  BY <1>1 DEF Distinct, List
<1>3. PICK S : S = {t[k] : k \in 1 .. n} /\ S = ToSet(t)
  BY <1>1, RangeOf DEF Distinct
<1>4. t \in [1 .. n -> S]
  BY <1>2, <1>3
<1>5. t \in Surjection(1 .. n, S)
  BY <1>3, <1>4 DEF Surjection
<1>6. t \in Injection(1 .. n, S)
  BY <1>2, <1>4 DEF Injection, IsInjective
<1>7. IsFiniteSet(1 .. n) /\ Cardinality(1 .. n) = n
  BY FS_Interval
<1>8. Cardinality(S) = Cardinality(1 .. n)
  BY <1>5, <1>6, <1>7, FS_Surjection
<1> QED BY <1>1, <1>3, <1>7, <1>8 DEF Openable

LEMMA QueryLabels ==
  ASSUME NEW com, NEW r
  PROVE  LET q == Query(com, r) IN
           /\ Label(q, "kind") = com.of /\ Label(q, "circuit") = com.i /\ Label(q, "place") = com.j
           /\ Label(q, "row") = Point(r)
<1>1. Query(com, r).of = com /\ Query(com, r).at = Point(r)
  BY DEF Query
<1> QED BY <1>1 DEF Label

LEMMA PtLabels ==
  ASSUME NEW of, NEW i, NEW j PROVE Pt(of, i, j).of = of /\ Pt(of, i, j).i = i /\ Pt(of, i, j).j = j
BY DEF Pt, Element

(* The rows at which the arguments open are different: minimum_rows.       *)
LEMMA LastRows ==
  ASSUME input \in Inputs
  PROVE  /\ Point(-(vk.blinding + 1)) \notin {0, 1}
         /\ Point(-1) # 0
<1>1. c \in Circuits /\ input.rows \in RowCounts /\ input.rows >= MinimumRows(c)
  BY DEF Inputs, c
<1>2. PICK b \in Nat : b = BlindingFactors(c) /\ b = vk.blinding
  <2>1. vk.blinding = BlindingFactors(c)
    BY <1>1, TheCircuit DEF Keygen
  <2> QED BY <1>1, <2>1, BlindingIs
<1>3. PICK r \in Nat : r = input.rows
  BY <1>1, RowsAssumption
<1>4. r >= b + 1 + 1 + 1
  BY <1>1, <1>2, <1>3 DEF MinimumRows
<1>5. ASSUME NEW x \in 1 .. r - 1 PROVE (-x) % r = r - x
  <2>1. PICK y : y = r - x
    OBVIOUS
  <2>2. y \in 0 .. r - 1 /\ -x = (-1) * r + y /\ r \in Nat \ {0}
    BY <2>1
  <2>3. (-x) % r = y
    BY <2>2
  <2> QED BY <2>1, <2>3
<1>6. b + 1 \in 1 .. r - 1 /\ 1 \in 1 .. r - 1
  BY <1>4
<1>7. (-(b + 1)) % r = r - (b + 1) /\ (-1) % r = r - 1
  BY <1>5, <1>6
<1>8. r - (b + 1) \notin {0, 1} /\ r - 1 # 0
  BY <1>4
<1> QED BY <1>2, <1>3, <1>7, <1>8 DEF Point

LEMMA NoWrap ==
  ASSUME ~RotationsWrap, NEW type, type \in {"advice", "fixed"}, NEW qs, qs = vk.queries[type],
         NEW k, k \in DOMAIN qs, NEW l, l \in DOMAIN qs, qs[k][2] = qs[l][2], Point(qs[k][3]) = Point(qs[l][3])
  PROVE  k = l
BY DEF RotationsWrap

LEMMA AdvicePart == ASSUME input \in Inputs, ~RotationsWrap, NEW i PROVE Part(AdviceOpens(i), i, {"advice"})
<1>1. PICK qs : qs = vk.queries["advice"]
  OBVIOUS
<1>2. PICK n : n \in Nat /\ DOMAIN qs = 1 .. n
  BY <1>1, TheKey, ListDomain
<1>3. PICK fs : fs = AdviceOpens(i)
  OBVIOUS
<1>4. fs = [k \in 1 .. n |-> Query(AdvicePoly(i, qs[k][2]), qs[k][3])]
  BY <1>1, <1>2, <1>3 DEF AdviceOpens
<1>5. ASSUME NEW k \in 1 .. n
      PROVE  /\ Label(fs[k], "kind") = "advice" /\ Label(fs[k], "circuit") = i
             /\ Label(fs[k], "place") = qs[k][2] /\ Label(fs[k], "row") = Point(qs[k][3])
  <2>1. PICK p : p = AdvicePoly(i, qs[k][2])
    OBVIOUS
  <2>2. p.of = "advice" /\ p.i = i /\ p.j = qs[k][2]
    BY <2>1 DEF AdvicePoly, Element
  <2>3. fs[k] = Query(p, qs[k][3])
    BY <1>4, <2>1
  <2> QED BY <2>2, <2>3, QueryLabels
<1>6. ASSUME NEW k \in 1 .. n, NEW l \in 1 .. n, qs[k][2] = qs[l][2], Point(qs[k][3]) = Point(qs[l][3]) PROVE k = l
  BY <1>1, <1>2, <1>6, NoWrap
<1>7. fs = [k \in 1 .. n |-> fs[k]]
  BY <1>4
<1>8. OneEach(fs, n, i, "advice")
  BY <1>2, <1>5, <1>6, <1>7 DEF OneEach
<1>9. Part(fs, i, {"advice"})
  BY <1>8, PartOf
<1> QED BY <1>3, <1>9

LEMMA FixedPart == ASSUME input \in Inputs, ~RotationsWrap PROVE Part(FixedOpens, 0, {"fixed"})
<1>1. PICK qs : qs = vk.queries["fixed"]
  OBVIOUS
<1>2. PICK n : n \in Nat /\ DOMAIN qs = 1 .. n
  BY <1>1, TheKey, ListDomain
<1>3. PICK fs : fs = FixedOpens
  OBVIOUS
<1>4. fs = [k \in 1 .. n |-> Query(Pt("fixed", 0, qs[k][2]), qs[k][3])]
  BY <1>1, <1>2, <1>3 DEF FixedOpens
<1>5. ASSUME NEW k \in 1 .. n
      PROVE  /\ Label(fs[k], "kind") = "fixed" /\ Label(fs[k], "circuit") = 0
             /\ Label(fs[k], "place") = qs[k][2] /\ Label(fs[k], "row") = Point(qs[k][3])
  <2>1. PICK p : p = Pt("fixed", 0, qs[k][2])
    OBVIOUS
  <2>2. p.of = "fixed" /\ p.i = 0 /\ p.j = qs[k][2]
    BY <2>1, PtLabels
  <2>3. fs[k] = Query(p, qs[k][3])
    BY <1>4, <2>1
  <2> QED BY <2>2, <2>3, QueryLabels
<1>6. ASSUME NEW k \in 1 .. n, NEW l \in 1 .. n, qs[k][2] = qs[l][2], Point(qs[k][3]) = Point(qs[l][3]) PROVE k = l
  BY <1>1, <1>2, <1>6, NoWrap
<1>7. fs = [k \in 1 .. n |-> fs[k]]
  BY <1>4
<1>8. OneEach(fs, n, 0, "fixed")
  BY <1>2, <1>5, <1>6, <1>7 DEF OneEach
<1>9. Part(fs, 0, {"fixed"})
  BY <1>8, PartOf
<1> QED BY <1>3, <1>9

LEMMA SigmaPart == ASSUME input \in Inputs PROVE Part(SigmaOpens, 0, {"sigma"})
<1>1. PICK n : n \in Nat /\ DOMAIN c.perm = 1 .. n
  BY TheLists
<1>2. PICK fs : fs = SigmaOpens
  OBVIOUS
<1>3. fs = [k \in 1 .. n |-> Query(Pt("sigma", 0, k), 0)]
  BY <1>1, <1>2 DEF SigmaOpens
<1>4. ASSUME NEW k \in 1 .. n
      PROVE  Label(fs[k], "kind") = "sigma" /\ Label(fs[k], "circuit") = 0 /\ Label(fs[k], "place") = k
  BY <1>3, PtLabels, QueryLabels
<1>5. fs = [k \in 1 .. n |-> fs[k]]
  BY <1>3
<1>6. OneEach(fs, n, 0, "sigma")
  BY <1>1, <1>4, <1>5 DEF OneEach
<1>7. Part(fs, 0, {"sigma"})
  BY <1>6, PartOf
<1> QED BY <1>2, <1>7

LEMMA VanishingPart == Part(VanishingOpens, 0, {"h", "random"})
<1>1. PICK a, b : a = Query(Pt("h", 0, 0), 0) /\ b = Query(Pt("random", 0, 0), 0)
  OBVIOUS
<1>2. Label(a, "kind") = "h" /\ Label(a, "circuit") = 0 /\ Label(b, "kind") = "random" /\ Label(b, "circuit") = 0
  BY <1>1, PtLabels, QueryLabels
<1>3. Distinct(<<a, b>>)
  BY <1>2, DistinctTwo
<1>4. LabelsIn(<<a, b>>, "kind", {"h", "random"}) /\ LabelsIn(<<a, b>>, "circuit", {0})
  BY <1>2, LabelledTwo
<1> QED BY <1>1, <1>3, <1>4 DEF VanishingOpens, Part

(* A polynomial at x and at omega x. *)
LEMMA PairPart ==
  ASSUME input \in Inputs, NEW of, NEW i, NEW k
  PROVE  LET t == <<Query(Pt(of, i, k), 0), Query(Pt(of, i, k), 1)>> IN
           OfPlace(t, i, {of}, k) /\ LabelsIn(t, "row", {0, 1})
<1>1. PICK a, b : a = Query(Pt(of, i, k), 0) /\ b = Query(Pt(of, i, k), 1)
  OBVIOUS
<1>2. /\ Label(a, "kind") = of /\ Label(a, "circuit") = i /\ Label(a, "place") = k /\ Label(a, "row") = 0
      /\ Label(b, "kind") = of /\ Label(b, "circuit") = i /\ Label(b, "place") = k /\ Label(b, "row") = 1
  BY <1>1, PtLabels, QueryLabels, FirstRows
<1>3. a # b
  BY <1>2
<1>4. Distinct(<<a, b>>)
  BY <1>3, DistinctTwo
<1>5. /\ LabelsIn(<<a, b>>, "kind", {of}) /\ LabelsIn(<<a, b>>, "circuit", {i})
      /\ LabelsIn(<<a, b>>, "place", {k}) /\ LabelsIn(<<a, b>>, "row", {0, 1})
  BY <1>2, LabelledTwo
<1> QED BY <1>1, <1>4, <1>5 DEF OfPlace, Part

LEMMA ShufflePart == ASSUME input \in Inputs, NEW i PROVE Part(ShuffleOpens(i), i, {"shuffle"})
<1>1. PICK n \in Nat : DOMAIN c.shuffles = 1 .. n
  BY TheLists
<1>2. PICK fs : fs = [s \in 1 .. n |-> <<Query(Pt("shuffle", i, s), 0), Query(Pt("shuffle", i, s), 1)>>]
  OBVIOUS
<1>3. ShuffleOpens(i) = FlattenSeq(fs)
  BY <1>1, <1>2 DEF ShuffleOpens, ForEach
<1>4. fs = [k \in 1 .. n |-> fs[k]]
  BY <1>2
<1>5. ASSUME NEW k \in 1 .. n PROVE OfPlace(fs[k], i, {"shuffle"}, k)
  BY <1>2, PairPart
<1> QED BY <1>3, <1>4, <1>5, PartFlatten

LEMMA PermutationPart ==
  ASSUME input \in Inputs, NEW i PROVE Part(PermutationOpens(i), i, {"permutation"})
<1>1. PICK n \in Nat : n = vk.sets
  BY TheKey
<1>2. PICK b \in Nat : AllButLast = 1 .. b
  BY AllButLastIs
<1>3. PICK fs : fs = [s \in 1 .. n |-> <<Query(Pt("permutation", i, s), 0), Query(Pt("permutation", i, s), 1)>>]
  OBVIOUS
<1>4. PICK us, last : /\ us = [k \in AllButLast |-> Query(Pt("permutation", i, n - k), last)]
                      /\ last = -(vk.blinding + 1)
  OBVIOUS
<1>5. PICK t : t = FlattenSeq(fs)
  OBVIOUS
<1>6. PermutationOpens(i) = t \o us
  BY <1>1, <1>3, <1>4, <1>5 DEF PermutationOpens, ForEach
<1>7. fs = [k \in 1 .. n |-> fs[k]]
  BY <1>3
<1>8. ASSUME NEW k \in 1 .. n
      PROVE  OfPlace(fs[k], i, {"permutation"}, k) /\ LabelsIn(fs[k], "row", {0, 1})
  BY <1>3, PairPart
<1>9. Part(t, i, {"permutation"})
  BY <1>5, <1>7, <1>8, PartFlatten
<1>10. LabelsIn(t, "row", {0, 1})
  BY <1>5, <1>7, <1>8, LabelledFlatten
<1>11. us = [k \in 1 .. b |-> us[k]]
  BY <1>2, <1>4
<1>12. ASSUME NEW k \in 1 .. b
       PROVE  /\ Label(us[k], "kind") = "permutation" /\ Label(us[k], "circuit") = i
              /\ Label(us[k], "place") = n - k /\ Label(us[k], "row") = Point(last)
  <2>1. us[k] = Query(Pt("permutation", i, n - k), last)
    BY <1>2, <1>4
  <2> QED BY <2>1, PtLabels, QueryLabels
<1>13. \A k, l \in 1 .. b : n - k = n - l => k = l
  OBVIOUS
<1>14. OneEach(us, b, i, "permutation")
  BY <1>11, <1>12, <1>13 DEF OneEach
<1>15. Part(us, i, {"permutation"})
  BY <1>14, PartOf
<1>16. LabelsIn(us, "row", {Point(last)})
  <2>1. \A k \in 1 .. b : Label(us[k], "row") \in {Point(last)}
    BY <1>12
  <2> QED BY <1>11, <2>1, LabelledOf
<1>17. {0, 1} \cap {Point(last)} = {}
  BY <1>4, LastRows
<1>18. NoneShared(t, us)
  BY <1>10, <1>16, <1>17, LabelsApart
<1>19. Distinct(t \o us)
  BY <1>9, <1>15, <1>18, DistinctConcat DEF Part
<1>20. LabelsIn(t \o us, "kind", {"permutation"})
  BY <1>9, <1>15, LabelledConcat DEF Part
<1>21. LabelsIn(t \o us, "circuit", {i})
  BY <1>9, <1>15, LabelledConcat DEF Part
<1> QED BY <1>6, <1>19, <1>20, <1>21 DEF Part

LookupKinds == {"lookup product", "lookup input", "lookup table"}

Described(q, of, i, j, row) ==
  Label(q, "kind") = of /\ Label(q, "circuit") = i /\ Label(q, "place") = j /\ Label(q, "row") = row

LEMMA Describes ==
  ASSUME NEW of, NEW i, NEW j, NEW r PROVE Described(Query(Pt(of, i, j), r), of, i, j, Point(r))
BY PtLabels, QueryLabels DEF Described

(* What one lookup opens. *)
LEMMA LookupItems ==
  ASSUME input \in Inputs, NEW i, NEW l
  PROVE  OfPlace(<<Query(Pt("lookup product", i, l), 0), Query(Pt("lookup input", i, l), 0),
                   Query(Pt("lookup table", i, l), 0), Query(Pt("lookup input", i, l), -1),
                   Query(Pt("lookup product", i, l), 1)>>, i, LookupKinds, l)
<1>0. PICK a, b, d, e, f :
        /\ a = Query(Pt("lookup product", i, l), 0) /\ b = Query(Pt("lookup input", i, l), 0)
        /\ d = Query(Pt("lookup table", i, l), 0) /\ e = Query(Pt("lookup input", i, l), -1)
        /\ f = Query(Pt("lookup product", i, l), 1)
  OBVIOUS
<1>1. PICK s : s = <<a, b, d, e, f>>
  OBVIOUS
<1>2. PICK n \in Nat : n = 5
  OBVIOUS
<1>3. s = [k \in 1 .. n |-> s[k]]
  BY <1>1, <1>2
<1>4. s[1] = a /\ s[2] = b /\ s[3] = d /\ s[4] = e /\ s[5] = f
  BY <1>1
<1>5. PICK x, y, back : x = Point(0) /\ y = Point(1) /\ back = Point(-1)
  OBVIOUS
<1>6. x = 0 /\ y = 1 /\ back # 0
  BY <1>5, FirstRows, LastRows
<1>7. Described(s[1], "lookup product", i, l, x) /\ Described(s[2], "lookup input", i, l, x)
  BY <1>0, <1>4, <1>5, Describes
<1>8. Described(s[3], "lookup table", i, l, x) /\ Described(s[4], "lookup input", i, l, back)
  BY <1>0, <1>4, <1>5, Describes
<1>9. Described(s[5], "lookup product", i, l, y)
  BY <1>0, <1>4, <1>5, Describes
<1>10. \A k \in 1 .. n : k = 1 \/ k = 2 \/ k = 3 \/ k = 4 \/ k = 5
  BY <1>2
<1>11. ASSUME NEW k \in 1 .. n
       PROVE  /\ Label(s[k], "kind") \in LookupKinds
              /\ Label(s[k], "circuit") \in {i} /\ Label(s[k], "place") \in {l}
  <2>1. PICK of, row : Described(s[k], of, i, l, row) /\ of \in LookupKinds
    BY <1>7, <1>8, <1>9, <1>10 DEF LookupKinds
  <2> QED BY <2>1 DEF Described
<1>12. /\ Label(s[1], "kind") = "lookup product" /\ Label(s[1], "row") = 0
       /\ Label(s[2], "kind") = "lookup input" /\ Label(s[2], "row") = 0
       /\ Label(s[3], "kind") = "lookup table" /\ Label(s[3], "row") = 0
       /\ Label(s[4], "kind") = "lookup input" /\ Label(s[4], "row") = back
       /\ Label(s[5], "kind") = "lookup product" /\ Label(s[5], "row") = 1
  BY <1>6, <1>7, <1>8, <1>9 DEF Described
<1>13. ASSUME NEW k \in 1 .. n, NEW j \in 1 .. n,
              Label(s[k], "kind") = Label(s[j], "kind"), Label(s[k], "row") = Label(s[j], "row")
       PROVE  k = j
  BY <1>6, <1>10, <1>12, <1>13
<1>14. \A k, j \in 1 .. n : s[k] = s[j] => k = j
  BY <1>13
<1>15. Distinct(s)
  BY <1>3, <1>14, DistinctOf
<1>16. LabelsIn(s, "kind", LookupKinds)
  BY <1>3, <1>11, LabelledOf
<1>17. LabelsIn(s, "circuit", {i})
  BY <1>3, <1>11, LabelledOf
<1>18. LabelsIn(s, "place", {l})
  BY <1>3, <1>11, LabelledOf
<1> QED BY <1>0, <1>1, <1>15, <1>16, <1>17, <1>18 DEF OfPlace, Part

LEMMA LookupPart == ASSUME input \in Inputs, NEW i PROVE Part(LookupOpens(i), i, LookupKinds)
<1>1. PICK n \in Nat : DOMAIN c.lookups = 1 .. n
  BY TheLists
<1>2. PICK fs : fs = [l \in 1 .. n |->
                        <<Query(Pt("lookup product", i, l), 0), Query(Pt("lookup input", i, l), 0),
                          Query(Pt("lookup table", i, l), 0), Query(Pt("lookup input", i, l), -1),
                          Query(Pt("lookup product", i, l), 1)>>]
  OBVIOUS
<1>3. LookupOpens(i) = FlattenSeq(fs)
  BY <1>1, <1>2 DEF LookupOpens, ForEach
<1>4. fs = [k \in 1 .. n |-> fs[k]]
  BY <1>2
<1>5. ASSUME NEW k \in 1 .. n PROVE OfPlace(fs[k], i, LookupKinds, k)
  BY <1>2, LookupItems
<1> QED BY <1>3, <1>4, <1>5, PartFlatten

CircuitKinds == (({"advice"} \cup {"permutation"}) \cup LookupKinds) \cup {"shuffle"}

LEMMA CircuitPart ==
  ASSUME input \in Inputs, ~RotationsWrap, NEW i
  PROVE  Part(((AdviceOpens(i) \o PermutationOpens(i)) \o LookupOpens(i)) \o ShuffleOpens(i), i, CircuitKinds)
<1>1. PICK a, p, l, s : a = AdviceOpens(i) /\ p = PermutationOpens(i) /\ l = LookupOpens(i) /\ s = ShuffleOpens(i)
  OBVIOUS
<1>2. Part(a, i, {"advice"}) /\ Part(p, i, {"permutation"}) /\ Part(l, i, LookupKinds) /\ Part(s, i, {"shuffle"})
  BY <1>1, AdvicePart, PermutationPart, LookupPart, ShufflePart
<1>3. PICK K, L : K = {"advice"} \cup {"permutation"} /\ L = K \cup LookupKinds
  OBVIOUS
<1>4. {"advice"} \cap {"permutation"} = {} /\ K \cap LookupKinds = {} /\ L \cap {"shuffle"} = {}
  BY <1>3 DEF LookupKinds
<1>5. Part(a \o p, i, K)
  BY <1>2, <1>3, <1>4, PartConcat
<1>6. Part((a \o p) \o l, i, L)
  BY <1>2, <1>3, <1>4, <1>5, PartConcat
<1>7. Part(((a \o p) \o l) \o s, i, L \cup {"shuffle"})
  BY <1>2, <1>4, <1>6, PartConcat
<1> QED BY <1>1, <1>3, <1>7 DEF CircuitKinds

LEMMA QueriesDistinct == ASSUME input \in Inputs, ~RotationsWrap PROVE Distinct(ProverQueries)
<1>1. PICK gs :
        gs = [i \in Proofs |-> ((AdviceOpens(i) \o PermutationOpens(i)) \o LookupOpens(i)) \o ShuffleOpens(i)]
  OBVIOUS
<1>2. PICK t : t = FlattenSeq(gs)
  OBVIOUS
<1>3. ProverQueries = ((t \o FixedOpens) \o SigmaOpens) \o VanishingOpens
  BY <1>1, <1>2 DEF ProverQueries, ForEachCircuit, ForEach, AdviceOpens, FixedOpens
<1>4. PICK m \in Nat : Proofs = 1 .. m
  BY TheCircuit
<1>5. gs = [i \in 1 .. m |-> gs[i]]
  BY <1>1, <1>4
<1>6. ASSUME NEW i \in 1 .. m
      PROVE  Distinct(gs[i]) /\ LabelsIn(gs[i], "kind", CircuitKinds) /\ LabelsIn(gs[i], "circuit", {i})
  <2>1. Part(gs[i], i, CircuitKinds)
    BY <1>1, <1>4, CircuitPart
  <2> QED BY <2>1 DEF Part
<1>7. ASSUME NEW i \in 1 .. m, NEW j \in 1 .. m, i # j PROVE NoneShared(gs[i], gs[j])
  <2>1. {i} \cap {j} = {}
    BY <1>7
  <2> QED BY <1>6, <2>1, LabelsApart
<1>8. Distinct(t)
  BY <1>2, <1>5, <1>6, <1>7, DistinctFlatten
<1>9. LabelsIn(t, "kind", CircuitKinds)
  BY <1>2, <1>5, <1>6, LabelledFlatten
<1>10. /\ OfKinds(t, CircuitKinds) /\ OfKinds(FixedOpens, {"fixed"}) /\ OfKinds(SigmaOpens, {"sigma"})
       /\ OfKinds(VanishingOpens, {"h", "random"})
  BY <1>8, <1>9, FixedPart, SigmaPart, VanishingPart DEF OfKinds, Part
<1>11. PICK K, L : K = CircuitKinds \cup {"fixed"} /\ L = K \cup {"sigma"}
  OBVIOUS
<1>12. CircuitKinds \cap {"fixed"} = {} /\ K \cap {"sigma"} = {} /\ L \cap {"h", "random"} = {}
  BY <1>11 DEF CircuitKinds, LookupKinds
<1>13. OfKinds(t \o FixedOpens, K)
  BY <1>10, <1>11, <1>12, KindsConcat
<1>14. OfKinds((t \o FixedOpens) \o SigmaOpens, L)
  BY <1>10, <1>11, <1>12, <1>13, KindsConcat
<1>15. OfKinds(((t \o FixedOpens) \o SigmaOpens) \o VanishingOpens, L \cup {"h", "random"})
  BY <1>10, <1>12, <1>14, KindsConcat
<1> QED BY <1>3, <1>15 DEF OfKinds

-----------------------------------------------------------------------------
(* A proof comes out of an opening that was not refused, and of nothing     *)
(* else.                                                                   *)
WasOpened == pc = "proved" => Openable(ProverQueries)

LEMMA OnlyOpening == ASSUME Caller \/ Prover, pc' = "proved" PROVE CreateProof
<1>1. ASSUME NEW from, NEW to, NEW asked, to # "proved", Write(from, to, asked) PROVE FALSE
  BY <1>1 DEF Write
<1>2. ASSUME Fail PROVE FALSE
  BY <1>2 DEF Fail
<1>3. CASE Caller
  <2>1. CASE New \/ CommitPhase
    BY <2>1 DEF New, CommitPhase
  <2>2. CASE NewError \/ MissingChallenges \/ NotInTable
    BY <1>2, <2>2 DEF NewError, MissingChallenges, NotInTable
  <2>3. CASE GenPermutedLookups
    BY <1>1, <2>3 DEF GenPermutedLookups
  <2>4. ASSUME NEW i \in Proofs, NEW col \in DOMAIN c.adv, TornCommitPhase(i, col) PROVE FALSE
    BY <2>4 DEF TornCommitPhase
  <2> QED BY <1>3, <2>1, <2>2, <2>3, <2>4 DEF Caller
<1>4. CASE Prover
  <2>1. CASE GenCommittedPermutationPolys
    <3>1. \E asked : Write("permutations", "lookup products", asked)
      BY <2>1 DEF GenCommittedPermutationPolys
    <3> QED BY <1>1, <3>1
  <2>2. CASE GenCommittedLookupsPolys
    BY <1>1, <2>2 DEF GenCommittedLookupsPolys
  <2>3. CASE GenCommittedShuffles
    BY <1>1, <2>3 DEF GenCommittedShuffles
  <2>4. CASE GenCommittedVanishing
    BY <1>1, <2>4 DEF GenCommittedVanishing
  <2>5. CASE GenConstructedVanishing
    <3>1. \E asked : Write("h", "advice evals", asked)
      BY <2>5 DEF GenConstructedVanishing
    <3> QED BY <1>1, <3>1
  <2>6. CASE WriteAdviceEvals
    <3>1. \E asked : Write("advice evals", "fixed evals", asked)
      BY <2>6 DEF WriteAdviceEvals
    <3> QED BY <1>1, <3>1
  <2>7. CASE WriteFixedEvals
    <3>1. \E asked : Write("fixed evals", "permutation evals", asked)
      BY <2>7 DEF WriteFixedEvals
    <3> QED BY <1>1, <3>1
  <2>8. CASE EvaluatePermutations
    BY <1>1, <2>8 DEF EvaluatePermutations
  <2>9. CASE EvaluateLookups
    BY <1>1, <2>9 DEF EvaluateLookups
  <2>10. CASE EvaluateShuffles
    BY <1>1, <2>10 DEF EvaluateShuffles
  <2>11. CASE GenAdvicePolys
    BY <2>11 DEF GenAdvicePolys
  <2>12. CASE MissingAdvice \/ IdentityPoint \/ OpeningError
    BY <1>2, <2>12 DEF MissingAdvice, IdentityPoint, OpeningError
  <2> QED BY <1>4, <2>1, <2>2, <2>3, <2>4, <2>5, <2>6, <2>7, <2>8, <2>9, <2>10, <2>11, <2>12 DEF Prover
<1> QED BY <1>3, <1>4

LEMMA SameQueries ==
  ASSUME UNCHANGED <<input, advices>> PROVE Openable(ProverQueries)' <=> Openable(ProverQueries)
<1>1. c' = c /\ vk' = vk /\ Proofs' = Proofs
  BY SameSession
<1>2. ProverQueries' = ProverQueries
  BY <1>1 DEF ProverQueries, ForEachCircuit, ForEach, Query, AdvicePoly, PermutationOpens, LookupOpens, ShuffleOpens,
     SigmaOpens, VanishingOpens, AllButLast, Point
<1>3. PICK t : t = ProverQueries
  OBVIOUS
<1>4. ProverQueries' = t
  BY <1>2, <1>3
<1> QED BY <1>3, <1>4 DEF Openable

(* Only the caller and the prover change what the session has, and they do  *)
(* nothing once there is a proof.                                          *)
LEMMA OpenedStays == ASSUME Hears, WasOpened, [Next]_vars PROVE WasOpened'
<1>1. CASE Caller \/ Prover
  <2>1. ASSUME pc' = "proved" PROVE Openable(ProverQueries)'
    <3>1. CreateProof
      BY <1>1, <2>1, OnlyOpening
    <3>2. Openable(ProverQueries) /\ UNCHANGED <<input, advices>>
      <4>1. PICK t : t = ProverQueries
        OBVIOUS
      <4>2. Openable(t) /\ UNCHANGED <<input, advices>>
        BY <3>1, <4>1 DEF CreateProof, Write
      <4> QED BY <4>1, <4>2
    <3> QED BY <3>2, SameQueries
  <2> QED BY <2>1 DEF WasOpened
<1>2. CASE UNCHANGED <<input, advices, pc>>
  BY <1>2, SameQueries DEF WasOpened
<1>3. CASE Channel
  <2>1. ASSUME NEW elements, NEW version, Carry(elements, version) PROVE UNCHANGED <<input, advices, pc>>
    BY <2>1 DEF Carry, proverVars
  <2>2. UNCHANGED <<input, advices, pc>>
    BY <1>3, <2>1 DEF Channel, Deliver, Extend, Misinform, Cut, Change
  <2> QED BY <1>2, <2>2
<1>4. CASE Verifier
  <2>1. UNCHANGED <<input, advices, pc>>
    BY <1>4 DEF Verifier, ReadInstances, ReadPhases, ReadLookups, ReadProducts, ReadVanishing, ReadColumnEvals,
       ReadArgumentEvals, ReadOpening, Check, Read, Return, proverVars
  <2> QED BY <1>2, <2>1
<1>5. CASE UNCHANGED vars
  BY <1>2, <1>5 DEF vars, proverVars
<1> QED BY <1>1, <1>3, <1>4, <1>5 DEF Next

(* What the prover's opening did not refuse, the verifier's does not: in an *)
(* honest session it is asked the same.                                    *)
LEMMA AskedTheSame ==
  ASSUME Exchange, Honest, vpc = "open" PROVE Asked(Claims) = ProverQueries
<1>1. input \in Inputs /\ Supplied
  BY AllSupplied DEF Exchange, Sound, Agree, Inv, ProverInv, ProverTypes
<1>2. Answers(Claims, ProverQueries)
  BY <1>1, ClaimsAnswer
<1> QED BY <1>2, AnswersAsk

LEMMA OpeningGoes ==
  ASSUME Exchange, WasOpened PROVE OpeningFailsOnlyOnWrap
<1>1. ASSUME pc = "open", ~Openable(ProverQueries) PROVE RotationsWrap
  <2>1. input \in Inputs
    BY DEF Exchange, Sound, Agree, Inv, ProverInv, ProverTypes
  <2>2. ASSUME ~RotationsWrap PROVE FALSE
    <3>1. Distinct(ProverQueries)
      BY <2>1, <2>2, QueriesDistinct
    <3> QED BY <1>1, <3>1, DistinctOpens
  <2> QED BY <2>2
<1>2. ASSUME vpc = "open", Honest PROVE Openable(Asked(Claims))
  <2>1. Openable(ProverQueries)
    BY <1>2 DEF Exchange, Sound, Agree, Hears, WasOpened
  <2>2. Asked(Claims) = ProverQueries
    BY <1>2, AskedTheSame
  <2> QED BY <2>1, <2>2
<1> QED BY <1>1, <1>2 DEF OpeningFailsOnlyOnWrap

(* The multi-open finds a polynomial queried twice at one point only in a   *)
(* circuit two of whose rotations meet modulo the number of rows, and never *)
(* at the verifier of an honest session, whatever the circuit, the number  *)
(* of rows and the scheme: no argument's own queries ever meet.            *)
THEOREM OpeningSucceeds == Spec => []OpeningFailsOnlyOnWrap
<1>1. Init => WasOpened
  BY DEF Init, WasOpened
<1>2. Exchange /\ WasOpened /\ [Next]_vars => WasOpened'
  BY OpenedStays DEF Exchange, Sound, Agree
<1>3. Exchange /\ WasOpened => OpeningFailsOnlyOnWrap
  BY OpeningGoes
<1> QED BY <1>1, <1>2, <1>3, ExchangeHolds, PTL DEF Spec
=============================================================================
