---------------------------- MODULE CompilerProof ----------------------------
(***************************************************************************)
(* What keygen compiles says what the circuit said: the expressions, for   *)
(* every field, table and sequence of gates (GraphIsExact), and the copies, *)
(* for every set of cells and list of copies (CyclesCorrect).              *)
(*                                                                         *)
(* Expressions.  The inductive invariant: the value recorded with a        *)
(* calculation is what it makes of the values of its sources, all of them  *)
(* older (Faithful); every source that is held somewhere is worth the      *)
(* value held next to it; the last calculation is the one the caller       *)
(* means; and the intermediates computed so far for a row are the recorded *)
(* values.                                                                 *)
(*                                                                         *)
(* Copies.  Every class of the copies made so far is one cycle: the        *)
(* mapping does not leave it, nor any less of it.  While one class takes   *)
(* another in, what is relabelled is a walk that begins at the old label.  *)
(***************************************************************************)
EXTENDS Graph, CopyConstraints, CommonLemmas, FiniteSetTheorems

Ops1 == {"add", "sub", "mul", "square", "double", "negate", "store"}
Meanings == [value : Values, sums : Seq(Values)]

(* The values over an explicit graph: constants cs, rotations rs, meanings ms. *)
Worth(cs, rs, ms, s, line) ==
  Get(s, line, cs, rs, [j \in 1 .. Len(ms) |-> ms[j].value[line]])

(* s refers to something: to one of the first n calculations, if it does so. *)
Defined(cs, rs, n, s) ==
  /\ s \in SourceSet
  /\ s.kind = "constant"     => s.index \in 1 .. Len(cs)
  /\ s.kind = "intermediate" => s.index \in 1 .. n
  /\ s.kind \in ColumnTypes  => <<s.kind, s.index>> \in Columns /\ s.rotation \in 1 .. Len(rs)
  /\ s.kind = "challenge"    => s.index \in 1 .. Len(Challenges)

DefinedAll(cs, rs, n, list) == \A i \in 1 .. Len(list) : Defined(cs, rs, n, list[i])

Denotes(cs, rs, ms, s, value) ==
  /\ Defined(cs, rs, Len(ms), s)
  /\ \A line \in Lines : Worth(cs, rs, ms, s, line) = value[line]

(* The partial sums of Horner's rule. *)
Sums(cs, rs, ms, sums, first, list, by) ==
  /\ Len(sums) = Len(list) + 1
  /\ \A line \in Lines :
       /\ sums[1][line] = Worth(cs, rs, ms, first, line)
       /\ \A i \in 1 .. Len(list) :
            sums[i + 1][line] = Plus(Times(sums[i][line], Worth(cs, rs, ms, by, line)),
                                     Worth(cs, rs, ms, list[i], line))

(* mean is what calculation c says. *)
Means(cs, rs, ms, c, mean) ==
  /\ c.op # "horner" =>
       \A line \in Lines : mean.value[line] =
         Apply2(c.op, Worth(cs, rs, ms, c.a, line), Worth(cs, rs, ms, c.b, line))
  /\ c.op = "horner" =>
       /\ Sums(cs, rs, ms, mean.sums, c.a, c.parts, c.b)
       /\ mean.value = mean.sums[Len(c.parts) + 1]

DefinedCalc(cs, rs, n, c) ==
  Defined(cs, rs, n, c.a) /\ Defined(cs, rs, n, c.b) /\ DefinedAll(cs, rs, n, c.parts)

GraphTypes(cs, rs, calcs, ms) ==
  /\ cs \in Seq(F) /\ rs \in Seq(Int) /\ calcs \in Seq(CalcSet) /\ ms \in Seq(Meanings)
  /\ Len(ms) = Len(calcs)

Faithful(cs, rs, calcs, ms) ==
  /\ GraphTypes(cs, rs, calcs, ms)
  /\ \A k \in 1 .. Len(calcs) :
       DefinedCalc(cs, rs, k - 1, calcs[k]) /\ Means(cs, rs, ms, calcs[k], ms[k])

-----------------------------------------------------------------------------
(* The three constants every graph starts with. *)
Threes(cs) == Len(cs) >= 3 /\ cs[1] = Zero /\ cs[2] = One /\ cs[3] = Two

AllDenote(cs, rs, ms, list, kinds) ==
  \A i \in 1 .. Len(list) : Denotes(cs, rs, ms, list[i].src, list[i].value) /\ list[i].src.kind \in kinds

(* Every source that is held, and the list under way. *)
Operands ==
  /\ AllDenote(constants, rotations, means, stack, {"constant", "intermediate"})
  /\ AllDenote(constants, rotations, means, held, {"intermediate"})
  /\ DefinedAll(constants, rotations, Len(means), parts)
  /\ Sums(constants, rotations, means, chain, FirstSource(use), parts, Factor)

(* No calculation of the graph mentions what the next stages add, so what  *)
(* they add is new, and the product of the two is new because the sum it   *)
(* takes is. *)
Unmentioned(kinds) ==
  \A k \in 1 .. Len(calculations) : calculations[k].a.kind \notin kinds /\ calculations[k].b.kind \notin kinds

LastHeld == held[Len(held)].src = Intermediate(Len(calculations))

Stages ==
  /\ stage = "expressions" => /\ Unmentioned({"previous", "gamma", "beta"})
                              /\ Len(held) <= 1 /\ (use # "lookup" => held = << >>)
  /\ stage = "gamma" => /\ Unmentioned({"gamma", "beta"}) /\ use # "gates"
                        /\ Len(held) = IF use = "lookup" THEN 2 ELSE 1
  /\ stage = "beta" => Unmentioned({"beta"}) /\ Len(held) = 3
  /\ stage = "product" => Len(held) = 4 /\ LastHeld
  /\ stage = "rows" => Len(held) >= 1 /\ Len(calculations) >= 1 /\ LastHeld
                       /\ Len(eval.inter) = Len(calculations)

(* The loop of evaluate. *)
Rows0 == eval.line = 0 /\ eval.at = 1 /\ eval.term = 0 /\ eval.results = << >>
RowsRight ==
  /\ eval.at \in 1 .. Len(calculations) + 1
  /\ Len(eval.results) = eval.line
  /\ eval.line < Size =>
       /\ \A j \in 1 .. eval.at - 1 : eval.inter[j] = means[j].value[eval.line]
       /\ eval.term > 0 =>
            /\ eval.at <= Len(calculations) /\ CurrentCalc.op = "horner"
            /\ eval.term <= Len(CurrentCalc.parts) + 1
            /\ eval.acc = means[eval.at].sums[eval.term][eval.line]
  /\ eval.line = Size => eval.at = 1 /\ eval.term = 0
  /\ \A k \in 1 .. Len(eval.results) : eval.results[k] = held[Len(held)].value[k - 1]

IInv ==
  /\ GraphTypeOK
  /\ Threes(constants)
  /\ Faithful(constants, rotations, calculations, means)
  /\ Operands
  /\ Stages
  /\ stage # "rows" => Rows0
  /\ stage = "rows" => RowsRight
-----------------------------------------------------------------------------
(* Lists that only grow. *)
Grows(l, m) == Len(l) <= Len(m) /\ \A i \in 1 .. Len(l) : m[i] = l[i]

(* With and Position: what is looked up is found. *)
LEMMA WithGrows ==
  ASSUME NEW S, NEW list \in Seq(S), NEW x \in S
  PROVE  /\ With(list, x) \in Seq(S) /\ Grows(list, With(list, x))
         /\ Position(With(list, x), x) \in 1 .. Len(With(list, x))
         /\ With(list, x)[Position(With(list, x), x)] = x
         /\ Holds(list, x) => With(list, x) = list
         /\ ~ Holds(list, x) => /\ With(list, x) = Append(list, x)
                                /\ Position(With(list, x), x) = Len(list) + 1
<1>1. CASE Holds(list, x)
  <2>1. With(list, x) = list
    BY <1>1 DEF With
  <2>2. \E i \in 1 .. Len(list) : list[i] = x
    BY <1>1 DEF Holds
  <2>3. Position(list, x) \in 1 .. Len(list) /\ list[Position(list, x)] = x
    BY <2>2 DEF Position
  <2> QED BY <1>1, <2>1, <2>3 DEF Grows
<1>2. CASE ~ Holds(list, x)
  <2>1. With(list, x) = Append(list, x)
    BY <1>2 DEF With
  <2>2. /\ Append(list, x) \in Seq(S) /\ Len(Append(list, x)) = Len(list) + 1
        /\ Append(list, x)[Len(list) + 1] = x
        /\ \A i \in 1 .. Len(list) : Append(list, x)[i] = list[i]
    OBVIOUS
  <2>3. \A i \in 1 .. Len(list) + 1 : Append(list, x)[i] = x => i = Len(list) + 1
    BY <1>2, <2>2 DEF Holds
  <2>4. Position(Append(list, x), x) = Len(list) + 1
    <3>1. \E i \in 1 .. Len(Append(list, x)) : Append(list, x)[i] = x
      BY <2>2
    <3> QED BY <2>2, <2>3, <3>1 DEF Position
  <2> QED BY <1>2, <2>1, <2>2, <2>4 DEF Grows
<1> QED BY <1>1, <1>2

(* The cases of ValueSource::get and Calculation::evaluate, one by one. *)
LEMMA WorthCases ==
  ASSUME NEW cs, NEW rs, NEW ms, NEW s, NEW line
  PROVE  /\ s.kind = "constant"     => Worth(cs, rs, ms, s, line) = cs[s.index]
         /\ s.kind \in ColumnTypes  =>
              Worth(cs, rs, ms, s, line) = Cell(s.kind, s.index, line, rs[s.rotation])
         /\ s.kind = "challenge"    => Worth(cs, rs, ms, s, line) = Challenges[s.index]
         /\ s.kind = "beta"         => Worth(cs, rs, ms, s, line) = Beta
         /\ s.kind = "gamma"        => Worth(cs, rs, ms, s, line) = Gamma
         /\ s.kind = "theta"        => Worth(cs, rs, ms, s, line) = Theta
         /\ s.kind = "y"            => Worth(cs, rs, ms, s, line) = Y
         /\ s.kind = "previous"     => Worth(cs, rs, ms, s, line) = Previous[line]
  BY Zenon DEF Worth, Get, ColumnTypes

LEMMA WorthIntermediate ==
  ASSUME NEW cs, NEW rs, NEW ms, NEW s, NEW line,
         s.kind = "intermediate", s.index \in 1 .. Len(ms)
  PROVE  Worth(cs, rs, ms, s, line) = ms[s.index].value[line]
<1> DEFINE inter == [j \in 1 .. Len(ms) |-> ms[j].value[line]]
<1>1. inter[s.index] = ms[s.index].value[line]
  OBVIOUS
<1>2. Worth(cs, rs, ms, s, line) = inter[s.index]
  BY Zenon DEF Worth, Get, ColumnTypes
<1> HIDE DEF inter
<1> QED BY <1>1, <1>2

LEMMA Apply2Cases ==
  ASSUME NEW a, NEW b
  PROVE  /\ Apply2("add", a, b) = Plus(a, b) /\ Apply2("sub", a, b) = Plus(a, Neg(b))
         /\ Apply2("mul", a, b) = Times(a, b) /\ Apply2("square", a, b) = Times(a, a)
         /\ Apply2("double", a, b) = Plus(a, a) /\ Apply2("negate", a, b) = Neg(a)
         /\ Apply2("store", a, b) = a
  BY Zenon DEF Apply2

LEMMA RotatedLineType == ASSUME NEW line \in Lines, NEW rot \in Int PROVE RotatedLine(line, rot) \in Lines
<1>1. Size \in Nat \ {0} /\ RotScale \in Int
  BY GraphAssumption
<1>2. line + rot * RotScale \in Int
  BY <1>1 DEF Lines
<1>3. \A a \in Int, n \in Nat \ {0} : (a % n) \in 0 .. n - 1
  OBVIOUS
<1> QED BY <1>1, <1>2, <1>3 DEF RotatedLine, Lines

LEMMA Apply2Type == ASSUME NEW op \in Ops1, NEW a \in F, NEW b \in F PROVE Apply2(op, a, b) \in F
  BY FieldAssumption, Apply2Cases DEF Ops1

(* A defined source is worth an element of the field. *)
LEMMA WorthType ==
  ASSUME NEW cs \in Seq(F), NEW rs \in Seq(Int), NEW ms \in Seq(Meanings), NEW s,
         Defined(cs, rs, Len(ms), s), NEW line \in Lines
  PROVE  Worth(cs, rs, ms, s, line) \in F
<1>1. s \in SourceSet
  BY DEF Defined
<1>2. CASE s.kind = "constant"
  BY <1>2, WorthCases DEF Defined
<1>3. CASE s.kind = "intermediate"
  <2>1. ms[s.index] \in Meanings /\ s.index \in 1 .. Len(ms)
    BY <1>3 DEF Defined
  <2> QED BY <1>3, <2>1, WorthIntermediate DEF Meanings, Values
<1>4. CASE s.kind \in ColumnTypes
  <2>1. <<s.kind, s.index>> \in Columns /\ rs[s.rotation] \in Int
    BY <1>4 DEF Defined
  <2>2. RotatedLine(line, rs[s.rotation]) \in Lines
    BY <2>1, RotatedLineType
  <2>3. Cell(s.kind, s.index, line, rs[s.rotation]) \in F
    BY <2>1, <2>2, GraphAssumption DEF Cell
  <2> QED BY <1>4, <2>3, WorthCases
<1>5. CASE s.kind = "challenge"
  BY <1>5, GraphAssumption, WorthCases DEF Defined, ColumnTypes
<1>6. CASE s.kind \in {"beta", "gamma", "theta", "y", "previous"}
  BY <1>6, GraphAssumption, WorthCases DEF ColumnTypes
<1> QED BY <1>1, <1>2, <1>3, <1>4, <1>5, <1>6 DEF SourceSet

(* What a source is worth does not change when the graph grows. *)
LEMMA WorthGrows ==
  ASSUME NEW cs, NEW rs, NEW ms, NEW cs2, NEW rs2, NEW ms2,
         Grows(cs, cs2), Grows(rs, rs2), Grows(ms, ms2),
         Len(cs) \in Nat, Len(cs2) \in Nat, Len(rs) \in Nat, Len(rs2) \in Nat,
         Len(ms) \in Nat, Len(ms2) \in Nat,
         NEW n \in Nat, n <= Len(ms), NEW s, Defined(cs, rs, n, s)
  PROVE  /\ \A m \in Nat : n <= m => Defined(cs2, rs2, m, s)
         /\ \A line \in Lines : Worth(cs2, rs2, ms2, s, line) = Worth(cs, rs, ms, s, line)
<1>1. s \in SourceSet
  BY DEF Defined
<1>2. \A m \in Nat : n <= m => Defined(cs2, rs2, m, s)
  BY <1>1 DEF Defined, Grows, SourceSet
<1>3. SUFFICES ASSUME NEW line \in Lines
               PROVE  Worth(cs2, rs2, ms2, s, line) = Worth(cs, rs, ms, s, line)
  BY <1>2
<1>4. CASE s.kind = "constant"
  BY SMTT(40), <1>4, WorthCases DEF Defined, Grows
<1>5. CASE s.kind = "intermediate"
  <2>1. s.index \in 1 .. Len(ms) /\ s.index \in 1 .. Len(ms2) /\ ms2[s.index] = ms[s.index]
    <3>1. s.index \in 1 .. n
      BY <1>5 DEF Defined
    <3>2. Len(ms) <= Len(ms2) /\ \A i \in 1 .. Len(ms) : ms2[i] = ms[i]
      BY DEF Grows
    <3>3. s.index \in 1 .. Len(ms) /\ s.index \in 1 .. Len(ms2)
      BY <3>1, <3>2
    <3> QED BY <3>2, <3>3
  <2> QED BY <1>5, <2>1, WorthIntermediate
<1>6. CASE s.kind \in ColumnTypes
  <2>1. rs2[s.rotation] = rs[s.rotation]
    BY <1>6 DEF Defined, Grows
  <2> QED BY <1>6, <2>1, WorthCases
<1>7. CASE s.kind \in {"challenge", "beta", "gamma", "theta", "y", "previous"}
  BY <1>7, WorthCases DEF ColumnTypes
<1> QED BY <1>1, <1>4, <1>5, <1>6, <1>7 DEF SourceSet

LEMMA SumsGrow ==
  ASSUME NEW cs, NEW rs, NEW ms, NEW cs2, NEW rs2, NEW ms2,
         Grows(cs, cs2), Grows(rs, rs2), Grows(ms, ms2),
         Len(cs) \in Nat, Len(cs2) \in Nat, Len(rs) \in Nat, Len(rs2) \in Nat,
         Len(ms) \in Nat, Len(ms2) \in Nat, NEW n \in Nat, n <= Len(ms),
         NEW sums, NEW first, NEW list, NEW by, Sums(cs, rs, ms, sums, first, list, by),
         Defined(cs, rs, n, first), Defined(cs, rs, n, by), DefinedAll(cs, rs, n, list)
  PROVE  /\ Sums(cs2, rs2, ms2, sums, first, list, by)
         /\ \A m \in Nat : n <= m => DefinedAll(cs2, rs2, m, list)
<1>1. \A line \in Lines : /\ Worth(cs2, rs2, ms2, first, line) = Worth(cs, rs, ms, first, line)
                          /\ Worth(cs2, rs2, ms2, by, line) = Worth(cs, rs, ms, by, line)
  BY WorthGrows
<1>2. \A i \in 1 .. Len(list) :
        /\ \A m \in Nat : n <= m => Defined(cs2, rs2, m, list[i])
        /\ \A line \in Lines : Worth(cs2, rs2, ms2, list[i], line) = Worth(cs, rs, ms, list[i], line)
  BY WorthGrows DEF DefinedAll
<1> QED BY <1>1, <1>2 DEF Sums, DefinedAll

LEMMA MeansGrow ==
  ASSUME NEW cs, NEW rs, NEW ms, NEW cs2, NEW rs2, NEW ms2,
         Grows(cs, cs2), Grows(rs, rs2), Grows(ms, ms2),
         Len(cs) \in Nat, Len(cs2) \in Nat, Len(rs) \in Nat, Len(rs2) \in Nat,
         Len(ms) \in Nat, Len(ms2) \in Nat, NEW n \in Nat, n <= Len(ms),
         NEW c, DefinedCalc(cs, rs, n, c), NEW mean, Means(cs, rs, ms, c, mean)
  PROVE  DefinedCalc(cs2, rs2, n, c) /\ Means(cs2, rs2, ms2, c, mean)
<1>1. /\ Defined(cs2, rs2, n, c.a) /\ Defined(cs2, rs2, n, c.b)
      /\ \A line \in Lines : /\ Worth(cs2, rs2, ms2, c.a, line) = Worth(cs, rs, ms, c.a, line)
                             /\ Worth(cs2, rs2, ms2, c.b, line) = Worth(cs, rs, ms, c.b, line)
  BY WorthGrows DEF DefinedCalc
<1>2. DefinedAll(cs2, rs2, n, c.parts)
  BY WorthGrows DEF DefinedCalc, DefinedAll
<1>3. CASE c.op = "horner"
  <2>1. Sums(cs2, rs2, ms2, mean.sums, c.a, c.parts, c.b)
    BY <1>3, SumsGrow DEF DefinedCalc, Means
  <2> QED BY <1>1, <1>2, <1>3, <2>1 DEF DefinedCalc, Means
<1>4. CASE c.op # "horner"
  BY <1>1, <1>2, <1>4 DEF DefinedCalc, Means
<1> QED BY <1>3, <1>4

LEMMA GrowsLen ==
  ASSUME NEW S, NEW list \in Seq(S)
  PROVE  Len(list) \in Nat /\ Grows(list, list)
  BY DEF Grows

(* A new constant or rotation leaves the graph as it is. *)
LEMMA FaithfulGrows ==
  ASSUME NEW cs, NEW rs, NEW calcs, NEW ms, Faithful(cs, rs, calcs, ms),
         NEW cs2 \in Seq(F), NEW rs2 \in Seq(Int), Grows(cs, cs2), Grows(rs, rs2)
  PROVE  Faithful(cs2, rs2, calcs, ms)
<1>1. GraphTypes(cs, rs, calcs, ms) /\ GraphTypes(cs2, rs2, calcs, ms)
  BY DEF Faithful, GraphTypes
<1>2. /\ Len(cs) \in Nat /\ Len(cs2) \in Nat /\ Len(rs) \in Nat /\ Len(rs2) \in Nat
      /\ Len(ms) \in Nat /\ Len(calcs) = Len(ms) /\ Grows(ms, ms)
  BY <1>1, GrowsLen DEF GraphTypes
<1>3. ASSUME NEW k \in 1 .. Len(calcs)
      PROVE  DefinedCalc(cs2, rs2, k - 1, calcs[k]) /\ Means(cs2, rs2, ms, calcs[k], ms[k])
  <2>1. DefinedCalc(cs, rs, k - 1, calcs[k]) /\ Means(cs, rs, ms, calcs[k], ms[k])
    BY DEF Faithful
  <2>2. k - 1 \in Nat /\ k - 1 <= Len(ms)
    BY <1>2
  <2> QED BY <1>2, <2>1, <2>2, MeansGrow
<1> QED BY <1>1, <1>3 DEF Faithful

(* Horner's rule has one value. *)
LEMMA SumsUnique ==
  ASSUME NEW cs, NEW rs, NEW ms, NEW p, NEW q, NEW first, NEW list, NEW by, Len(list) \in Nat,
         Sums(cs, rs, ms, p, first, list, by), Sums(cs, rs, ms, q, first, list, by),
         NEW line \in Lines
  PROVE  p[Len(list) + 1][line] = q[Len(list) + 1][line]
<1> DEFINE S == {n \in Nat : n <= Len(list) => p[n + 1][line] = q[n + 1][line]}
<1>1. 0 \in S
  BY DEF Sums
<1>2. ASSUME NEW n \in Nat, n \in S PROVE n + 1 \in S
  <2>1. SUFFICES ASSUME n + 1 <= Len(list) PROVE p[n + 2][line] = q[n + 2][line]
    OBVIOUS
  <2>2. p[n + 1][line] = q[n + 1][line] /\ n + 1 \in 1 .. Len(list)
    BY <1>2, <2>1
  <2>3. /\ p[(n + 1) + 1][line] = Plus(Times(p[n + 1][line], Worth(cs, rs, ms, by, line)),
                                      Worth(cs, rs, ms, list[n + 1], line))
        /\ q[(n + 1) + 1][line] = Plus(Times(q[n + 1][line], Worth(cs, rs, ms, by, line)),
                                      Worth(cs, rs, ms, list[n + 1], line))
    BY <2>2 DEF Sums
  <2>4. (n + 1) + 1 = n + 2
    OBVIOUS
  <2> QED BY <2>2, <2>3, <2>4
<1> HIDE DEF S
<1>3. Nat \subseteq S
  BY <1>1, <1>2, SetInduction
<1> QED BY <1>3 DEF S

LEMMA MeansUnique ==
  ASSUME NEW cs, NEW rs, NEW ms, NEW c \in CalcSet, NEW m, NEW m2,
         Means(cs, rs, ms, c, m), Means(cs, rs, ms, c, m2), NEW line \in Lines
  PROVE  m.value[line] = m2.value[line]
<1>1. CASE c.op = "horner"
  <2>1. Len(c.parts) \in Nat
    BY DEF CalcSet
  <2>2. Sums(cs, rs, ms, m.sums, c.a, c.parts, c.b) /\ m.value = m.sums[Len(c.parts) + 1]
    BY <1>1 DEF Means
  <2>3. Sums(cs, rs, ms, m2.sums, c.a, c.parts, c.b) /\ m2.value = m2.sums[Len(c.parts) + 1]
    BY <1>1 DEF Means
  <2> QED BY <2>1, <2>2, <2>3, SumsUnique
<1>2. CASE c.op # "horner"
  BY <1>2 DEF Means
<1> QED BY <1>1, <1>2

(* add_calculation: what is added, or found, is worth what it says. *)
LEMMA Added ==
  ASSUME NEW cs, NEW rs, NEW calcs, NEW ms, Faithful(cs, rs, calcs, ms),
         NEW c \in CalcSet, NEW mean \in Meanings,
         DefinedCalc(cs, rs, Len(ms), c), Means(cs, rs, ms, c, mean),
         NEW ms2, Holds(calcs, c) => ms2 = ms, ~ Holds(calcs, c) => ms2 = Append(ms, mean)
  PROVE  /\ Faithful(cs, rs, With(calcs, c), ms2)
         /\ Grows(ms, ms2) /\ Grows(calcs, With(calcs, c))
         /\ Denotes(cs, rs, ms2, Intermediate(Position(With(calcs, c), c)), mean.value)
<1> DEFINE calcs2 == With(calcs, c)
           k == Position(calcs2, c)
           s == Intermediate(k)
<1>1. /\ cs \in Seq(F) /\ rs \in Seq(Int) /\ calcs \in Seq(CalcSet) /\ ms \in Seq(Meanings)
      /\ Len(ms) = Len(calcs) /\ Len(ms) \in Nat
  BY DEF Faithful, GraphTypes
<1>2. /\ calcs2 \in Seq(CalcSet) /\ Grows(calcs, calcs2) /\ k \in 1 .. Len(calcs2) /\ calcs2[k] = c
      /\ Holds(calcs, c) => calcs2 = calcs
      /\ ~ Holds(calcs, c) => calcs2 = Append(calcs, c) /\ k = Len(calcs) + 1
  BY <1>1, WithGrows
<1> HIDE DEF calcs2, k
<1>3. s \in SourceSet /\ s.kind = "intermediate" /\ s.index = k
  <2>1. k \in Nat
    BY <1>2
  <2> QED BY <2>1 DEF Intermediate, Src, SourceSet
<1> HIDE DEF s
<1>4. CASE Holds(calcs, c)
  <2>1. calcs2 = calcs /\ ms2 = ms
    BY <1>2, <1>4
  <2>2. Means(cs, rs, ms, c, ms[k])
    BY <1>2, <2>1 DEF Faithful
  <2>3. Defined(cs, rs, Len(ms2), s)
    BY <1>1, <1>2, <1>3, <2>1 DEF Defined, ColumnTypes
  <2>4. ASSUME NEW line \in Lines PROVE Worth(cs, rs, ms2, s, line) = mean.value[line]
    <3>1. Worth(cs, rs, ms2, s, line) = ms[k].value[line]
      <4>1. s.index \in 1 .. Len(ms2) /\ ms2[s.index] = ms[k]
        BY <1>1, <1>2, <1>3, <2>1
      <4>2. Worth(cs, rs, ms2, s, line) = ms2[s.index].value[line]
        BY <1>3, <4>1, WorthIntermediate
      <4> QED BY <4>1, <4>2, Zenon
    <3>2. ms[k].value[line] = mean.value[line]
      <4>1. Means(cs, rs, ms, c, mean)
        OBVIOUS
      <4>2. \A m, m2 : Means(cs, rs, ms, c, m) /\ Means(cs, rs, ms, c, m2) => m.value[line] = m2.value[line]
        BY MeansUnique
      <4> QED BY <2>2, <4>1, <4>2
    <3> QED BY <3>1, <3>2, Zenon
  <2>5. Grows(ms, ms2)
    BY <1>1, <2>1 DEF Grows
  <2>6. Denotes(cs, rs, ms2, s, mean.value)
    BY <2>3, <2>4 DEF Denotes
  <2> QED BY <1>2, <2>1, <2>5, <2>6 DEF calcs2, k, s
<1>5. CASE ~ Holds(calcs, c)
  <2>1. calcs2 = Append(calcs, c) /\ ms2 = Append(ms, mean) /\ k = Len(calcs) + 1
    BY <1>2, <1>5
  <2>2. /\ ms2 \in Seq(Meanings) /\ Len(ms2) = Len(ms) + 1 /\ ms2[k] = mean
        /\ \A j \in 1 .. Len(ms) : ms2[j] = ms[j]
    BY <1>1, <2>1
  <2>3. Grows(ms, ms2) /\ Len(ms2) \in Nat
    BY <1>1, <2>2 DEF Grows
  <2>4. /\ Len(calcs2) = Len(calcs) + 1 /\ \A j \in 1 .. Len(calcs) : calcs2[j] = calcs[j]
    BY <1>1, <2>1
  <2>5. /\ Grows(cs, cs) /\ Grows(rs, rs) /\ Len(cs) \in Nat /\ Len(rs) \in Nat
    BY <1>1, GrowsLen
  <2>6. ASSUME NEW j \in 1 .. Len(calcs2)
        PROVE  DefinedCalc(cs, rs, j - 1, calcs2[j]) /\ Means(cs, rs, ms2, calcs2[j], ms2[j])
    <3>1. CASE j \in 1 .. Len(calcs)
      <4>1. DefinedCalc(cs, rs, j - 1, calcs[j]) /\ Means(cs, rs, ms, calcs[j], ms[j])
        BY <3>1 DEF Faithful
      <4>2. j - 1 \in Nat /\ j - 1 <= Len(ms)
        BY <1>1, <3>1
      <4>3. DefinedCalc(cs, rs, j - 1, calcs[j]) /\ Means(cs, rs, ms2, calcs[j], ms[j])
        <5>1. \A n \in Nat : \A d, m : n <= Len(ms) /\ DefinedCalc(cs, rs, n, d) /\ Means(cs, rs, ms, d, m)
                => DefinedCalc(cs, rs, n, d) /\ Means(cs, rs, ms2, d, m)
          BY <1>1, <2>3, <2>5, MeansGrow
        <5> QED BY <4>1, <4>2, <5>1
      <4>4. calcs2[j] = calcs[j] /\ ms2[j] = ms[j]
        BY <1>1, <2>2, <2>4, <3>1
      <4> QED BY <4>3, <4>4
    <3>2. CASE j = Len(calcs) + 1
      <4>1. DefinedCalc(cs, rs, Len(ms), c) /\ Means(cs, rs, ms2, c, mean)
        <5>1. Len(ms) \in Nat /\ Len(ms) <= Len(ms)
          BY <1>1
        <5>2. DefinedCalc(cs, rs, Len(ms), c) /\ Means(cs, rs, ms, c, mean)
          OBVIOUS
        <5> QED BY <2>3, <2>5, <5>1, <5>2, MeansGrow
      <4>2. j - 1 = Len(ms) /\ calcs2[j] = c /\ ms2[j] = mean
        BY <1>1, <1>2, <2>1, <2>2, <3>2
      <4> QED BY <4>1, <4>2
    <3> QED BY <1>1, <2>4, <3>1, <3>2
  <2>7. GraphTypes(cs, rs, calcs2, ms2)
    BY <1>1, <1>2, <2>2, <2>4 DEF GraphTypes
  <2>8. Defined(cs, rs, Len(ms2), s)
    BY <1>1, <1>3, <2>1, <2>2 DEF Defined, ColumnTypes
  <2>9. ASSUME NEW line \in Lines PROVE Worth(cs, rs, ms2, s, line) = mean.value[line]
    <3>1. s.index \in 1 .. Len(ms2) /\ ms2[s.index] = mean
      BY <1>1, <1>3, <2>1, <2>2
    <3>2. Worth(cs, rs, ms2, s, line) = ms2[s.index].value[line]
      BY <1>3, <3>1, WorthIntermediate
    <3> QED BY <3>1, <3>2, Zenon
  <2>10. Faithful(cs, rs, calcs2, ms2)
    BY <2>6, <2>7 DEF Faithful
  <2>11. Denotes(cs, rs, ms2, s, mean.value)
    BY <2>8, <2>9 DEF Denotes
  <2> QED BY <1>2, <2>3, <2>10, <2>11 DEF calcs2, k, s
<1> QED BY <1>4, <1>5

-----------------------------------------------------------------------------
(* What a node of an expression must be for its value: a source worth it,  *)
(* or a calculation of older sources that makes it. *)
NodeKinds == {"constant", "intermediate", "challenge"} \cup ColumnTypes

NodeMeans(cs, rs, ms, node, value) ==
  /\ ~ node.new => /\ Denotes(cs, rs, ms, node.src, value)
                   /\ node.src.kind \in {"constant", "intermediate"}
  /\ node.new => /\ node.calc \in CalcSet /\ node.calc.op \in Ops1 /\ node.calc.parts = << >>
                 /\ Defined(cs, rs, Len(ms), node.calc.a) /\ node.calc.a.kind \in NodeKinds
                 /\ Defined(cs, rs, Len(ms), node.calc.b) /\ node.calc.b.kind \in NodeKinds
                 /\ \A line \in Lines : value[line] =
                      Apply2(node.calc.op, Worth(cs, rs, ms, node.calc.a, line),
                                           Worth(cs, rs, ms, node.calc.b, line))

(* An operand on the stack. *)
Operand(cs, rs, ms, s, value) ==
  /\ Denotes(cs, rs, ms, s, value) /\ s.kind \in {"constant", "intermediate"} /\ value \in Values

LEMMA ConstWorth ==
  ASSUME NEW cs, NEW rs, NEW ms, Threes(cs), NEW line
  PROVE  /\ Worth(cs, rs, ms, Const(1), line) = Zero /\ Worth(cs, rs, ms, Const(2), line) = One
         /\ Worth(cs, rs, ms, Const(3), line) = Two
<1>1. \A i : Const(i).kind = "constant" /\ Const(i).index = i
  BY DEF Const, Src
<1> QED BY <1>1, WorthCases DEF Threes

LEMMA NewMeans ==
  ASSUME NEW cs, NEW rs, NEW ms, NEW op \in Ops1, NEW a, NEW b, NEW value,
         Defined(cs, rs, Len(ms), a), a.kind \in NodeKinds,
         Defined(cs, rs, Len(ms), b), b.kind \in NodeKinds,
         \A line \in Lines : value[line] =
           Apply2(op, Worth(cs, rs, ms, a, line), Worth(cs, rs, ms, b, line))
  PROVE  NodeMeans(cs, rs, ms, New(Calc(op, a, b)), value)
<1>1. a \in SourceSet /\ b \in SourceSet
  BY DEF Defined
<1>2. Calc(op, a, b) \in CalcSet
  BY <1>1 DEF Calc, CalcSet, Ops1
<1> QED BY <1>2 DEF NodeMeans, New, Calc

LEMMA IsMeans ==
  ASSUME NEW cs, NEW rs, NEW ms, NEW s, NEW value,
         Denotes(cs, rs, ms, s, value), s.kind \in {"constant", "intermediate"}
  PROVE  NodeMeans(cs, rs, ms, Is(s), value)
  BY DEF NodeMeans, Is

LEMMA OperandWorth ==
  ASSUME NEW cs, NEW rs, NEW ms, NEW s, NEW value, Operand(cs, rs, ms, s, value)
  PROVE  /\ Defined(cs, rs, Len(ms), s) /\ s.kind \in NodeKinds
         /\ \A line \in Lines : Worth(cs, rs, ms, s, line) = value[line] /\ value[line] \in F
  BY DEF Operand, Denotes, NodeKinds, Values

(* An operand that is the constant with index i is worth it. *)
LEMMA OperandConst ==
  ASSUME NEW cs, NEW rs, NEW ms, Threes(cs), NEW s, NEW value, Operand(cs, rs, ms, s, value),
         NEW line \in Lines
  PROVE  /\ s = Const(1) => value[line] = Zero
         /\ s = Const(2) => value[line] = One
         /\ s = Const(3) => value[line] = Two
<1>1. Worth(cs, rs, ms, s, line) = value[line]
  BY OperandWorth
<1>2. \A i : s = Const(i) => Worth(cs, rs, ms, Const(i), line) = value[line]
  BY <1>1
<1>3. /\ Worth(cs, rs, ms, Const(1), line) = Zero /\ Worth(cs, rs, ms, Const(2), line) = One
      /\ Worth(cs, rs, ms, Const(3), line) = Two
  BY ConstWorth
<1> QED BY <1>2, <1>3

LEMMA OperandKnown ==
  ASSUME NEW cs, NEW rs, NEW ms, Threes(cs), NEW s, NEW value, Operand(cs, rs, ms, s, value)
  PROVE  \A line \in Lines :
           /\ value[line] \in F
           /\ s = Const(1) => value[line] = Zero
           /\ s = Const(2) => value[line] = One
           /\ s = Const(3) => value[line] = Two
<1>1. SUFFICES ASSUME NEW line \in Lines
               PROVE  /\ value[line] \in F
                      /\ s = Const(1) => value[line] = Zero
                      /\ s = Const(2) => value[line] = One
                      /\ s = Const(3) => value[line] = Two
  OBVIOUS
<1>2. value[line] \in F
  BY OperandWorth
<1> QED BY <1>2, OperandConst

(* A calculation over two operands, and an operand with another value. *)
LEMMA CalcMeans ==
  ASSUME NEW cs, NEW rs, NEW ms, NEW a, NEW va, NEW b, NEW vb,
         Operand(cs, rs, ms, a, va), Operand(cs, rs, ms, b, vb), NEW op \in Ops1, NEW value,
         \A line \in Lines : value[line] = Apply2(op, va[line], vb[line])
  PROVE  NodeMeans(cs, rs, ms, New(Calc(op, a, b)), value)
<1>1. /\ Defined(cs, rs, Len(ms), a) /\ a.kind \in NodeKinds
      /\ \A line \in Lines : Worth(cs, rs, ms, a, line) = va[line]
  BY OperandWorth
<1>2. /\ Defined(cs, rs, Len(ms), b) /\ b.kind \in NodeKinds
      /\ \A line \in Lines : Worth(cs, rs, ms, b, line) = vb[line]
  BY OperandWorth
<1> QED BY <1>1, <1>2, NewMeans

LEMMA SameMeans ==
  ASSUME NEW cs, NEW rs, NEW ms, NEW a, NEW va, Operand(cs, rs, ms, a, va), NEW value,
         \A line \in Lines : value[line] = va[line]
  PROVE  NodeMeans(cs, rs, ms, Is(a), value)
<1>1. Denotes(cs, rs, ms, a, value) /\ a.kind \in {"constant", "intermediate"}
  BY DEF Operand, Denotes
<1> QED BY <1>1, IsMeans

LEMMA NegationMeans ==
  ASSUME NEW cs, NEW rs, NEW ms, Threes(cs), NEW a, NEW va, Operand(cs, rs, ms, a, va),
         NEW value, \A line \in Lines : value[line] = Neg(va[line])
  PROVE  NodeMeans(cs, rs, ms, NegationOf(a), value)
<1>1. CASE a = Const(1)
  <2>1. \A line \in Lines : va[line] = Zero
    BY <1>1, OperandConst
  <2>2. \A line \in Lines : value[line] = va[line]
    BY <2>1, FieldAssumption
  <2>3. NodeMeans(cs, rs, ms, Is(a), value)
    BY <2>2, SameMeans
  <2> QED BY <1>1, <2>3 DEF NegationOf
<1>2. CASE a # Const(1)
  <2>1. \A line \in Lines : value[line] = Apply2("negate", va[line], va[line])
    BY Apply2Cases
  <2>2. NodeMeans(cs, rs, ms, New(Calc("negate", a, a)), value)
    BY <2>1, CalcMeans DEF Ops1
  <2> QED BY <1>2, <2>2 DEF NegationOf
<1> QED BY <1>1, <1>2

LEMMA SumMeans ==
  ASSUME NEW cs, NEW rs, NEW ms, Threes(cs), NEW a, NEW va, Operand(cs, rs, ms, a, va),
         NEW b, NEW vb, Operand(cs, rs, ms, b, vb),
         NEW value, \A line \in Lines : value[line] = Plus(va[line], vb[line])
  PROVE  NodeMeans(cs, rs, ms, SumOf(a, b), value)
<1>1. \A line \in Lines :
        /\ va[line] \in F /\ vb[line] \in F
        /\ a = Const(1) => va[line] = Zero
        /\ b = Const(1) => vb[line] = Zero
  <2>1. \A line \in Lines : va[line] \in F /\ (a = Const(1) => va[line] = Zero)
    BY OperandKnown
  <2>2. \A line \in Lines : vb[line] \in F /\ (b = Const(1) => vb[line] = Zero)
    BY OperandKnown
  <2> QED BY <2>1, <2>2
<1>2. CASE a = Const(1)
  <2>1. \A line \in Lines : value[line] = vb[line]
    BY <1>1, <1>2, FieldAssumption
  <2>2. NodeMeans(cs, rs, ms, Is(b), value)
    BY <2>1, SameMeans
  <2> QED BY <1>2, <2>2 DEF SumOf
<1>3. CASE a # Const(1) /\ b = Const(1)
  <2>1. \A line \in Lines : value[line] = va[line]
    BY <1>1, <1>3, FieldAssumption
  <2>2. NodeMeans(cs, rs, ms, Is(a), value)
    BY <2>1, SameMeans
  <2> QED BY <1>3, <2>2 DEF SumOf
<1>4. CASE a # Const(1) /\ b # Const(1)
  <2>1. \A line \in Lines : /\ value[line] = Apply2("add", va[line], vb[line])
                           /\ value[line] = Apply2("add", vb[line], va[line])
    BY <1>1, FieldAssumption, Apply2Cases
  <2>2. NodeMeans(cs, rs, ms, New(Calc("add", a, b)), value)
    BY <2>1, CalcMeans DEF Ops1
  <2>3. NodeMeans(cs, rs, ms, New(Calc("add", b, a)), value)
    BY <2>1, CalcMeans DEF Ops1
  <2> QED BY <1>4, <2>2, <2>3 DEF SumOf
<1> QED BY <1>2, <1>3, <1>4

LEMMA DifferenceMeans ==
  ASSUME NEW cs, NEW rs, NEW ms, Threes(cs), NEW a, NEW va, Operand(cs, rs, ms, a, va),
         NEW b, NEW vb, Operand(cs, rs, ms, b, vb),
         NEW value, \A line \in Lines : value[line] = Plus(va[line], Neg(vb[line]))
  PROVE  NodeMeans(cs, rs, ms, DifferenceOf(a, b), value)
<1>1. \A line \in Lines :
        /\ va[line] \in F /\ vb[line] \in F
        /\ a = Const(1) => va[line] = Zero
        /\ b = Const(1) => vb[line] = Zero
  <2>1. \A line \in Lines : va[line] \in F /\ (a = Const(1) => va[line] = Zero)
    BY OperandKnown
  <2>2. \A line \in Lines : vb[line] \in F /\ (b = Const(1) => vb[line] = Zero)
    BY OperandKnown
  <2> QED BY <2>1, <2>2
<1>2. CASE a = Const(1)
  <2>1. \A line \in Lines : value[line] = Apply2("negate", vb[line], vb[line])
    BY <1>1, <1>2, FieldAssumption, Apply2Cases
  <2>2. NodeMeans(cs, rs, ms, New(Calc("negate", b, b)), value)
    BY <2>1, CalcMeans DEF Ops1
  <2> QED BY <1>2, <2>2 DEF DifferenceOf
<1>3. CASE a # Const(1) /\ b = Const(1)
  <2>1. \A line \in Lines : value[line] = va[line]
    BY <1>1, <1>3, FieldAssumption
  <2>2. NodeMeans(cs, rs, ms, Is(a), value)
    BY <2>1, SameMeans
  <2> QED BY <1>3, <2>2 DEF DifferenceOf
<1>4. CASE a # Const(1) /\ b # Const(1)
  <2>1. \A line \in Lines : value[line] = Apply2("sub", va[line], vb[line])
    BY Apply2Cases
  <2>2. NodeMeans(cs, rs, ms, New(Calc("sub", a, b)), value)
    BY <2>1, CalcMeans DEF Ops1
  <2> QED BY <1>4, <2>2 DEF DifferenceOf
<1> QED BY <1>2, <1>3, <1>4

(* What is known of an operand that is one of the first three constants. *)
Known(s, value) ==
  /\ \A line \in Lines : value[line] \in F
  /\ s = Const(1) => \A line \in Lines : value[line] = Zero
  /\ s = Const(2) => \A line \in Lines : value[line] = One
  /\ s = Const(3) => \A line \in Lines : value[line] = Two

LEMMA KnownOperand ==
  ASSUME NEW cs, NEW rs, NEW ms, Threes(cs), NEW s, NEW value, Operand(cs, rs, ms, s, value)
  PROVE  Known(s, value)
BY OperandKnown DEF Known

LEMMA ProductMeans ==
  ASSUME NEW cs, NEW rs, NEW ms, Threes(cs), Len(cs) \in Nat,
         NEW a, NEW va, Operand(cs, rs, ms, a, va),
         NEW b, NEW vb, Operand(cs, rs, ms, b, vb),
         NEW value, \A line \in Lines : value[line] = Times(va[line], vb[line])
  PROVE  NodeMeans(cs, rs, ms, ProductOf(a, b), value)
<1>1. Known(a, va) /\ Known(b, vb)
  BY KnownOperand
<1>2. CASE Const(1) \in {a, b}
  <2>1. \A line \in Lines : value[line] = Zero
    BY <1>1, <1>2, FieldAssumption DEF Known
  <2>2. Defined(cs, rs, Len(ms), Const(1)) /\ Const(1).kind = "constant"
    BY DEF Const, Src, Defined, SourceSet, ColumnTypes, Threes
  <2>3. \A line \in Lines : Worth(cs, rs, ms, Const(1), line) = Zero
    BY ConstWorth
  <2>4. NodeMeans(cs, rs, ms, Is(Const(1)), value)
    BY <2>1, <2>2, <2>3, IsMeans DEF Denotes
  <2> QED BY <1>2, <2>4 DEF ProductOf
<1>3. CASE Const(1) \notin {a, b} /\ a = Const(2)
  <2>1. \A line \in Lines : value[line] = vb[line]
    BY <1>1, <1>3, FieldAssumption DEF Known
  <2>2. NodeMeans(cs, rs, ms, Is(b), value)
    BY <2>1, SameMeans
  <2> QED BY <1>3, <2>2 DEF ProductOf
<1>4. CASE Const(1) \notin {a, b} /\ a # Const(2) /\ b = Const(2)
  <2>1. \A line \in Lines : value[line] = va[line]
    BY <1>1, <1>4, FieldAssumption DEF Known
  <2>2. NodeMeans(cs, rs, ms, Is(a), value)
    BY <2>1, SameMeans
  <2> QED BY <1>4, <2>2 DEF ProductOf
<1>5. CASE Const(1) \notin {a, b} /\ Const(2) \notin {a, b} /\ a = Const(3)
  <2>1. \A line \in Lines : value[line] = Apply2("double", vb[line], vb[line])
    BY <1>1, <1>5, FieldAssumption, Apply2Cases DEF Known
  <2>2. NodeMeans(cs, rs, ms, New(Calc("double", b, b)), value)
    BY <2>1, CalcMeans DEF Ops1
  <2> QED BY <1>5, <2>2 DEF ProductOf
<1>6. CASE Const(1) \notin {a, b} /\ Const(2) \notin {a, b} /\ a # Const(3) /\ b = Const(3)
  <2>1. \A line \in Lines : value[line] = Apply2("double", va[line], va[line])
    BY <1>1, <1>6, FieldAssumption, Apply2Cases DEF Known
  <2>2. NodeMeans(cs, rs, ms, New(Calc("double", a, a)), value)
    BY <2>1, CalcMeans DEF Ops1
  <2> QED BY <1>6, <2>2 DEF ProductOf
<1>7. CASE {Const(1), Const(2), Const(3)} \cap {a, b} = {} /\ a = b
  <2>1. \A line \in Lines : Worth(cs, rs, ms, a, line) = va[line] /\ Worth(cs, rs, ms, a, line) = vb[line]
    BY <1>7, OperandWorth
  <2>2. \A line \in Lines : value[line] = Apply2("square", va[line], va[line])
    BY <2>1, Apply2Cases
  <2>3. NodeMeans(cs, rs, ms, New(Calc("square", a, a)), value)
    BY <2>2, CalcMeans DEF Ops1
  <2> QED BY <1>7, <2>3 DEF ProductOf
<1>8. CASE {Const(1), Const(2), Const(3)} \cap {a, b} = {} /\ a # b
  <2>1. \A line \in Lines : /\ value[line] = Apply2("mul", va[line], vb[line])
                           /\ value[line] = Apply2("mul", vb[line], va[line])
    BY <1>1, FieldAssumption, Apply2Cases DEF Known
  <2>2. NodeMeans(cs, rs, ms, New(Calc("mul", a, b)), value)
    BY <2>1, CalcMeans DEF Ops1
  <2>3. NodeMeans(cs, rs, ms, New(Calc("mul", b, a)), value)
    BY <2>1, CalcMeans DEF Ops1
  <2> QED BY <1>8, <2>2, <2>3 DEF ProductOf
<1> QED BY <1>2, <1>3, <1>4, <1>5, <1>6, <1>7, <1>8

-----------------------------------------------------------------------------
(* The invariant when the graph grows. *)
LEMMA DenotesGrows ==
  ASSUME NEW cs, NEW rs, NEW ms, NEW cs2, NEW rs2, NEW ms2,
         Grows(cs, cs2), Grows(rs, rs2), Grows(ms, ms2),
         Len(cs) \in Nat, Len(cs2) \in Nat, Len(rs) \in Nat, Len(rs2) \in Nat,
         Len(ms) \in Nat, Len(ms2) \in Nat, NEW s, NEW value, Denotes(cs, rs, ms, s, value)
  PROVE  Denotes(cs2, rs2, ms2, s, value)
<1>1. Defined(cs, rs, Len(ms), s) /\ \A line \in Lines : Worth(cs, rs, ms, s, line) = value[line]
  BY DEF Denotes
<1>2. /\ \A m \in Nat : Len(ms) <= m => Defined(cs2, rs2, m, s)
      /\ \A line \in Lines : Worth(cs2, rs2, ms2, s, line) = Worth(cs, rs, ms, s, line)
  <2>1. Len(ms) <= Len(ms)
    OBVIOUS
  <2> QED BY <1>1, <2>1, WorthGrows
<1>3. Defined(cs2, rs2, Len(ms2), s)
  BY <1>2 DEF Grows
<1> QED BY <1>1, <1>2, <1>3 DEF Denotes

LEMMA AllDenoteGrows ==
  ASSUME NEW cs, NEW rs, NEW ms, NEW cs2, NEW rs2, NEW ms2,
         Grows(cs, cs2), Grows(rs, rs2), Grows(ms, ms2),
         Len(cs) \in Nat, Len(cs2) \in Nat, Len(rs) \in Nat, Len(rs2) \in Nat,
         Len(ms) \in Nat, Len(ms2) \in Nat, NEW list, NEW kinds, AllDenote(cs, rs, ms, list, kinds)
  PROVE  AllDenote(cs2, rs2, ms2, list, kinds)
<1>1. \A s, value : Denotes(cs, rs, ms, s, value) => Denotes(cs2, rs2, ms2, s, value)
  BY DenotesGrows
<1> QED BY <1>1 DEF AllDenote

(* The two ends of Horner's rule. *)
LEMMA EndsDefined ==
  ASSUME NEW cs, NEW rs, Threes(cs), Len(cs) \in Nat
  PROVE  \A n \in Nat : Defined(cs, rs, n, FirstSource(use)) /\ Defined(cs, rs, n, Factor)
<1>1. FirstSource(use) \in {Scalar("previous"), Const(1)} /\ Factor \in {Scalar("y"), Scalar("theta")}
  BY DEF FirstSource, Factor
<1>2. \A n \in Nat : Defined(cs, rs, n, Scalar("previous")) /\ Defined(cs, rs, n, Const(1))
  BY DEF Threes, Defined, Scalar, Const, Src, SourceSet, ColumnTypes
<1>3. \A n \in Nat : Defined(cs, rs, n, Scalar("y")) /\ Defined(cs, rs, n, Scalar("theta"))
  BY DEF Defined, Scalar, Src, SourceSet, ColumnTypes
<1> QED BY <1>1, <1>2, <1>3

LEMMA GraphGrows ==
  ASSUME IInv, NEW cs \in Seq(F), NEW rs \in Seq(Int), NEW ms \in Seq(Meanings),
         Grows(constants, cs), Grows(rotations, rs), Grows(means, ms)
  PROVE  /\ Threes(cs)
         /\ AllDenote(cs, rs, ms, stack, {"constant", "intermediate"})
         /\ AllDenote(cs, rs, ms, held, {"intermediate"})
         /\ DefinedAll(cs, rs, Len(ms), parts)
         /\ Sums(cs, rs, ms, chain, FirstSource(use), parts, Factor)
<1>1. /\ constants \in Seq(F) /\ rotations \in Seq(Int) /\ means \in Seq(Meanings)
  BY DEF IInv, GraphTypeOK, Meanings
<1>2. /\ Len(constants) \in Nat /\ Len(rotations) \in Nat /\ Len(means) \in Nat
      /\ Len(cs) \in Nat /\ Len(rs) \in Nat /\ Len(ms) \in Nat
      /\ Len(means) <= Len(means) /\ Len(means) <= Len(ms)
  BY <1>1 DEF Grows
<1>3. Threes(cs)
  <2>1. Threes(constants) /\ Grows(constants, cs)
    BY DEF IInv
  <2>2. \A i \in 1 .. 3 : cs[i] = constants[i]
    <3>1. \A i \in 1 .. Len(constants) : cs[i] = constants[i]
      BY <2>1 DEF Grows
    <3>2. Len(constants) \in Nat /\ Len(constants) >= 3
      BY <1>2, <2>1 DEF Threes
    <3>3. \A i \in 1 .. 3 : i \in 1 .. Len(constants)
      BY <3>2
    <3> QED BY <3>1, <3>3
  <2>3. cs[1] = constants[1] /\ cs[2] = constants[2] /\ cs[3] = constants[3]
    BY <2>2
  <2> QED BY <1>2, <2>1, <2>3 DEF Threes, Grows
<1>4. /\ AllDenote(cs, rs, ms, stack, {"constant", "intermediate"})
      /\ AllDenote(cs, rs, ms, held, {"intermediate"})
  BY <1>2, AllDenoteGrows DEF IInv, Operands
<1>5. /\ Sums(constants, rotations, means, chain, FirstSource(use), parts, Factor)
      /\ DefinedAll(constants, rotations, Len(means), parts) /\ Threes(constants)
  BY DEF IInv, Operands
<1>6. /\ Defined(constants, rotations, Len(means), FirstSource(use))
      /\ Defined(constants, rotations, Len(means), Factor)
  BY <1>2, <1>5, EndsDefined
<1>7. /\ Sums(cs, rs, ms, chain, FirstSource(use), parts, Factor)
      /\ \A m \in Nat : Len(means) <= m => DefinedAll(cs, rs, m, parts)
  BY <1>2, <1>5, <1>6, SumsGrow
<1> QED BY <1>2, <1>3, <1>4, <1>7

LEMMA WithElements ==
  ASSUME NEW S, NEW list \in Seq(S), NEW x \in S, NEW i \in 1 .. Len(With(list, x))
  PROVE  With(list, x)[i] = x \/ \E j \in 1 .. Len(list) : With(list, x)[i] = list[j]
<1>1. CASE Holds(list, x)
  BY <1>1 DEF With
<1>2. CASE ~ Holds(list, x)
  <2>1. With(list, x) = Append(list, x)
    BY <1>2 DEF With
  <2>2. \A k \in 1 .. Len(list) + 1 : k = Len(list) + 1 \/ k \in 1 .. Len(list)
    OBVIOUS
  <2> QED BY <2>1, <2>2
<1> QED BY <1>1, <1>2

(* A calculation is added to the graph of the program. *)
LEMMA AddStep ==
  ASSUME Faithful(constants, rotations, calculations, means),
         constants' \in Seq(F), rotations' \in Seq(Int),
         Grows(constants, constants'), Grows(rotations, rotations'),
         NEW c \in CalcSet, NEW value \in Values, NEW sums \in Seq(Values),
         DefinedCalc(constants', rotations', Len(means), c),
         Means(constants', rotations', means, c, [value |-> value, sums |-> sums]),
         AddCalculation(c, value, sums)
  PROVE  /\ Faithful(constants', rotations', calculations', means')
         /\ Grows(means, means')
         /\ Denotes(constants', rotations', means', Found(c), value)
         /\ Found(c).kind = "intermediate"
         /\ \A k \in 1 .. Len(calculations') :
              calculations'[k] = c \/ \E j \in 1 .. Len(calculations) : calculations'[k] = calculations[j]
         /\ Len(calculations') >= 1
         /\ ~ Holds(calculations, c) => Found(c) = Intermediate(Len(calculations'))
<1> DEFINE mean == [value |-> value, sums |-> sums]
<1>1. mean \in Meanings /\ mean.value = value
  BY DEF Meanings
<1>2. /\ calculations \in Seq(CalcSet) /\ calculations' = With(calculations, c)
      /\ Holds(calculations, c) => means' = means
      /\ ~ Holds(calculations, c) => means' = Append(means, mean)
  BY DEF Faithful, GraphTypes, AddCalculation
<1>3. Faithful(constants', rotations', calculations, means)
  BY FaithfulGrows
<1>4. Means(constants', rotations', means, c, mean)
  OBVIOUS
<1> HIDE DEF mean
<1>5. /\ Faithful(constants', rotations', With(calculations, c), means')
      /\ Grows(means, means')
      /\ Denotes(constants', rotations', means', Intermediate(Position(With(calculations, c), c)), mean.value)
  BY <1>1, <1>2, <1>3, <1>4, Added
<1>6. Denotes(constants', rotations', means', Found(c), value)
  BY <1>1, <1>5 DEF Found
<1>7. Found(c).kind = "intermediate"
  BY DEF Found, Intermediate, Src
<1>8. \A k \in 1 .. Len(calculations') :
        calculations'[k] = c \/ \E j \in 1 .. Len(calculations) : calculations'[k] = calculations[j]
  BY <1>2, WithElements
<1>9. Len(calculations') >= 1 /\ (~ Holds(calculations, c) => Found(c) = Intermediate(Len(calculations')))
  <2>1. /\ With(calculations, c) \in Seq(CalcSet)
        /\ Position(With(calculations, c), c) \in 1 .. Len(With(calculations, c))
        /\ ~ Holds(calculations, c) => /\ With(calculations, c) = Append(calculations, c)
                                       /\ Position(With(calculations, c), c) = Len(calculations) + 1
    BY <1>2, WithGrows
  <2>2. ~ Holds(calculations, c) => Position(With(calculations, c), c) = Len(With(calculations, c))
    BY <1>2, <2>1
  <2> QED BY <1>2, <2>1, <2>2 DEF Found
<1> QED BY <1>2, <1>5, <1>6, <1>7, <1>8, <1>9

(* A node replaces its operands: the graph it leaves, and what it returns. *)
Roots == {"constant", "negated", "node"}
StackEntries == [src : SourceSet, root : Roots, value : Values]

LEMMA ReturnedNode ==
  ASSUME Faithful(constants, rotations, calculations, means),
         constants' \in Seq(F), rotations' \in Seq(Int),
         Grows(constants, constants'), Grows(rotations, rotations'),
         NEW below, NEW node, NEW value \in Values, NEW root \in Roots,
         NodeMeans(constants', rotations', means, node, value), Return(below, node, root, value)
  PROVE  /\ Faithful(constants', rotations', calculations', means')
         /\ Grows(means, means')
         /\ \E s : /\ stack' = Append(below, Entry(s, root, value))
                   /\ Denotes(constants', rotations', means', s, value)
                   /\ s.kind \in {"constant", "intermediate"}
         /\ \A k \in 1 .. Len(calculations') :
              \/ calculations'[k].a.kind \in NodeKinds /\ calculations'[k].b.kind \in NodeKinds
              \/ \E j \in 1 .. Len(calculations) : calculations'[k] = calculations[j]
<1>1. CASE node.new
  <2> DEFINE c == node.calc
             mean == [value |-> value, sums |-> << >>]
  <2>1. /\ c \in CalcSet /\ c.op \in Ops1 /\ c.parts = << >>
        /\ Defined(constants', rotations', Len(means), c.a) /\ c.a.kind \in NodeKinds
        /\ Defined(constants', rotations', Len(means), c.b) /\ c.b.kind \in NodeKinds
        /\ \A line \in Lines : value[line] =
             Apply2(c.op, Worth(constants', rotations', means, c.a, line),
                          Worth(constants', rotations', means, c.b, line))
    BY <1>1 DEF NodeMeans
  <2>2. AddCalculation(c, value, << >>) /\ stack' = Append(below, Entry(Found(c), root, value))
    BY <1>1 DEF Return
  <2> HIDE DEF c
  <2>3. DefinedCalc(constants', rotations', Len(means), c)
    BY <2>1 DEF DefinedCalc, DefinedAll
  <2>4. Means(constants', rotations', means, c, mean)
    BY <2>1 DEF Means, Ops1
  <2>5. << >> \in Seq(Values)
    OBVIOUS
  <2>6. /\ Faithful(constants', rotations', calculations', means')
        /\ Grows(means, means')
        /\ Denotes(constants', rotations', means', Found(c), value)
        /\ Found(c).kind = "intermediate"
        /\ \A k \in 1 .. Len(calculations') :
             calculations'[k] = c \/ \E j \in 1 .. Len(calculations) : calculations'[k] = calculations[j]
    BY <2>1, <2>2, <2>3, <2>4, <2>5, AddStep
  <2> QED BY <2>1, <2>2, <2>6
<1>2. CASE ~ node.new
  <2>1. /\ Denotes(constants', rotations', means, node.src, value)
        /\ node.src.kind \in {"constant", "intermediate"}
    BY <1>2 DEF NodeMeans
  <2>2. /\ calculations' = calculations /\ means' = means
        /\ stack' = Append(below, Entry(node.src, root, value))
    BY <1>2 DEF Return
  <2>3. Faithful(constants', rotations', calculations, means)
    BY FaithfulGrows
  <2>4. Grows(means, means)
    BY GrowsLen DEF Faithful, GraphTypes
  <2> QED BY <2>1, <2>2, <2>3, <2>4
<1> QED BY <1>1, <1>2

LEMMA ReturnStep ==
  ASSUME IInv, stage = "expressions",
         constants' \in Seq(F), rotations' \in Seq(Int),
         Grows(constants, constants'), Grows(rotations, rotations'),
         leaves' \in 0 .. MaxLeaves, negations' \in 0 .. MaxNegations,
         NEW below \in Seq(StackEntries),
         \A i \in 1 .. Len(below) : \E j \in 1 .. Len(stack) : below[i] = stack[j],
         NEW node, NEW value \in Values, NEW root \in Roots,
         NodeMeans(constants', rotations', means, node, value), Return(below, node, root, value)
  PROVE  IInv'
<1>1. Faithful(constants, rotations, calculations, means)
  BY DEF IInv
<1>2. /\ Faithful(constants', rotations', calculations', means')
      /\ Grows(means, means')
      /\ \E s : /\ stack' = Append(below, Entry(s, root, value))
                /\ Denotes(constants', rotations', means', s, value)
                /\ s.kind \in {"constant", "intermediate"}
      /\ \A k \in 1 .. Len(calculations') :
           \/ calculations'[k].a.kind \in NodeKinds /\ calculations'[k].b.kind \in NodeKinds
           \/ \E j \in 1 .. Len(calculations) : calculations'[k] = calculations[j]
  BY <1>1, ReturnedNode
<1>3. PICK s : /\ stack' = Append(below, Entry(s, root, value))
               /\ Denotes(constants', rotations', means', s, value)
               /\ s.kind \in {"constant", "intermediate"}
  BY <1>2
<1>4. /\ use' = use /\ stage' = stage /\ parts' = parts /\ chain' = chain /\ held' = held /\ eval' = eval
  BY DEF Return
<1>5. /\ calculations' \in Seq(CalcSet) /\ means' \in Seq(Meanings)
      /\ Len(means') = Len(calculations')
  BY <1>2 DEF Faithful, GraphTypes
<1>6. /\ Threes(constants')
      /\ AllDenote(constants', rotations', means', stack, {"constant", "intermediate"})
      /\ AllDenote(constants', rotations', means', held, {"intermediate"})
      /\ DefinedAll(constants', rotations', Len(means'), parts)
      /\ Sums(constants', rotations', means', chain, FirstSource(use), parts, Factor)
  BY <1>2, <1>5, GraphGrows
<1>7. /\ Entry(s, root, value) \in StackEntries
      /\ Entry(s, root, value).src = s /\ Entry(s, root, value).value = value
  <2>1. s \in SourceSet
    BY <1>3 DEF Denotes, Defined
  <2> QED BY <2>1 DEF Entry, StackEntries
<1>8. /\ stack' \in Seq(StackEntries) /\ Len(stack') = Len(below) + 1
      /\ stack'[Len(below) + 1] = Entry(s, root, value)
      /\ \A i \in 1 .. Len(below) : stack'[i] = below[i]
  BY <1>3, <1>7
<1>9. GraphTypeOK'
  <2>1. GraphTypeOK
    BY DEF IInv
  <2>2. stack' \in Seq([src : SourceSet, root : {"constant", "negated", "node"}, value : Values])
    BY <1>8 DEF StackEntries, Roots
  <2>3. means' \in Seq([value : Values, sums : Seq(Values)])
    BY <1>5 DEF Meanings
  <2> QED BY <1>4, <1>5, <2>1, <2>2, <2>3 DEF GraphTypeOK
<1>10. AllDenote(constants', rotations', means', stack', {"constant", "intermediate"})
  <2>1. \A i \in 1 .. Len(stack) :
          /\ Denotes(constants', rotations', means', stack[i].src, stack[i].value)
          /\ stack[i].src.kind \in {"constant", "intermediate"}
    BY <1>6 DEF AllDenote
  <2>2. ASSUME NEW i \in 1 .. Len(stack')
        PROVE  /\ Denotes(constants', rotations', means', stack'[i].src, stack'[i].value)
               /\ stack'[i].src.kind \in {"constant", "intermediate"}
    <3>1. CASE i = Len(below) + 1
      BY <1>3, <1>7, <1>8, <3>1
    <3>2. CASE i \in 1 .. Len(below)
      <4>1. PICK j \in 1 .. Len(stack) : below[i] = stack[j]
        BY <3>2
      <4>2. stack'[i] = stack[j]
        BY <1>8, <3>2, <4>1
      <4> QED BY <2>1, <4>2
    <3> QED BY <1>8, <3>1, <3>2
  <2> QED BY <2>2 DEF AllDenote
<1>11. Operands'
  <2>1. Factor' = Factor
    BY <1>4 DEF Factor
  <2> QED BY <1>4, <1>6, <1>10, <2>1 DEF Operands
<1>12. Stages'
  <2>1. Unmentioned({"previous", "gamma", "beta"}) /\ Len(held) <= 1 /\ (use # "lookup" => held = << >>)
    BY DEF IInv, Stages
  <2>2. Unmentioned({"previous", "gamma", "beta"})'
    BY <1>2, <2>1 DEF Unmentioned, NodeKinds, ColumnTypes
  <2> QED BY <1>4, <2>1, <2>2 DEF Stages
<1>13. Rows0 /\ Rows0'
  BY <1>4 DEF IInv, Rows0
<1> QED BY <1>2, <1>4, <1>6, <1>9, <1>11, <1>12, <1>13 DEF IInv

(* The graph as the leaves and the nodes of an expression find it. *)
LEMMA Found0 ==
  ASSUME IInv
  PROVE  /\ constants \in Seq(F) /\ rotations \in Seq(Int) /\ means \in Seq(Meanings)
         /\ stack \in Seq(StackEntries) /\ Threes(constants) /\ Len(constants) \in Nat
         /\ leaves \in 0 .. MaxLeaves /\ negations \in 0 .. MaxNegations
         /\ Grows(constants, constants) /\ Grows(rotations, rotations)
<1>1. constants \in Seq(F) /\ rotations \in Seq(Int)
  BY DEF IInv, GraphTypeOK
<1>2. means \in Seq(Meanings)
  BY DEF IInv, GraphTypeOK, Meanings
<1>3. stack \in Seq(StackEntries)
  BY DEF IInv, GraphTypeOK, StackEntries, Roots
<1>4. leaves \in 0 .. MaxLeaves /\ negations \in 0 .. MaxNegations
  BY DEF IInv, GraphTypeOK
<1>5. Threes(constants)
  BY DEF IInv
<1> QED BY <1>1, <1>2, <1>3, <1>4, <1>5, GrowsLen

LEMMA LeafConstantStep == ASSUME IInv, LeafConstant PROVE IInv'
<1>1. /\ stage = "expressions" /\ leaves' = leaves + 1 /\ leaves < MaxLeaves /\ negations' = negations
      /\ rotations' = rotations
  BY DEF LeafConstant, Leaf
<1>2. PICK c \in Scalars, negated \in BOOLEAN :
        LET k == IF negated THEN Neg(c) ELSE c IN
        /\ constants' = With(constants, k)
        /\ Return(stack, Is(Const(Position(With(constants, k), k))),
                  IF negated THEN "negated" ELSE "constant", [line \in Lines |-> k])
  BY DEF LeafConstant
<1> DEFINE k == IF negated THEN Neg(c) ELSE c
           i == Position(With(constants, k), k)
           root == IF negated THEN "negated" ELSE "constant"
           value == [line \in Lines |-> k]
<1>3. k \in F
  BY FieldAssumption, GraphAssumption
<1>4. constants' = With(constants, k) /\ Return(stack, Is(Const(i)), root, value)
  BY <1>2
<1>5. root \in Roots
  BY DEF Roots
<1> HIDE DEF k, root
<1>6. /\ constants' \in Seq(F) /\ Grows(constants, constants')
      /\ i \in 1 .. Len(constants') /\ constants'[i] = k
  BY <1>3, <1>4, WithGrows, Found0
<1>7. value \in Values /\ \A line \in Lines : value[line] = k
  BY <1>3 DEF Values
<1> HIDE DEF i, value
<1>8. Denotes(constants', rotations', means, Const(i), value) /\ Const(i).kind = "constant"
  <2>1. Const(i).kind = "constant" /\ Const(i).index = i /\ Const(i) \in SourceSet
    BY <1>6 DEF Const, Src, SourceSet
  <2>2. Defined(constants', rotations', Len(means), Const(i))
    BY <1>6, <2>1 DEF Defined, ColumnTypes
  <2>3. \A line \in Lines : Worth(constants', rotations', means, Const(i), line) = constants'[i]
    BY <2>1, WorthCases
  <2> QED BY <1>6, <1>7, <2>1, <2>2, <2>3 DEF Denotes
<1>9. NodeMeans(constants', rotations', means, Is(Const(i)), value)
  BY <1>8, IsMeans
<1>10. /\ leaves' \in 0 .. MaxLeaves /\ negations' \in 0 .. MaxNegations
       /\ rotations' \in Seq(Int) /\ Grows(rotations, rotations') /\ stack \in Seq(StackEntries)
  BY <1>1, Found0, GraphAssumption
<1> QED BY <1>1, <1>4, <1>5, <1>6, <1>7, <1>9, <1>10, ReturnStep

(* A query or a challenge is stored. *)
LEMMA StoreMeans ==
  ASSUME NEW cs, NEW rs, NEW ms, NEW s, Defined(cs, rs, Len(ms), s), s.kind \in NodeKinds,
         NEW value, \A line \in Lines : value[line] = Worth(cs, rs, ms, s, line)
  PROVE  NodeMeans(cs, rs, ms, New(Calc("store", s, s)), value)
<1>1. \A line \in Lines :
        value[line] = Apply2("store", Worth(cs, rs, ms, s, line), Worth(cs, rs, ms, s, line))
  BY Apply2Cases
<1>2. "store" \in Ops1
  BY DEF Ops1
<1> QED BY <1>1, <1>2, NewMeans

LEMMA LeafQueryStep == ASSUME IInv, LeafQuery PROVE IInv'
<1>1. /\ stage = "expressions" /\ leaves' = leaves + 1 /\ leaves < MaxLeaves /\ negations' = negations
      /\ constants' = constants
  BY DEF LeafQuery, Leaf
<1>2. PICK col \in Columns, rot \in Rotations :
        /\ rotations' = With(rotations, rot)
        /\ LET s == Src(col[1], col[2], Position(With(rotations, rot), rot)) IN
           Return(stack, New(Calc("store", s, s)), "node",
                  [line \in Lines |-> Cell(col[1], col[2], line, rot)])
  BY DEF LeafQuery
<1> DEFINE i == Position(With(rotations, rot), rot)
           s == Src(col[1], col[2], i)
           value == [line \in Lines |-> Cell(col[1], col[2], line, rot)]
<1>3. Return(stack, New(Calc("store", s, s)), "node", value)
  BY <1>2
<1>4. rot \in Int /\ col \in ColumnTypes \X Nat /\ col = <<col[1], col[2]>>
  BY GraphAssumption
<1>5. /\ rotations' \in Seq(Int) /\ Grows(rotations, rotations')
      /\ i \in 1 .. Len(rotations') /\ rotations'[i] = rot
  <2>1. rotations \in Seq(Int)
    BY Found0
  <2>2. \A x \in Int : /\ With(rotations, x) \in Seq(Int) /\ Grows(rotations, With(rotations, x))
                       /\ Position(With(rotations, x), x) \in 1 .. Len(With(rotations, x))
                       /\ With(rotations, x)[Position(With(rotations, x), x)] = x
    BY <2>1, WithGrows
  <2> QED BY <1>2, <1>4, <2>2
<1> HIDE DEF i
<1>6. /\ s.kind = col[1] /\ s.index = col[2] /\ s.rotation = i /\ s \in SourceSet
      /\ s.kind \in ColumnTypes
  BY <1>4, <1>5 DEF Src, SourceSet
<1>7. \A line \in Lines : Cell(col[1], col[2], line, rot) \in F
  <2>1. \A line \in Lines : RotatedLine(line, rot) \in Lines
    BY <1>4, RotatedLineType
  <2> QED BY <1>4, <2>1, GraphAssumption DEF Cell
<1>8. value \in Values /\ \A line \in Lines : value[line] = Cell(col[1], col[2], line, rot)
  BY <1>7 DEF Values
<1> HIDE DEF s, value
<1>9. Defined(constants', rotations', Len(means), s)
  <2>1. <<s.kind, s.index>> \in Columns
    BY <1>4, <1>6
  <2> QED BY <1>5, <1>6, <2>1 DEF Defined, ColumnTypes
<1>10. \A line \in Lines : Worth(constants', rotations', means, s, line) = value[line]
  <2>1. \A line \in Lines : Worth(constants', rotations', means, s, line)
                              = Cell(s.kind, s.index, line, rotations'[s.rotation])
    BY <1>6, WorthCases
  <2> QED BY <1>5, <1>6, <1>8, <2>1
<1>11. NodeMeans(constants', rotations', means, New(Calc("store", s, s)), value)
  <2>1. s.kind \in NodeKinds
    BY <1>6 DEF NodeKinds
  <2> QED BY <1>9, <1>10, <2>1, StoreMeans
<1>12. /\ leaves' \in 0 .. MaxLeaves /\ negations' \in 0 .. MaxNegations
       /\ constants' \in Seq(F) /\ Grows(constants, constants') /\ stack \in Seq(StackEntries)
  BY <1>1, Found0, GraphAssumption
<1>13. "node" \in Roots
  BY DEF Roots
<1> QED BY <1>1, <1>3, <1>5, <1>8, <1>11, <1>12, <1>13, ReturnStep

LEMMA LeafChallengeStep == ASSUME IInv, LeafChallenge PROVE IInv'
<1>1. /\ stage = "expressions" /\ leaves' = leaves + 1 /\ leaves < MaxLeaves /\ negations' = negations
      /\ constants' = constants /\ rotations' = rotations
  BY DEF LeafChallenge, Leaf
<1>2. PICK i \in 1 .. Len(Challenges) :
        LET s == Src("challenge", i, 0) IN
        Return(stack, New(Calc("store", s, s)), "node", [line \in Lines |-> Challenges[i]])
  BY DEF LeafChallenge
<1> DEFINE s == Src("challenge", i, 0)
           value == [line \in Lines |-> Challenges[i]]
<1>3. Return(stack, New(Calc("store", s, s)), "node", value)
  BY <1>2
<1>4. s.kind = "challenge" /\ s.index = i /\ s \in SourceSet
  BY DEF Src, SourceSet
<1>5. value \in Values /\ \A line \in Lines : value[line] = Challenges[i]
  BY GraphAssumption DEF Values
<1> HIDE DEF s, value
<1>6. Defined(constants', rotations', Len(means), s)
  BY <1>4 DEF Defined, ColumnTypes
<1>7. \A line \in Lines : Worth(constants', rotations', means, s, line) = value[line]
  BY <1>4, <1>5, WorthCases
<1>8. NodeMeans(constants', rotations', means, New(Calc("store", s, s)), value)
  <2>1. s.kind \in NodeKinds
    BY <1>4 DEF NodeKinds
  <2> QED BY <1>6, <1>7, <2>1, StoreMeans
<1>9. /\ leaves' \in 0 .. MaxLeaves /\ negations' \in 0 .. MaxNegations
      /\ constants' \in Seq(F) /\ Grows(constants, constants') /\ stack \in Seq(StackEntries)
      /\ rotations' \in Seq(Int) /\ Grows(rotations, rotations')
  BY <1>1, Found0, GraphAssumption
<1>10. "node" \in Roots
  BY DEF Roots
<1> QED BY <1>1, <1>3, <1>5, <1>8, <1>9, <1>10, ReturnStep

LEMMA PoppedStack ==
  ASSUME stack \in Seq(StackEntries), NEW n \in 1 .. 2, Len(stack) >= n
  PROVE  /\ Popped(n) \in Seq(StackEntries)
         /\ \A i \in 1 .. Len(Popped(n)) : \E j \in 1 .. Len(stack) : Popped(n)[i] = stack[j]
<1>1. Len(stack) \in Nat /\ 1 <= Len(stack) - n + 1 /\ Len(stack) - n <= Len(stack)
  OBVIOUS
<1>2. /\ Popped(n) \in Seq(StackEntries) /\ Len(Popped(n)) = Len(stack) - n
      /\ \A i \in 1 .. Len(stack) - n : Popped(n)[i] = stack[i]
  BY <1>1 DEF Popped
<1> QED BY <1>1, <1>2

LEMMA StackOperands ==
  ASSUME IInv, Len(stack) >= 1
  PROVE  /\ Operand(constants, rotations, means, Top.src, Top.value)
         /\ Top.value \in Values
         /\ Len(stack) >= 2 => /\ Operand(constants, rotations, means, Under.src, Under.value)
                               /\ Under.value \in Values
<1>1. AllDenote(constants, rotations, means, stack, {"constant", "intermediate"})
  BY DEF IInv, Operands
<1>2. stack \in Seq(StackEntries) /\ Len(stack) \in Nat
  BY Found0
<1>3. \A i \in 1 .. Len(stack) :
        /\ Operand(constants, rotations, means, stack[i].src, stack[i].value)
        /\ stack[i].value \in Values
  <2>1. \A i \in 1 .. Len(stack) : stack[i] \in StackEntries
    BY <1>2
  <2>2. \A e \in StackEntries : e.value \in Values
    BY DEF StackEntries
  <2> QED BY <1>1, <2>1, <2>2 DEF AllDenote, Operand
<1>4. Len(stack) \in 1 .. Len(stack) /\ (Len(stack) >= 2 => Len(stack) - 1 \in 1 .. Len(stack))
  BY <1>2
<1> QED BY <1>3, <1>4 DEF Top, Under

(* A node over the operands on top of the stack. *)
LEMMA NodeStep ==
  ASSUME IInv, Node, NEW n \in 1 .. 2, Len(stack) >= n, negations' \in 0 .. MaxNegations,
         NEW node, NEW value \in Values, NEW root \in Roots,
         NodeMeans(constants, rotations, means, node, value), Return(Popped(n), node, root, value)
  PROVE  IInv'
<1>1. /\ stage = "expressions" /\ constants' = constants /\ rotations' = rotations /\ leaves' = leaves
  BY DEF Node
<1>2. /\ constants \in Seq(F) /\ rotations \in Seq(Int) /\ stack \in Seq(StackEntries)
      /\ leaves \in 0 .. MaxLeaves /\ Grows(constants, constants) /\ Grows(rotations, rotations)
  BY Found0
<1>3. /\ constants' \in Seq(F) /\ rotations' \in Seq(Int) /\ leaves' \in 0 .. MaxLeaves
      /\ Grows(constants, constants') /\ Grows(rotations, rotations')
      /\ NodeMeans(constants', rotations', means, node, value)
  BY <1>1, <1>2
<1>4. /\ Popped(n) \in Seq(StackEntries)
      /\ \A i \in 1 .. Len(Popped(n)) : \E j \in 1 .. Len(stack) : Popped(n)[i] = stack[j]
  BY <1>2, PoppedStack
<1> QED BY <1>1, <1>3, <1>4, ReturnStep

LEMMA NegatedStep == ASSUME IInv, Negated PROVE IInv'
<1> DEFINE value == [line \in Lines |-> Neg(Top.value[line])]
<1>1. /\ Node /\ Len(stack) >= 1 /\ negations' = negations + 1 /\ negations < MaxNegations
      /\ Return(Popped(1), NegationOf(Top.src), "negated", value)
  BY DEF Negated
<1>2. Operand(constants, rotations, means, Top.src, Top.value) /\ Top.value \in Values
  BY <1>1, StackOperands
<1>3. value \in Values /\ \A line \in Lines : value[line] = Neg(Top.value[line])
  BY <1>2, FieldAssumption DEF Values
<1> HIDE DEF value
<1>4. Threes(constants) /\ negations' \in 0 .. MaxNegations /\ "negated" \in Roots
  BY <1>1, Found0, GraphAssumption DEF Roots
<1>5. NodeMeans(constants, rotations, means, NegationOf(Top.src), value)
  BY <1>2, <1>3, <1>4, NegationMeans
<1> QED BY <1>1, <1>3, <1>4, <1>5, NodeStep

LEMMA Sum2Step == ASSUME IInv, Sum2 PROVE IInv'
<1> DEFINE value == [line \in Lines |-> Plus(Under.value[line], Top.value[line])]
<1>1. /\ Node /\ Len(stack) >= 2 /\ negations' = negations
      /\ Return(Popped(2), SumOf(Under.src, Top.src), "node", value)
  BY DEF Sum2
<1>2. /\ Operand(constants, rotations, means, Top.src, Top.value) /\ Top.value \in Values
      /\ Operand(constants, rotations, means, Under.src, Under.value) /\ Under.value \in Values
  <2>1. Len(stack) >= 1
    BY <1>1, Found0
  <2> QED BY <1>1, <2>1, StackOperands
<1>3. value \in Values /\ \A line \in Lines : value[line] = Plus(Under.value[line], Top.value[line])
  BY <1>2, FieldAssumption DEF Values
<1> HIDE DEF value
<1>4. Threes(constants) /\ negations' \in 0 .. MaxNegations /\ "node" \in Roots
  BY <1>1, Found0 DEF Roots
<1>5. NodeMeans(constants, rotations, means, SumOf(Under.src, Top.src), value)
  BY <1>2, <1>3, <1>4, SumMeans
<1> QED BY <1>1, <1>3, <1>4, <1>5, NodeStep

LEMMA DifferenceStep == ASSUME IInv, Difference PROVE IInv'
<1> DEFINE value == [line \in Lines |-> Plus(Under.value[line], Neg(Top.value[line]))]
<1>1. /\ Node /\ Len(stack) >= 2 /\ negations' = negations
      /\ Return(Popped(2), DifferenceOf(Under.src, Top.src), "node", value)
  BY DEF Difference
<1>2. /\ Operand(constants, rotations, means, Top.src, Top.value) /\ Top.value \in Values
      /\ Operand(constants, rotations, means, Under.src, Under.value) /\ Under.value \in Values
  <2>1. Len(stack) >= 1
    BY <1>1, Found0
  <2> QED BY <1>1, <2>1, StackOperands
<1>3. value \in Values /\ \A line \in Lines : value[line] = Plus(Under.value[line], Neg(Top.value[line]))
  BY <1>2, FieldAssumption DEF Values
<1> HIDE DEF value
<1>4. Threes(constants) /\ negations' \in 0 .. MaxNegations /\ "node" \in Roots
  BY <1>1, Found0 DEF Roots
<1>5. NodeMeans(constants, rotations, means, DifferenceOf(Under.src, Top.src), value)
  BY <1>2, <1>3, <1>4, DifferenceMeans
<1> QED BY <1>1, <1>3, <1>4, <1>5, NodeStep

LEMMA Product2Step == ASSUME IInv, Product2 PROVE IInv'
<1> DEFINE value == [line \in Lines |-> Times(Under.value[line], Top.value[line])]
<1>1. /\ Node /\ Len(stack) >= 2 /\ negations' = negations
      /\ Return(Popped(2), ProductOf(Under.src, Top.src), "node", value)
  BY DEF Product2
<1>2. /\ Operand(constants, rotations, means, Top.src, Top.value) /\ Top.value \in Values
      /\ Operand(constants, rotations, means, Under.src, Under.value) /\ Under.value \in Values
  <2>1. Len(stack) >= 1
    BY <1>1, Found0
  <2> QED BY <1>1, <2>1, StackOperands
<1>3. value \in Values /\ \A line \in Lines : value[line] = Times(Under.value[line], Top.value[line])
  BY <1>2, FieldAssumption DEF Values
<1> HIDE DEF value
<1>4. Threes(constants) /\ Len(constants) \in Nat /\ negations' \in 0 .. MaxNegations /\ "node" \in Roots
  BY <1>1, Found0 DEF Roots
<1>5. NodeMeans(constants, rotations, means, ProductOf(Under.src, Top.src), value)
  BY <1>2, <1>3, <1>4, ProductMeans
<1> QED BY <1>1, <1>3, <1>4, <1>5, NodeStep

-----------------------------------------------------------------------------
(* Horner's rule, one expression more. *)
LEMMA SumsAppend ==
  ASSUME NEW cs, NEW rs, NEW ms, NEW sums \in Seq(Values), NEW first, NEW list \in Seq(SourceSet), NEW by,
         Sums(cs, rs, ms, sums, first, list, by), NEW s \in SourceSet, NEW next \in Values,
         \A line \in Lines : next[line] =
           Plus(Times(sums[Len(sums)][line], Worth(cs, rs, ms, by, line)), Worth(cs, rs, ms, s, line))
  PROVE  Sums(cs, rs, ms, Append(sums, next), first, Append(list, s), by)
<1> DEFINE n == Len(list)
           more == Append(sums, next)
           longer == Append(list, s)
<1>1. n \in Nat /\ Len(sums) = n + 1
  BY DEF Sums
<1>2. /\ Len(more) = n + 2 /\ more[n + 2] = next
      /\ \A i \in 1 .. n + 1 : more[i] = sums[i]
  BY <1>1
<1>3. /\ Len(longer) = n + 1 /\ longer[n + 1] = s
      /\ \A i \in 1 .. n : longer[i] = list[i]
  BY <1>1
<1>4. \A line \in Lines :
        /\ sums[1][line] = Worth(cs, rs, ms, first, line)
        /\ \A i \in 1 .. n :
             sums[i + 1][line] = Plus(Times(sums[i][line], Worth(cs, rs, ms, by, line)),
                                      Worth(cs, rs, ms, list[i], line))
  BY DEF Sums
<1> HIDE DEF more, longer, n
<1>5. SUFFICES /\ Len(more) = Len(longer) + 1
               /\ \A line \in Lines :
                    /\ more[1][line] = Worth(cs, rs, ms, first, line)
                    /\ \A i \in 1 .. Len(longer) :
                         more[i + 1][line] = Plus(Times(more[i][line], Worth(cs, rs, ms, by, line)),
                                                  Worth(cs, rs, ms, longer[i], line))
  BY DEF Sums, more, longer
<1>6. Len(more) = Len(longer) + 1
  BY <1>1, <1>2, <1>3
<1>7. ASSUME NEW line \in Lines
      PROVE  more[1][line] = Worth(cs, rs, ms, first, line)
  <2>1. more[1] = sums[1]
    BY <1>1, <1>2
  <2> QED BY <1>4, <2>1
<1>8. ASSUME NEW line \in Lines, NEW i \in 1 .. Len(longer)
      PROVE  more[i + 1][line] = Plus(Times(more[i][line], Worth(cs, rs, ms, by, line)),
                                      Worth(cs, rs, ms, longer[i], line))
  <2>1. CASE i \in 1 .. n
    <3>1. more[i + 1] = sums[i + 1] /\ more[i] = sums[i] /\ longer[i] = list[i]
      BY SMTT(40), <1>1, <1>2, <1>3, <2>1
    <3> QED BY <1>4, <2>1, <3>1
  <2>2. CASE i = n + 1
    <3>1. more[i + 1] = next /\ more[i] = sums[Len(sums)] /\ longer[i] = s
      BY <1>1, <1>2, <1>3, <2>2
    <3> QED BY <3>1
  <2> QED BY <1>1, <1>3, <2>1, <2>2
<1> QED BY <1>6, <1>7, <1>8

LEMMA EndsWorth ==
  ASSUME NEW cs, NEW rs, NEW ms, Threes(cs), NEW line \in Lines
  PROVE  /\ Worth(cs, rs, ms, Factor, line) = FactorOf(use)
         /\ Worth(cs, rs, ms, FirstSource(use), line) = FirstSum(use)[line]
<1>1. /\ Worth(cs, rs, ms, Scalar("y"), line) = Y
      /\ Worth(cs, rs, ms, Scalar("theta"), line) = Theta
      /\ Worth(cs, rs, ms, Scalar("previous"), line) = Previous[line]
  BY WorthCases DEF Scalar, Src
<1>2. Worth(cs, rs, ms, Const(1), line) = Zero
  BY ConstWorth
<1>3. CASE use = "gates"
  BY <1>1, <1>3 DEF Factor, FactorOf, FirstSource, FirstSum
<1>4. CASE use # "gates"
  BY <1>1, <1>2, <1>4 DEF Factor, FactorOf, FirstSource, FirstSum
<1> QED BY <1>3, <1>4

LEMMA EndExpressionStep == ASSUME IInv, EndExpression PROVE IInv'
<1> DEFINE next == [line \in Lines |-> Plus(Times(chain[Len(chain)][line], FactorOf(use)), Top.value[line])]
<1>1. /\ stage = "expressions" /\ Len(stack) = 1
      /\ parts' = Append(parts, Top.src) /\ chain' = Append(chain, next) /\ stack' = << >>
      /\ use' = use /\ stage' = stage /\ held' = held /\ eval' = eval
      /\ constants' = constants /\ rotations' = rotations /\ calculations' = calculations
      /\ means' = means /\ leaves' = leaves /\ negations' = negations
  BY DEF EndExpression, graph, bounds
<1>2. /\ Operand(constants, rotations, means, Top.src, Top.value) /\ Top.value \in Values
  BY <1>1, StackOperands
<1>3. /\ GraphTypeOK /\ Threes(constants) /\ Operands /\ Stages /\ Rows0
      /\ Faithful(constants, rotations, calculations, means)
  BY <1>1 DEF IInv
<1>4. /\ parts \in Seq(SourceSet) /\ chain \in Seq(Values) /\ Len(chain) = Len(parts) + 1
  BY <1>3 DEF GraphTypeOK
<1>5. FactorOf(use) \in F /\ chain[Len(chain)] \in Values
  <2>1. Len(chain) \in 1 .. Len(chain)
    BY <1>4
  <2> QED BY <1>4, <2>1, GraphAssumption DEF FactorOf
<1>6. next \in Values /\ \A line \in Lines :
        next[line] = Plus(Times(chain[Len(chain)][line], FactorOf(use)), Top.value[line])
  BY <1>2, <1>5, FieldAssumption DEF Values
<1> HIDE DEF next
<1>7. /\ Top.src \in SourceSet /\ Defined(constants, rotations, Len(means), Top.src)
      /\ \A line \in Lines : Worth(constants, rotations, means, Top.src, line) = Top.value[line]
  BY <1>2 DEF Operand, Denotes, Defined
<1>8. Sums(constants, rotations, means, chain', FirstSource(use), parts', Factor)
  <2>1. \A line \in Lines : next[line] =
          Plus(Times(chain[Len(chain)][line], Worth(constants, rotations, means, Factor, line)),
               Worth(constants, rotations, means, Top.src, line))
    <3>1. \A line \in Lines : Worth(constants, rotations, means, Factor, line) = FactorOf(use)
      BY <1>3, EndsWorth
    <3> QED BY <1>6, <1>7, <3>1
  <2>2. Sums(constants, rotations, means, chain, FirstSource(use), parts, Factor)
    BY <1>3 DEF Operands
  <2>3. Sums(constants, rotations, means, Append(chain, next), FirstSource(use), Append(parts, Top.src), Factor)
    BY <1>4, <1>6, <1>7, <2>1, <2>2, SumsAppend
  <2> QED BY <1>1, <2>3
<1>9. DefinedAll(constants, rotations, Len(means), parts')
  <2>1. \A i \in 1 .. Len(parts) + 1 :
          Append(parts, Top.src)[i] = IF i = Len(parts) + 1 THEN Top.src ELSE parts[i]
    BY <1>4, <1>7
  <2>2. Len(Append(parts, Top.src)) = Len(parts) + 1 /\ Len(parts) \in Nat
    BY <1>4, <1>7
  <2>3. \A i \in 1 .. Len(parts) : Defined(constants, rotations, Len(means), parts[i])
    BY <1>3 DEF Operands, DefinedAll
  <2>4. \A i \in 1 .. Len(parts) + 1 : Defined(constants, rotations, Len(means), Append(parts, Top.src)[i])
    BY <1>7, <2>1, <2>2, <2>3
  <2> QED BY <1>1, <2>2, <2>4 DEF DefinedAll
<1>10. /\ parts' \in Seq(SourceSet) /\ chain' \in Seq(Values) /\ Len(chain') = Len(parts') + 1
  BY <1>1, <1>4, <1>6, <1>7
<1>11. GraphTypeOK'
  <2>1. stack' \in Seq([src : SourceSet, root : {"constant", "negated", "node"}, value : Values])
    BY <1>1
  <2> QED BY <1>1, <1>3, <1>10, <2>1 DEF GraphTypeOK
<1>12. Operands'
  <2>1. AllDenote(constants, rotations, means, << >>, {"constant", "intermediate"})
    BY DEF AllDenote
  <2>2. Factor' = Factor
    BY <1>1 DEF Factor
  <2>3. AllDenote(constants, rotations, means, held, {"intermediate"})
    BY <1>3 DEF Operands
  <2> QED BY <1>1, <1>8, <1>9, <2>1, <2>2, <2>3 DEF Operands
<1>13. Stages' /\ Rows0'
  BY <1>1, <1>3 DEF Stages, Unmentioned, LastHeld, Rows0
<1> QED BY <1>1, <1>3, <1>11, <1>12, <1>13 DEF IInv

(* A compressed list, or what is made of one, is held. *)
LEMMA HeldStep ==
  ASSUME IInv, stage # "rows", stage' \in {"expressions", "gamma", "beta", "product", "rows"},
         UNCHANGED <<use, constants, rotations, stack, leaves, negations>>,
         parts' \in Seq(SourceSet), chain' \in Seq(Values), Len(chain') = Len(parts') + 1,
         DefinedAll(constants, rotations, Len(means), parts'),
         Sums(constants, rotations, means, chain', FirstSource(use), parts', Factor),
         NEW c \in CalcSet, NEW value \in Values, NEW sums \in Seq(Values),
         DefinedCalc(constants, rotations, Len(means), c),
         Means(constants, rotations, means, c, [value |-> value, sums |-> sums]),
         AddCalculation(c, value, sums),
         held' = Append(held, HeldEntry(c, value)), Compiled(calculations')
  PROVE  /\ GraphTypeOK' /\ Threes(constants)' /\ Operands' /\ Rows0'
         /\ Faithful(constants', rotations', calculations', means')
         /\ \A k \in 1 .. Len(calculations') :
              calculations'[k] = c \/ \E j \in 1 .. Len(calculations) : calculations'[k] = calculations[j]
         /\ Len(calculations') \in Nat /\ Len(calculations') >= 1
         /\ Len(eval'.inter) = Len(calculations')
         /\ Len(held') = Len(held) + 1
         /\ ~ Holds(calculations, c) => LastHeld'
<1>1. /\ use' = use /\ constants' = constants /\ rotations' = rotations /\ stack' = stack
      /\ leaves' = leaves /\ negations' = negations
  OBVIOUS
<1>2. /\ GraphTypeOK /\ Threes(constants) /\ Operands /\ Rows0
      /\ Faithful(constants, rotations, calculations, means)
  BY DEF IInv
<1>3. /\ constants \in Seq(F) /\ rotations \in Seq(Int) /\ means \in Seq(Meanings)
      /\ Grows(constants, constants) /\ Grows(rotations, rotations)
      /\ Len(constants) \in Nat /\ Len(rotations) \in Nat /\ Len(means) \in Nat
  <2>1. /\ constants \in Seq(F) /\ rotations \in Seq(Int) /\ means \in Seq(Meanings)
    BY Found0
  <2> QED BY <2>1, GrowsLen
<1>4. /\ Faithful(constants', rotations', calculations', means')
      /\ Grows(means, means')
      /\ Denotes(constants', rotations', means', Found(c), value)
      /\ Found(c).kind = "intermediate"
      /\ \A k \in 1 .. Len(calculations') :
           calculations'[k] = c \/ \E j \in 1 .. Len(calculations) : calculations'[k] = calculations[j]
      /\ Len(calculations') >= 1
      /\ ~ Holds(calculations, c) => Found(c) = Intermediate(Len(calculations'))
  <2>1. /\ DefinedCalc(constants', rotations', Len(means), c)
        /\ Means(constants', rotations', means, c, [value |-> value, sums |-> sums])
        /\ constants' \in Seq(F) /\ rotations' \in Seq(Int)
        /\ Grows(constants, constants') /\ Grows(rotations, rotations')
    BY <1>1, <1>3
  <2> QED BY <1>2, <2>1, AddStep
<1>5. /\ calculations' \in Seq(CalcSet) /\ means' \in Seq(Meanings) /\ Len(means') = Len(calculations')
      /\ Len(means') \in Nat /\ Len(calculations') \in Nat
  <2>1. /\ calculations' \in Seq(CalcSet) /\ means' \in Seq(Meanings) /\ Len(means') = Len(calculations')
    BY <1>4 DEF Faithful, GraphTypes
  <2> QED BY <2>1
<1>6. /\ AllDenote(constants, rotations, means', stack, {"constant", "intermediate"})
      /\ AllDenote(constants, rotations, means', held, {"intermediate"})
  BY <1>3, <1>4, <1>5, GraphGrows
<1>7. /\ DefinedAll(constants, rotations, Len(means'), parts')
      /\ Sums(constants, rotations, means', chain', FirstSource(use), parts', Factor)
  <2>1. /\ Defined(constants, rotations, Len(means), FirstSource(use))
        /\ Defined(constants, rotations, Len(means), Factor)
    BY <1>2, <1>3, EndsDefined
  <2>2. Len(means) <= Len(means) /\ Len(means) <= Len(means')
    BY <1>3, <1>4 DEF Grows
  <2>3. /\ Sums(constants, rotations, means', chain', FirstSource(use), parts', Factor)
        /\ \A m \in Nat : Len(means) <= m => DefinedAll(constants, rotations, m, parts')
    BY <1>3, <1>4, <1>5, <2>1, <2>2, SumsGrow
  <2> QED BY <1>5, <2>2, <2>3
<1> DEFINE entry == HeldEntry(c, value)
<1>8. entry \in [src : SourceSet, value : Values] /\ entry.src = Found(c) /\ entry.value = value
  <2>1. Found(c) \in SourceSet
    BY <1>4 DEF Denotes, Defined
  <2> QED BY <2>1 DEF HeldEntry
<1> HIDE DEF entry
<1>9. held \in Seq([src : SourceSet, value : Values]) /\ held' = Append(held, entry)
  BY <1>2 DEF GraphTypeOK, entry
<1>10. /\ held' \in Seq([src : SourceSet, value : Values]) /\ Len(held') = Len(held) + 1
       /\ Len(held) \in Nat
       /\ held'[Len(held')] = entry /\ \A i \in 1 .. Len(held) : held'[i] = held[i]
  BY <1>8, <1>9
<1>11. AllDenote(constants, rotations, means', held', {"intermediate"})
  <2>1. /\ Denotes(constants, rotations, means', entry.src, entry.value)
        /\ entry.src.kind \in {"intermediate"}
    BY <1>1, <1>4, <1>8
  <2>2. ASSUME NEW i \in 1 .. Len(held')
        PROVE  /\ Denotes(constants, rotations, means', held'[i].src, held'[i].value)
               /\ held'[i].src.kind \in {"intermediate"}
    <3>1. CASE i = Len(held')
      BY <1>10, <2>1, <3>1
    <3>2. CASE i \in 1 .. Len(held)
      <4>1. held'[i] = held[i]
        BY <1>10, <3>2
      <4> QED BY <1>6, <3>2, <4>1 DEF AllDenote
    <3> QED BY <1>10, <3>1, <3>2
  <2> QED BY <2>2 DEF AllDenote
<1>12. Operands'
  <2>1. Factor' = Factor
    BY <1>1 DEF Factor
  <2> QED BY <1>1, <1>6, <1>7, <1>11, <2>1 DEF Operands
<1>13. /\ eval' = [eval EXCEPT !.inter = Blank2(Len(calculations'))]
       /\ Blank2(Len(calculations')) \in Seq(F) /\ Len(Blank2(Len(calculations'))) = Len(calculations')
  BY <1>5, FieldAssumption DEF Compiled, Blank2
<1>14. eval \in [line : 0 .. Size, at : Nat, term : Nat, acc : F, inter : Seq(F), results : Seq(F)]
  BY <1>2 DEF GraphTypeOK
<1>15. /\ eval' \in [line : 0 .. Size, at : Nat, term : Nat, acc : F, inter : Seq(F), results : Seq(F)]
       /\ eval'.inter = Blank2(Len(calculations')) /\ eval'.line = eval.line /\ eval'.at = eval.at
       /\ eval'.term = eval.term /\ eval'.results = eval.results
  BY <1>13, <1>14
<1>16. GraphTypeOK'
  <2>1. means' \in Seq([value : Values, sums : Seq(Values)])
    BY <1>5 DEF Meanings
  <2> QED BY <1>1, <1>2, <1>5, <1>10, <1>15, <2>1 DEF GraphTypeOK
<1>17. Rows0'
  BY <1>2, <1>15 DEF Rows0
<1>18. ~ Holds(calculations, c) => LastHeld'
  BY <1>4, <1>8, <1>10 DEF LastHeld
<1>19. Threes(constants)'
  BY <1>1, <1>2 DEF Threes
<1> QED BY <1>4, <1>5, <1>10, <1>12, <1>13, <1>15, <1>16, <1>17, <1>18, <1>19

(* The first row starts with nothing computed. *)
LEMMA RowsStart ==
  ASSUME Rows0', Len(calculations') \in Nat
  PROVE  RowsRight'
  BY DEF Rows0, RowsRight

LEMMA CompressStep == ASSUME IInv, Compress PROVE IInv'
<1> DEFINE c == Horner(FirstSource(use), parts, Factor)
           value == chain[Len(chain)]
<1>1. /\ stage = "expressions" /\ AddCalculation(c, value, chain)
      /\ held' = Append(held, HeldEntry(c, value)) /\ Compiled(calculations')
      /\ parts' = << >> /\ chain' = <<FirstSum(use)>>
      /\ use' = use /\ constants' = constants /\ rotations' = rotations /\ stack' = stack
      /\ leaves' = leaves /\ negations' = negations
  BY DEF Compress, bounds
<1>2. stage' = CASE use = "gates" -> "rows"
                 [] use = "shuffle" -> "gamma"
                 [] use = "lookup" -> IF held = << >> THEN "expressions" ELSE "gamma"
  BY DEF Compress
<1>3. /\ GraphTypeOK /\ Threes(constants) /\ Operands /\ Stages
  BY DEF IInv
<1>4. use \in {"gates", "lookup", "shuffle"}
  BY <1>3, GraphAssumption DEF GraphTypeOK
<1>5. /\ use = "gates" => stage' = "rows"
      /\ use = "shuffle" => stage' = "gamma"
      /\ use = "lookup" => stage' = IF held = << >> THEN "expressions" ELSE "gamma"
  BY <1>2, <1>4
<1>6. /\ parts \in Seq(SourceSet) /\ chain \in Seq(Values) /\ Len(chain) = Len(parts) + 1
      /\ Len(means) \in Nat /\ Len(constants) \in Nat
  BY <1>3, Found0 DEF GraphTypeOK
<1>7. value \in Values
  <2>1. Len(chain) \in 1 .. Len(chain)
    BY <1>6
  <2> QED BY <1>6, <2>1
<1>8. /\ Defined(constants, rotations, Len(means), FirstSource(use))
      /\ Defined(constants, rotations, Len(means), Factor)
  BY <1>3, <1>6, EndsDefined
<1>9. /\ c.op = "horner" /\ c.a = FirstSource(use) /\ c.b = Factor /\ c.parts = parts
  BY DEF Horner
<1>10. c \in CalcSet
  BY <1>6, <1>8 DEF Horner, CalcSet, Defined
<1>11. DefinedCalc(constants, rotations, Len(means), c)
  BY <1>3, <1>8, <1>9 DEF DefinedCalc, Operands
<1>12. Means(constants, rotations, means, c, [value |-> value, sums |-> chain])
  <2>1. Sums(constants, rotations, means, chain, FirstSource(use), parts, Factor)
    BY <1>3 DEF Operands
  <2>2. chain[Len(chain)] = chain[Len(parts) + 1]
    BY <1>6
  <2> QED BY <1>9, <2>1, <2>2 DEF Means
<1>13. FirstSum(use) \in Values
  BY GraphAssumption, FieldAssumption DEF FirstSum, Values
<1>14. /\ parts' \in Seq(SourceSet) /\ chain' \in Seq(Values) /\ Len(chain') = Len(parts') + 1
  BY <1>1, <1>13
<1>15. DefinedAll(constants, rotations, Len(means), parts')
  BY <1>1 DEF DefinedAll
<1>16. Sums(constants, rotations, means, chain', FirstSource(use), parts', Factor)
  <2>1. \A line \in Lines : Worth(constants, rotations, means, FirstSource(use), line) = FirstSum(use)[line]
    BY <1>3, EndsWorth
  <2>2. chain'[1] = FirstSum(use) /\ Len(chain') = 1 /\ Len(parts') = 0
    BY <1>1
  <2> QED BY <2>1, <2>2 DEF Sums
<1> HIDE DEF c, value
<1>17. stage' \in {"expressions", "gamma", "beta", "product", "rows"} /\ stage # "rows"
  BY <1>1, <1>4, <1>5
<1>18. /\ GraphTypeOK' /\ Threes(constants)' /\ Operands' /\ Rows0'
       /\ Faithful(constants', rotations', calculations', means')
       /\ \A k \in 1 .. Len(calculations') :
            calculations'[k] = c \/ \E j \in 1 .. Len(calculations) : calculations'[k] = calculations[j]
       /\ Len(calculations') \in Nat /\ Len(calculations') >= 1
       /\ Len(eval'.inter) = Len(calculations')
       /\ Len(held') = Len(held) + 1
       /\ ~ Holds(calculations, c) => LastHeld'
  BY <1>1, <1>6, <1>7, <1>10, <1>11, <1>12, <1>14, <1>15, <1>16, <1>17, HeldStep
<1>19. /\ Unmentioned({"previous", "gamma", "beta"}) /\ Len(held) <= 1 /\ (use # "lookup" => held = << >>)
       /\ Len(held) \in Nat /\ (Len(held) = 0 <=> held = << >>)
  BY <1>1, <1>3 DEF Stages, GraphTypeOK
<1>20. Factor.kind \in {"y", "theta"}
  BY DEF Factor, Scalar, Src
<1>21. CASE use = "gates"
  <2>1. c.a.kind = "previous"
    BY <1>9, <1>21 DEF FirstSource, Scalar, Src
  <2>2. ~ Holds(calculations, c)
    BY <1>19, <2>1 DEF Unmentioned, Holds
  <2>3. Stages'
    BY <1>5, <1>18, <1>19, <1>21, <2>2 DEF Stages
  <2>4. RowsRight'
    BY <1>18, RowsStart
  <2> QED BY <1>18, <2>3, <2>4 DEF IInv
<1>22. CASE use # "gates"
  <2>1. c.a.kind = "constant" /\ c.b.kind = "theta"
    BY <1>9, <1>22 DEF FirstSource, Factor, Const, Scalar, Src
  <2>2. Unmentioned({"previous", "gamma", "beta"})'
    BY <1>18, <1>19, <2>1 DEF Unmentioned
  <2>3. Unmentioned({"gamma", "beta"})'
    BY <2>2 DEF Unmentioned
  <2>4. CASE use = "shuffle"
    <3>1. stage' = "gamma" /\ Len(held') = 1 /\ use' = "shuffle"
      BY <1>1, <1>5, <1>18, <1>19, <2>4
    <3>2. Stages'
      BY <2>3, <3>1 DEF Stages
    <3> QED BY <1>18, <3>1, <3>2 DEF IInv
  <2>5. CASE use = "lookup" /\ held = << >>
    <3>1. stage' = "expressions" /\ Len(held') = 1 /\ use' = "lookup"
      BY <1>1, <1>5, <1>18, <1>19, <2>5
    <3>2. Stages'
      BY <2>2, <3>1 DEF Stages
    <3> QED BY <1>18, <3>1, <3>2 DEF IInv
  <2>6. CASE use = "lookup" /\ held # << >>
    <3>1. stage' = "gamma" /\ Len(held') = 2 /\ use' = "lookup"
      BY <1>1, <1>5, <1>18, <1>19, <2>6
    <3>2. Stages'
      BY <2>3, <3>1 DEF Stages
    <3> QED BY <1>18, <3>1, <3>2 DEF IInv
  <2> QED BY <1>4, <1>22, <2>4, <2>5, <2>6
<1> QED BY <1>21, <1>22

HeldEntries == [src : SourceSet, value : Values]

LEMMA HeldOperand ==
  ASSUME IInv, NEW i \in 1 .. Len(held)
  PROVE  /\ Defined(constants, rotations, Len(means), held[i].src)
         /\ \A line \in Lines : Worth(constants, rotations, means, held[i].src, line) = held[i].value[line]
         /\ held[i].src.kind = "intermediate" /\ held[i].value \in Values
         /\ \A line \in Lines : held[i].value[line] \in F
<1>1. AllDenote(constants, rotations, means, held, {"intermediate"})
  BY DEF IInv, Operands
<1>2. held \in Seq(HeldEntries)
  BY DEF IInv, GraphTypeOK, HeldEntries
<1>3. held[i].value \in Values
  <2>1. \A e \in HeldEntries : e.value \in Values
    BY DEF HeldEntries
  <2>2. held[i] \in HeldEntries
    BY <1>2
  <2> QED BY <2>1, <2>2
<1>4. \A line \in Lines : held[i].value[line] \in F
  BY <1>3 DEF Values
<1> QED BY <1>1, <1>3, <1>4 DEF AllDenote, Denotes

(* One calculation over what is held, and where it leaves the graph. *)
Closed(a, b, next) ==
  /\ GraphTypeOK' /\ Threes(constants)' /\ Operands' /\ Rows0'
  /\ Faithful(constants', rotations', calculations', means')
  /\ \A k \in 1 .. Len(calculations') :
       \/ calculations'[k].a = a /\ calculations'[k].b = b
       \/ \E j \in 1 .. Len(calculations) : calculations'[k] = calculations[j]
  /\ Len(calculations') \in Nat /\ Len(calculations') >= 1
  /\ Len(eval'.inter) = Len(calculations')
  /\ Len(held') = Len(held) + 1
  /\ (\A k \in 1 .. Len(calculations) : calculations[k].a # a \/ calculations[k].b # b) => LastHeld'
  /\ stage' = next

LEMMA CloseStep ==
  ASSUME IInv, stage # "rows", NEW op \in Ops1, NEW a, NEW b, NEW value \in Values, NEW next,
         next \in {"beta", "product", "rows"},
         Defined(constants, rotations, Len(means), a), Defined(constants, rotations, Len(means), b),
         \A line \in Lines : value[line] =
           Apply2(op, Worth(constants, rotations, means, a, line), Worth(constants, rotations, means, b, line)),
         Close(Calc(op, a, b), value, next)
  PROVE  Closed(a, b, next)
<1> DEFINE c == Calc(op, a, b)
<1>1. /\ AddCalculation(c, value, << >>)
      /\ held' = Append(held, HeldEntry(c, value)) /\ Compiled(calculations')
      /\ use' = use /\ constants' = constants /\ rotations' = rotations /\ stack' = stack
      /\ leaves' = leaves /\ negations' = negations /\ parts' = parts /\ chain' = chain
      /\ stage' = next
  BY DEF Close, bounds
<1>2. c.op = op /\ c.a = a /\ c.b = b /\ c.parts = << >>
  BY DEF Calc
<1>3. c \in CalcSet
  BY DEF Calc, CalcSet, Defined, Ops1
<1> HIDE DEF c
<1>4. DefinedCalc(constants, rotations, Len(means), c)
  BY <1>2 DEF DefinedCalc, DefinedAll
<1>5. Means(constants, rotations, means, c, [value |-> value, sums |-> << >>])
  BY <1>2 DEF Means, Ops1
<1>6. /\ parts' \in Seq(SourceSet) /\ chain' \in Seq(Values) /\ Len(chain') = Len(parts') + 1
  BY <1>1 DEF IInv, GraphTypeOK
<1>7. /\ DefinedAll(constants, rotations, Len(means), parts')
      /\ Sums(constants, rotations, means, chain', FirstSource(use), parts', Factor)
  BY <1>1 DEF IInv, Operands
<1>8. << >> \in Seq(Values) /\ stage' \in {"expressions", "gamma", "beta", "product", "rows"}
  BY <1>1
<1>9. /\ GraphTypeOK' /\ Threes(constants)' /\ Operands' /\ Rows0'
      /\ Faithful(constants', rotations', calculations', means')
      /\ \A k \in 1 .. Len(calculations') :
           calculations'[k] = c \/ \E j \in 1 .. Len(calculations) : calculations'[k] = calculations[j]
      /\ Len(calculations') \in Nat /\ Len(calculations') >= 1
      /\ Len(eval'.inter) = Len(calculations')
      /\ Len(held') = Len(held) + 1
      /\ ~ Holds(calculations, c) => LastHeld'
  BY <1>1, <1>3, <1>4, <1>5, <1>6, <1>7, <1>8, HeldStep
<1>10. (\A k \in 1 .. Len(calculations) : calculations[k].a # a \/ calculations[k].b # b)
         => ~ Holds(calculations, c)
  BY <1>2 DEF Holds
<1> QED BY <1>1, <1>2, <1>9, <1>10 DEF Closed

LEMMA AddGammaStep == ASSUME IInv, AddGamma PROVE IInv'
<1> DEFINE last == held[Len(held)]
           g == Scalar("gamma")
           value == [line \in Lines |-> Plus(last.value[line], Gamma)]
           next == IF use = "lookup" THEN "beta" ELSE "rows"
<1>1. stage = "gamma" /\ Close(Calc("add", last.src, g), value, next)
  BY DEF AddGamma
<1>2. /\ Unmentioned({"gamma", "beta"}) /\ use # "gates"
      /\ Len(held) = IF use = "lookup" THEN 2 ELSE 1
  BY <1>1 DEF IInv, Stages
<1>3. Len(held) \in 1 .. Len(held) /\ Len(held) \in Nat
  BY <1>2
<1>4. /\ Defined(constants, rotations, Len(means), last.src)
      /\ \A line \in Lines : Worth(constants, rotations, means, last.src, line) = last.value[line]
      /\ last.src.kind = "intermediate" /\ \A line \in Lines : last.value[line] \in F
  BY <1>3, HeldOperand
<1>5. g.kind = "gamma" /\ Defined(constants, rotations, Len(means), g)
      /\ \A line \in Lines : Worth(constants, rotations, means, g, line) = Gamma
  <2>1. g.kind = "gamma" /\ Defined(constants, rotations, Len(means), g)
    BY DEF Scalar, Src, Defined, SourceSet, ColumnTypes
  <2> QED BY <2>1, WorthCases
<1>6. value \in Values /\ \A line \in Lines : value[line] = Plus(last.value[line], Gamma)
  BY <1>4, FieldAssumption, GraphAssumption DEF Values
<1>7. next \in {"beta", "product", "rows"} /\ stage # "rows" /\ "add" \in Ops1
  BY <1>1 DEF Ops1
<1> HIDE DEF last, g, value, next
<1>8. \A line \in Lines : value[line] =
        Apply2("add", Worth(constants, rotations, means, last.src, line), Worth(constants, rotations, means, g, line))
  BY <1>4, <1>5, <1>6, Apply2Cases
<1>9. /\ GraphTypeOK' /\ Threes(constants)' /\ Operands' /\ Rows0'
      /\ Faithful(constants', rotations', calculations', means')
      /\ \A k \in 1 .. Len(calculations') :
           \/ calculations'[k].a = last.src /\ calculations'[k].b = g
           \/ \E j \in 1 .. Len(calculations) : calculations'[k] = calculations[j]
      /\ Len(calculations') \in Nat /\ Len(calculations') >= 1
      /\ Len(eval'.inter) = Len(calculations')
      /\ Len(held') = Len(held) + 1
      /\ (\A k \in 1 .. Len(calculations) : calculations[k].a # last.src \/ calculations[k].b # g) => LastHeld'
      /\ stage' = next
  <2>1. Closed(last.src, g, next)
    BY <1>1, <1>4, <1>5, <1>6, <1>7, <1>8, CloseStep
  <2> QED BY <2>1 DEF Closed
<1>10. \A k \in 1 .. Len(calculations) : calculations[k].b # g
  BY <1>2, <1>5 DEF Unmentioned
<1>11. CASE use = "lookup"
  <2>1. stage' = "beta" /\ Len(held') = 3
    BY <1>2, <1>9, <1>11 DEF next
  <2>2. Unmentioned({"beta"})'
    BY <1>2, <1>4, <1>5, <1>9 DEF Unmentioned
  <2>3. Stages'
    BY <2>1, <2>2 DEF Stages
  <2> QED BY <1>9, <2>1, <2>3 DEF IInv
<1>12. CASE use # "lookup"
  <2>1. stage' = "rows" /\ Len(held') >= 1
    BY <1>2, <1>9, <1>12 DEF next
  <2>2. Stages'
    BY <1>9, <1>10, <2>1 DEF Stages
  <2>3. RowsRight'
    BY <1>9, RowsStart
  <2> QED BY <1>9, <2>1, <2>2, <2>3 DEF IInv
<1> QED BY <1>11, <1>12

LEMMA AddBetaStep == ASSUME IInv, AddBeta PROVE IInv'
<1> DEFINE first == held[1]
           g == Scalar("beta")
           value == [line \in Lines |-> Plus(first.value[line], Beta)]
<1>1. stage = "beta" /\ Close(Calc("add", first.src, g), value, "product")
  BY DEF AddBeta
<1>2. Unmentioned({"beta"}) /\ Len(held) = 3
  BY <1>1 DEF IInv, Stages
<1>3. 1 \in 1 .. Len(held)
  BY <1>2
<1>4. /\ Defined(constants, rotations, Len(means), first.src)
      /\ \A line \in Lines : Worth(constants, rotations, means, first.src, line) = first.value[line]
      /\ \A line \in Lines : first.value[line] \in F
  BY <1>3, HeldOperand
<1>5. g.kind = "beta" /\ Defined(constants, rotations, Len(means), g)
      /\ \A line \in Lines : Worth(constants, rotations, means, g, line) = Beta
  <2>1. g.kind = "beta" /\ Defined(constants, rotations, Len(means), g)
    BY DEF Scalar, Src, Defined, SourceSet, ColumnTypes
  <2> QED BY <2>1, WorthCases
<1>6. value \in Values /\ \A line \in Lines : value[line] = Plus(first.value[line], Beta)
  BY <1>4, FieldAssumption, GraphAssumption DEF Values
<1>7. "product" \in {"beta", "product", "rows"} /\ stage # "rows" /\ "add" \in Ops1
  BY <1>1 DEF Ops1
<1> HIDE DEF first, g, value
<1>8. \A line \in Lines : value[line] =
        Apply2("add", Worth(constants, rotations, means, first.src, line), Worth(constants, rotations, means, g, line))
  BY <1>4, <1>5, <1>6, Apply2Cases
<1>9. /\ GraphTypeOK' /\ Threes(constants)' /\ Operands' /\ Rows0'
      /\ Faithful(constants', rotations', calculations', means')
      /\ Len(held') = Len(held) + 1
      /\ (\A k \in 1 .. Len(calculations) : calculations[k].a # first.src \/ calculations[k].b # g) => LastHeld'
      /\ stage' = "product"
  <2>1. Closed(first.src, g, "product")
    BY <1>1, <1>4, <1>5, <1>6, <1>7, <1>8, CloseStep
  <2> QED BY <2>1 DEF Closed
<1>10. \A k \in 1 .. Len(calculations) : calculations[k].b # g
  BY <1>2, <1>5 DEF Unmentioned
<1>11. Len(held') = 4 /\ LastHeld'
  BY <1>2, <1>9, <1>10
<1>12. Stages'
  BY <1>9, <1>11 DEF Stages
<1> QED BY <1>9, <1>12 DEF IInv

(* The product is new: one factor is the calculation before it, which no   *)
(* calculation takes. *)
LEMMA MultiplyStep == ASSUME IInv, Multiply PROVE IInv'
<1> DEFINE fourth == held[4]
           third == held[3]
           value == [line \in Lines |-> Times(fourth.value[line], third.value[line])]
<1>1. stage = "product" /\ Close(Calc("mul", fourth.src, third.src), value, "rows")
  BY DEF Multiply
<1>2. Len(held) = 4 /\ LastHeld
  BY <1>1 DEF IInv, Stages
<1>3. 4 \in 1 .. Len(held) /\ 3 \in 1 .. Len(held)
  BY <1>2
<1>4. /\ Defined(constants, rotations, Len(means), fourth.src)
      /\ \A line \in Lines : Worth(constants, rotations, means, fourth.src, line) = fourth.value[line]
      /\ \A line \in Lines : fourth.value[line] \in F
  BY <1>3, HeldOperand
<1>5. /\ Defined(constants, rotations, Len(means), third.src)
      /\ \A line \in Lines : Worth(constants, rotations, means, third.src, line) = third.value[line]
      /\ \A line \in Lines : third.value[line] \in F
  BY <1>3, HeldOperand
<1>6. value \in Values /\ \A line \in Lines : value[line] = Times(fourth.value[line], third.value[line])
  BY <1>4, <1>5, FieldAssumption DEF Values
<1>7. "rows" \in {"beta", "product", "rows"} /\ stage # "rows" /\ "mul" \in Ops1
  BY <1>1 DEF Ops1
<1>8. fourth.src = Intermediate(Len(calculations))
  BY <1>2 DEF LastHeld
<1> HIDE DEF fourth, third, value
<1>9. \A line \in Lines : value[line] =
        Apply2("mul", Worth(constants, rotations, means, fourth.src, line), Worth(constants, rotations, means, third.src, line))
  BY <1>4, <1>5, <1>6, Apply2Cases
<1>10. /\ GraphTypeOK' /\ Threes(constants)' /\ Operands' /\ Rows0'
       /\ Faithful(constants', rotations', calculations', means')
       /\ Len(calculations') \in Nat /\ Len(calculations') >= 1
       /\ Len(eval'.inter) = Len(calculations')
       /\ Len(held') = Len(held) + 1
       /\ (\A k \in 1 .. Len(calculations) : calculations[k].a # fourth.src \/ calculations[k].b # third.src) => LastHeld'
       /\ stage' = "rows"
  <2>1. Closed(fourth.src, third.src, "rows")
    BY <1>1, <1>4, <1>5, <1>6, <1>7, <1>9, CloseStep
  <2> QED BY <2>1 DEF Closed
<1>11. \A k \in 1 .. Len(calculations) : calculations[k].a # fourth.src
  <2>1. \A k \in 1 .. Len(calculations) : Defined(constants, rotations, k - 1, calculations[k].a)
    BY DEF IInv, Faithful, DefinedCalc
  <2>2. fourth.src.kind = "intermediate" /\ fourth.src.index = Len(calculations)
    BY <1>8 DEF Intermediate, Src
  <2>3. Len(calculations) \in Nat
    BY DEF IInv, GraphTypeOK
  <2>4. \A k \in 1 .. Len(calculations) :
          calculations[k].a.kind = "intermediate" => calculations[k].a.index \in 1 .. k - 1
    BY <2>1 DEF Defined
  <2> QED BY <2>2, <2>3, <2>4
<1>12. Stages'
  BY <1>2, <1>10, <1>11 DEF Stages
<1>13. RowsRight'
  BY <1>10, RowsStart
<1> QED BY <1>10, <1>12, <1>13 DEF IInv

-----------------------------------------------------------------------------
(* evaluate: the intermediates computed so far are what they should be. *)
EvalSet == [line : 0 .. Size, at : Nat, term : Nat, acc : F, inter : Seq(F), results : Seq(F)]

LEMMA GetCases ==
  ASSUME NEW cs, NEW rs, NEW inter, NEW s, NEW line
  PROVE  /\ s.kind = "constant"     => Get(s, line, cs, rs, inter) = cs[s.index]
         /\ s.kind = "intermediate" => Get(s, line, cs, rs, inter) = inter[s.index]
         /\ s.kind \in ColumnTypes  =>
              Get(s, line, cs, rs, inter) = Cell(s.kind, s.index, line, rs[s.rotation])
         /\ s.kind = "challenge"    => Get(s, line, cs, rs, inter) = Challenges[s.index]
         /\ s.kind = "beta"         => Get(s, line, cs, rs, inter) = Beta
         /\ s.kind = "gamma"        => Get(s, line, cs, rs, inter) = Gamma
         /\ s.kind = "theta"        => Get(s, line, cs, rs, inter) = Theta
         /\ s.kind = "y"            => Get(s, line, cs, rs, inter) = Y
         /\ s.kind = "previous"     => Get(s, line, cs, rs, inter) = Previous[line]
  BY Zenon DEF Get, ColumnTypes

(* The state in which a row is evaluated. *)
LEMMA RowFacts ==
  ASSUME IInv, stage = "rows", eval.line < Size
  PROVE  /\ eval \in EvalSet /\ eval.line \in Lines /\ eval.at \in 1 .. Len(calculations) + 1
         /\ Len(calculations) \in Nat /\ Len(means) = Len(calculations)
         /\ Len(eval.inter) = Len(calculations) /\ Len(eval.results) = eval.line
         /\ \A j \in 1 .. eval.at - 1 : eval.inter[j] = means[j].value[eval.line]
         /\ eval.term > 0 =>
              /\ eval.at <= Len(calculations) /\ CurrentCalc.op = "horner"
              /\ eval.term <= Len(CurrentCalc.parts) + 1
              /\ eval.acc = means[eval.at].sums[eval.term][eval.line]
         /\ \A k \in 1 .. Len(eval.results) : eval.results[k] = held[Len(held)].value[k - 1]
<1>1. GraphTypeOK /\ Stages /\ RowsRight
  BY DEF IInv
<1>2. eval \in EvalSet /\ Len(calculations) \in Nat /\ Len(means) = Len(calculations)
  BY <1>1 DEF GraphTypeOK, EvalSet
<1>3. eval.line \in 0 .. Size
  BY <1>2 DEF EvalSet
<1>4. eval.line \in Lines
  BY <1>3, GraphAssumption DEF Lines
<1>5. Len(eval.inter) = Len(calculations)
  BY <1>1 DEF Stages
<1> QED BY <1>1, <1>2, <1>4, <1>5 DEF RowsRight

LEMMA ValueWorth ==
  ASSUME IInv, stage = "rows", eval.line < Size, eval.at <= Len(calculations),
         NEW s, Defined(constants, rotations, eval.at - 1, s)
  PROVE  /\ Value(s) = Worth(constants, rotations, means, s, eval.line)
         /\ Value(s) \in F
<1>1. /\ eval \in EvalSet /\ eval.line \in Lines /\ eval.at \in 1 .. Len(calculations) + 1
      /\ Len(calculations) \in Nat /\ Len(means) = Len(calculations)
      /\ \A j \in 1 .. eval.at - 1 : eval.inter[j] = means[j].value[eval.line]
  BY RowFacts
<1>2. s \in SourceSet
  BY DEF Defined
<1>3. Value(s) = Worth(constants, rotations, means, s, eval.line)
  <2> DEFINE line == eval.line
             inter == eval.inter
  <2>1. Value(s) = Get(s, line, constants, rotations, inter)
    BY DEF Value
  <2> HIDE DEF line, inter
  <2>2. CASE s.kind = "intermediate"
    <3>1. s.index \in 1 .. eval.at - 1
      BY <2>2 DEF Defined
    <3>2. s.index \in 1 .. Len(means) /\ eval.inter[s.index] = means[s.index].value[eval.line]
      BY <1>1, <3>1
    <3>3. Get(s, line, constants, rotations, inter) = inter[s.index]
      BY <2>2, GetCases
    <3>4. Worth(constants, rotations, means, s, line) = means[s.index].value[line]
      BY <2>2, <3>2, WorthIntermediate
    <3> QED BY <2>1, <3>2, <3>3, <3>4, Zenon DEF line, inter
  <2>3. CASE s.kind # "intermediate"
    <3>1. s.kind \in {"constant", "challenge", "beta", "gamma", "theta", "y", "previous"} \cup ColumnTypes
      BY <1>2, <2>3 DEF SourceSet
    <3>2. Get(s, line, constants, rotations, inter) = Worth(constants, rotations, means, s, line)
      <4>1. CASE s.kind = "constant"
        BY <4>1, GetCases, WorthCases
      <4>2. CASE s.kind \in ColumnTypes
        BY <4>2, GetCases, WorthCases
      <4>3. CASE s.kind \in {"challenge", "beta", "gamma", "theta", "y", "previous"}
        BY <4>3, GetCases, WorthCases
      <4> QED BY <3>1, <4>1, <4>2, <4>3
    <3> QED BY <2>1, <3>2 DEF line
  <2> QED BY <2>2, <2>3
<1>4. Worth(constants, rotations, means, s, eval.line) \in F
  <2>1. /\ constants \in Seq(F) /\ rotations \in Seq(Int) /\ means \in Seq(Meanings)
        /\ Len(constants) \in Nat /\ Len(rotations) \in Nat /\ Len(means) \in Nat
        /\ Grows(constants, constants) /\ Grows(rotations, rotations) /\ Grows(means, means)
    <3>1. constants \in Seq(F) /\ rotations \in Seq(Int) /\ means \in Seq(Meanings)
      BY Found0
    <3> QED BY <3>1, GrowsLen
  <2>2. eval.at - 1 \in Nat /\ eval.at - 1 <= Len(means)
    BY <1>1
  <2>3. \A m \in Nat : eval.at - 1 <= m => Defined(constants, rotations, m, s)
    BY <2>1, <2>2, WorthGrows
  <2>4. Defined(constants, rotations, Len(means), s)
    BY <2>1, <2>2, <2>3
  <2> QED BY <1>1, <2>1, <2>4, WorthType
<1> QED BY <1>3, <1>4

(* A step of evaluate leaves the graph alone. *)
LEMMA RowsKeep ==
  ASSUME IInv, stage = "rows", UNCHANGED <<use, stage, graph, stack, bounds, parts, chain, held>>,
         eval' \in EvalSet, Len(eval'.inter) = Len(eval.inter), RowsRight'
  PROVE  IInv'
<1>1. /\ use' = use /\ stage' = stage /\ constants' = constants /\ rotations' = rotations
      /\ calculations' = calculations /\ means' = means /\ stack' = stack /\ leaves' = leaves
      /\ negations' = negations /\ parts' = parts /\ chain' = chain /\ held' = held
  BY DEF graph, bounds
<1>2. /\ GraphTypeOK /\ Threes(constants) /\ Faithful(constants, rotations, calculations, means)
      /\ Operands /\ Stages
  BY DEF IInv
<1>3. GraphTypeOK'
  BY <1>1, <1>2 DEF GraphTypeOK, EvalSet
<1>4. Operands'
  BY <1>1, <1>2 DEF Operands, Factor
<1>5. Stages'
  BY <1>1, <1>2 DEF Stages, Unmentioned, LastHeld
<1> QED BY <1>1, <1>2, <1>3, <1>4, <1>5 DEF IInv

(* The calculation under way, and what it should be worth. *)
LEMMA CalcFacts ==
  ASSUME IInv, Evaluating
  PROVE  /\ stage = "rows" /\ eval.line < Size /\ eval.at \in 1 .. Len(calculations)
         /\ eval.at <= Len(calculations)
         /\ UNCHANGED <<use, stage, graph, stack, bounds, parts, chain, held>>
         /\ CurrentCalc \in CalcSet /\ Len(CurrentCalc.parts) \in Nat
         /\ DefinedCalc(constants, rotations, eval.at - 1, CurrentCalc)
         /\ Means(constants, rotations, means, CurrentCalc, means[eval.at])
         /\ calculations' = calculations /\ means' = means /\ held' = held
<1>1. /\ stage = "rows" /\ eval.line < Size /\ eval.at <= Len(calculations)
      /\ UNCHANGED <<use, stage, graph, stack, bounds, parts, chain, held>>
  BY DEF Evaluating
<1>2. eval.at \in 1 .. Len(calculations) + 1 /\ Len(calculations) \in Nat
  BY <1>1, RowFacts
<1>3. eval.at \in 1 .. Len(calculations)
  BY <1>1, <1>2
<1>4. Faithful(constants, rotations, calculations, means) /\ calculations \in Seq(CalcSet)
  BY DEF IInv, GraphTypeOK
<1>5. CurrentCalc \in CalcSet
  BY <1>3, <1>4 DEF CurrentCalc
<1>6. /\ DefinedCalc(constants, rotations, eval.at - 1, CurrentCalc)
      /\ Means(constants, rotations, means, CurrentCalc, means[eval.at])
  BY <1>3, <1>4 DEF Faithful, CurrentCalc
<1>7. Len(CurrentCalc.parts) \in Nat
  BY <1>5 DEF CalcSet
<1>8. calculations' = calculations /\ means' = means /\ held' = held
  BY <1>1 DEF graph
<1> QED BY <1>1, <1>3, <1>5, <1>6, <1>7, <1>8

(* f is e with another list of intermediates and another place in the list. *)
Moved(e, f, inter, at) ==
  /\ f \in EvalSet /\ f.inter = inter /\ f.at = at /\ f.term = 0
  /\ f.line = e.line /\ f.results = e.results

LEMMA StoreRecord ==
  ASSUME NEW e \in EvalSet, NEW inter \in Seq(F), NEW at \in Nat
  PROVE  Moved(e, [e EXCEPT !.inter = inter, !.at = at, !.term = 0], inter, at)
  BY DEF EvalSet, Moved

(* A calculation is done. *)
LEMMA StoreStep ==
  ASSUME IInv, Evaluating, NEW v \in F, means[eval.at].value[eval.line] = v, eval' = Store(v)
  PROVE  IInv'
<1>1. /\ stage = "rows" /\ eval.line < Size /\ eval.at \in 1 .. Len(calculations)
      /\ UNCHANGED <<use, stage, graph, stack, bounds, parts, chain, held>>
      /\ calculations' = calculations /\ means' = means /\ held' = held
  BY CalcFacts
<1>2. /\ eval \in EvalSet /\ eval.line \in Lines
      /\ Len(calculations) \in Nat /\ Len(means) = Len(calculations)
      /\ Len(eval.inter) = Len(calculations) /\ Len(eval.results) = eval.line
      /\ \A j \in 1 .. eval.at - 1 : eval.inter[j] = means[j].value[eval.line]
      /\ \A k \in 1 .. Len(eval.results) : eval.results[k] = held[Len(held)].value[k - 1]
  BY <1>1, RowFacts
<1>3. eval.inter \in Seq(F) /\ eval.at \in 1 .. Len(eval.inter) /\ eval.at \in Nat
  BY <1>1, <1>2 DEF EvalSet
<1> DEFINE inter2 == [eval.inter EXCEPT ![eval.at] = v]
<1>4. /\ inter2 \in Seq(F) /\ Len(inter2) = Len(eval.inter) /\ inter2[eval.at] = v
      /\ \A j \in 1 .. Len(eval.inter) : j # eval.at => inter2[j] = eval.inter[j]
  BY <1>3
<1>5. eval' = [eval EXCEPT !.inter = inter2, !.at = eval.at + 1, !.term = 0]
  BY <1>2 DEF Store, EvalSet
<1> HIDE DEF inter2
<1>6. /\ eval' \in EvalSet /\ eval'.inter = inter2 /\ eval'.at = eval.at + 1 /\ eval'.term = 0
      /\ eval'.line = eval.line /\ eval'.results = eval.results
  <2>1. eval.at + 1 \in Nat
    BY <1>3
  <2>2. Moved(eval, [eval EXCEPT !.inter = inter2, !.at = eval.at + 1, !.term = 0], inter2, eval.at + 1)
    BY <1>2, <1>4, <2>1, StoreRecord
  <2>3. Moved(eval, eval', inter2, eval.at + 1)
    BY <1>5, <2>2
  <2> QED BY <2>3 DEF Moved
<1>7. \A j \in 1 .. eval'.at - 1 : eval'.inter[j] = means[j].value[eval.line]
  <2>1. ASSUME NEW j \in 1 .. eval.at PROVE inter2[j] = means[j].value[eval.line]
    <3>1. CASE j = eval.at
      BY <1>4, <3>1
    <3>2. CASE j # eval.at
      <4>1. j \in 1 .. eval.at - 1 /\ j \in 1 .. Len(eval.inter)
        BY <1>3, <3>2
      <4>2. inter2[j] = eval.inter[j] /\ eval.inter[j] = means[j].value[eval.line]
        BY <1>2, <1>4, <3>2, <4>1
      <4> QED BY <4>2
    <3> QED BY <3>1, <3>2
  <2>2. eval'.at - 1 = eval.at
    BY <1>3, <1>6
  <2> QED BY <1>6, <2>1, <2>2
<1>8. eval'.at \in 1 .. Len(calculations) + 1 /\ eval'.line \in Nat /\ eval'.line < Size
  BY <1>1, <1>2, <1>6, GraphAssumption DEF Lines
<1>9. RowsRight'
  <2>1. Size \in Nat
    BY GraphAssumption
  <2> QED BY <1>1, <1>2, <1>6, <1>7, <1>8, <2>1 DEF RowsRight
<1> QED BY <1>1, <1>2, <1>4, <1>6, <1>9, RowsKeep

LEMMA CalculateStep == ASSUME IInv, Calculate PROVE IInv'
<1>1. Evaluating /\ CurrentCalc.op # "horner"
  BY DEF Calculate
<1>2. /\ stage = "rows" /\ eval.line < Size /\ eval.at <= Len(calculations)
      /\ CurrentCalc \in CalcSet
      /\ DefinedCalc(constants, rotations, eval.at - 1, CurrentCalc)
      /\ Means(constants, rotations, means, CurrentCalc, means[eval.at])
  BY <1>1, CalcFacts
<1>3. Defined(constants, rotations, eval.at - 1, CurrentCalc.a) /\ Defined(constants, rotations, eval.at - 1, CurrentCalc.b)
  BY <1>2 DEF DefinedCalc
<1> DEFINE a == Value(CurrentCalc.a)
           b == Value(CurrentCalc.b)
           v == Apply2(CurrentCalc.op, a, b)
<1>4. /\ a = Worth(constants, rotations, means, CurrentCalc.a, eval.line) /\ a \in F
      /\ b = Worth(constants, rotations, means, CurrentCalc.b, eval.line) /\ b \in F
  BY <1>2, <1>3, ValueWorth
<1>5. eval.line \in Lines
  BY <1>2, RowFacts
<1>6. means[eval.at].value[eval.line] = Apply2(CurrentCalc.op,
        Worth(constants, rotations, means, CurrentCalc.a, eval.line),
        Worth(constants, rotations, means, CurrentCalc.b, eval.line))
  BY <1>1, <1>2, <1>5 DEF Means
<1>7. CurrentCalc.op \in Ops1
  BY <1>1, <1>2 DEF CalcSet, Ops1
<1>8. eval' = Store(v)
  BY DEF Calculate
<1> HIDE DEF a, b
<1>9. v \in F
  BY <1>4, <1>7, Apply2Type
<1>10. means[eval.at].value[eval.line] = v
  BY <1>4, <1>6, Zenon
<1> HIDE DEF v
<1> QED BY <1>1, <1>8, <1>9, <1>10, StoreStep

(* Horner's rule under way. *)
Summed(e, f, acc, term) ==
  /\ f \in EvalSet /\ f.acc = acc /\ f.term = term
  /\ f.line = e.line /\ f.at = e.at /\ f.inter = e.inter /\ f.results = e.results

LEMMA SumRecord ==
  ASSUME NEW e \in EvalSet, NEW acc \in F, NEW term \in Nat
  PROVE  Summed(e, [e EXCEPT !.acc = acc, !.term = term], acc, term)
  BY DEF EvalSet, Summed

LEMMA HornerFacts ==
  ASSUME IInv, Evaluating, CurrentCalc.op = "horner"
  PROVE  /\ Defined(constants, rotations, eval.at - 1, CurrentCalc.a)
         /\ Defined(constants, rotations, eval.at - 1, CurrentCalc.b)
         /\ \A i \in 1 .. Len(CurrentCalc.parts) :
              Defined(constants, rotations, eval.at - 1, CurrentCalc.parts[i])
         /\ means[eval.at].sums[1][eval.line] = Worth(constants, rotations, means, CurrentCalc.a, eval.line)
         /\ \A i \in 1 .. Len(CurrentCalc.parts) : means[eval.at].sums[i + 1][eval.line] =
              Plus(Times(means[eval.at].sums[i][eval.line],
                         Worth(constants, rotations, means, CurrentCalc.b, eval.line)),
                   Worth(constants, rotations, means, CurrentCalc.parts[i], eval.line))
         /\ means[eval.at].value = means[eval.at].sums[Len(CurrentCalc.parts) + 1]
<1>1. /\ DefinedCalc(constants, rotations, eval.at - 1, CurrentCalc)
      /\ Means(constants, rotations, means, CurrentCalc, means[eval.at])
      /\ stage = "rows" /\ eval.line < Size
  BY CalcFacts
<1>2. eval.line \in Lines
  BY <1>1, RowFacts
<1>3. /\ Sums(constants, rotations, means, means[eval.at].sums, CurrentCalc.a, CurrentCalc.parts, CurrentCalc.b)
      /\ means[eval.at].value = means[eval.at].sums[Len(CurrentCalc.parts) + 1]
  BY <1>1 DEF Means
<1>4. /\ means[eval.at].sums[1][eval.line] = Worth(constants, rotations, means, CurrentCalc.a, eval.line)
      /\ \A i \in 1 .. Len(CurrentCalc.parts) : means[eval.at].sums[i + 1][eval.line] =
           Plus(Times(means[eval.at].sums[i][eval.line],
                      Worth(constants, rotations, means, CurrentCalc.b, eval.line)),
                Worth(constants, rotations, means, CurrentCalc.parts[i], eval.line))
  BY <1>2, <1>3 DEF Sums
<1> QED BY <1>1, <1>3, <1>4 DEF DefinedCalc, DefinedAll

LEMMA SumStep ==
  ASSUME IInv, Evaluating, CurrentCalc.op = "horner",
         NEW acc \in F, NEW term \in 1 .. Len(CurrentCalc.parts) + 1,
         means[eval.at].sums[term][eval.line] = acc,
         Summed(eval, eval', acc, term)
  PROVE  IInv'
<1>1. /\ stage = "rows" /\ eval.line < Size /\ eval.at \in 1 .. Len(calculations)
      /\ eval.at <= Len(calculations)
      /\ UNCHANGED <<use, stage, graph, stack, bounds, parts, chain, held>>
      /\ calculations' = calculations /\ means' = means /\ held' = held
      /\ Len(CurrentCalc.parts) \in Nat
  BY CalcFacts
<1>2. /\ eval \in EvalSet /\ eval.line \in Lines /\ eval.at \in 1 .. Len(calculations) + 1
      /\ Len(eval.results) = eval.line
      /\ \A j \in 1 .. eval.at - 1 : eval.inter[j] = means[j].value[eval.line]
      /\ \A k \in 1 .. Len(eval.results) : eval.results[k] = held[Len(held)].value[k - 1]
  BY <1>1, RowFacts
<1>3. /\ eval' \in EvalSet /\ eval'.acc = acc /\ eval'.term = term
      /\ eval'.line = eval.line /\ eval'.at = eval.at /\ eval'.inter = eval.inter
      /\ eval'.results = eval.results
  BY DEF Summed
<1>4. CurrentCalc' = CurrentCalc
  BY <1>1, <1>3 DEF CurrentCalc
<1>5. eval'.line \in Nat /\ eval'.line < Size /\ Size \in Nat
  BY <1>1, <1>2, <1>3, GraphAssumption DEF Lines
<1>6. eval'.acc = means[eval'.at].sums[eval'.term][eval'.line]
  BY <1>3
<1>7. RowsRight'
  <2>1. /\ eval'.at \in 1 .. Len(calculations') + 1 /\ Len(eval'.results) = eval'.line
        /\ eval'.line # Size
    BY <1>1, <1>2, <1>3, <1>5
  <2>2. \A j \in 1 .. eval'.at - 1 : eval'.inter[j] = means'[j].value[eval'.line]
    BY <1>1, <1>2, <1>3
  <2>3. /\ eval'.at <= Len(calculations') /\ CurrentCalc'.op = "horner"
        /\ eval'.term <= Len(CurrentCalc'.parts) + 1
        /\ eval'.acc = means'[eval'.at].sums[eval'.term][eval'.line]
    BY <1>1, <1>3, <1>4, <1>6
  <2>4. \A k \in 1 .. Len(eval'.results) : eval'.results[k] = held'[Len(held')].value[k - 1]
    BY <1>1, <1>2, <1>3
  <2> QED BY <2>1, <2>2, <2>3, <2>4 DEF RowsRight
<1>8. stage = "rows" /\ UNCHANGED <<use, stage, graph, stack, bounds, parts, chain, held>>
  BY <1>1
<1>9. eval' \in EvalSet /\ Len(eval'.inter) = Len(eval.inter)
  BY <1>3
<1> QED BY <1>7, <1>8, <1>9, RowsKeep

LEMMA HornerStartStep == ASSUME IInv, HornerStart PROVE IInv'
<1>1. Evaluating /\ CurrentCalc.op = "horner"
  BY DEF HornerStart
<1>2. /\ stage = "rows" /\ eval.line < Size /\ eval.at <= Len(calculations)
      /\ Len(CurrentCalc.parts) \in Nat
  BY <1>1, CalcFacts
<1>3. /\ Defined(constants, rotations, eval.at - 1, CurrentCalc.a)
      /\ means[eval.at].sums[1][eval.line] = Worth(constants, rotations, means, CurrentCalc.a, eval.line)
  BY <1>1, HornerFacts
<1> DEFINE acc == Value(CurrentCalc.a)
<1>4. /\ acc = Worth(constants, rotations, means, CurrentCalc.a, eval.line) /\ acc \in F
  BY <1>2, <1>3, ValueWorth
<1>5. eval' = [eval EXCEPT !.acc = acc, !.term = 1] /\ eval \in EvalSet
  BY <1>2, RowFacts DEF HornerStart
<1> HIDE DEF acc
<1>6. Summed(eval, eval', acc, 1)
  <2>1. Summed(eval, [eval EXCEPT !.acc = acc, !.term = 1], acc, 1)
    BY <1>4, <1>5, SumRecord
  <2> QED BY <1>5, <2>1
<1>7. means[eval.at].sums[1][eval.line] = acc
  BY <1>3, <1>4, Zenon
<1>8. 1 \in 1 .. Len(CurrentCalc.parts) + 1
  BY <1>2
<1> QED BY <1>1, <1>4, <1>6, <1>7, <1>8, SumStep

LEMMA HornerTermStep == ASSUME IInv, HornerTerm PROVE IInv'
<1> DEFINE k == eval.term
           by == Value(CurrentCalc.b)
           part == Value(CurrentCalc.parts[k])
           acc == Plus(Times(eval.acc, by), part)
<1>1. Evaluating /\ CurrentCalc.op = "horner" /\ k \in 1 .. Len(CurrentCalc.parts)
  BY DEF HornerTerm
<1>2. /\ stage = "rows" /\ eval.line < Size /\ eval.at <= Len(calculations)
      /\ Len(CurrentCalc.parts) \in Nat
  BY <1>1, CalcFacts
<1>3. /\ Defined(constants, rotations, eval.at - 1, CurrentCalc.b)
      /\ Defined(constants, rotations, eval.at - 1, CurrentCalc.parts[k])
      /\ means[eval.at].sums[k + 1][eval.line] =
           Plus(Times(means[eval.at].sums[k][eval.line],
                      Worth(constants, rotations, means, CurrentCalc.b, eval.line)),
                Worth(constants, rotations, means, CurrentCalc.parts[k], eval.line))
  BY <1>1, HornerFacts
<1>4. /\ by = Worth(constants, rotations, means, CurrentCalc.b, eval.line) /\ by \in F
  BY <1>2, <1>3, ValueWorth
<1>5. /\ part = Worth(constants, rotations, means, CurrentCalc.parts[k], eval.line) /\ part \in F
  BY <1>2, <1>3, ValueWorth
<1>6. eval \in EvalSet /\ eval.acc = means[eval.at].sums[k][eval.line]
  <2>1. /\ eval \in EvalSet
        /\ eval.term > 0 => eval.acc = means[eval.at].sums[eval.term][eval.line]
    BY <1>2, RowFacts
  <2>2. eval.term > 0
    BY <1>1
  <2> QED BY <2>1, <2>2
<1>7. eval' = [eval EXCEPT !.acc = acc, !.term = k + 1]
  BY <1>6 DEF HornerTerm, EvalSet
<1>8. eval.acc \in F
  BY <1>6 DEF EvalSet
<1> HIDE DEF by, part, k
<1>9. acc \in F
  BY <1>4, <1>5, <1>8, FieldAssumption
<1>10. means[eval.at].sums[k + 1][eval.line] = acc
  BY <1>3, <1>4, <1>5, <1>6, Zenon
<1> HIDE DEF acc
<1>11. k + 1 \in 1 .. Len(CurrentCalc.parts) + 1 /\ k + 1 \in Nat
  BY <1>1, <1>2
<1>12. Summed(eval, eval', acc, k + 1)
  <2>1. Summed(eval, [eval EXCEPT !.acc = acc, !.term = k + 1], acc, k + 1)
    BY <1>6, <1>9, <1>11, SumRecord
  <2> QED BY <1>7, <2>1
<1> QED BY <1>1, <1>9, <1>10, <1>11, <1>12, SumStep

LEMMA HornerEndStep == ASSUME IInv, HornerEnd PROVE IInv'
<1>1. /\ Evaluating /\ CurrentCalc.op = "horner" /\ eval.term = Len(CurrentCalc.parts) + 1
      /\ eval' = Store(eval.acc)
  BY DEF HornerEnd
<1>2. /\ stage = "rows" /\ eval.line < Size /\ Len(CurrentCalc.parts) \in Nat
  BY <1>1, CalcFacts
<1>3. means[eval.at].value = means[eval.at].sums[Len(CurrentCalc.parts) + 1]
  BY <1>1, HornerFacts
<1>4. eval \in EvalSet /\ eval.acc = means[eval.at].sums[eval.term][eval.line]
  <2>1. /\ eval \in EvalSet
        /\ eval.term > 0 => eval.acc = means[eval.at].sums[eval.term][eval.line]
    BY <1>2, RowFacts
  <2>2. eval.term > 0
    BY <1>1, <1>2
  <2> QED BY <2>1, <2>2
<1>5. eval.acc \in F
  BY <1>4 DEF EvalSet
<1>6. means[eval.at].value[eval.line] = eval.acc
  BY <1>1, <1>3, <1>4
<1> QED BY <1>1, <1>5, <1>6, StoreStep

NextRow(e, f, last) ==
  /\ f \in EvalSet /\ f.line = e.line + 1 /\ f.at = 1 /\ f.term = e.term /\ f.inter = e.inter
  /\ f.results = Append(e.results, last)

LEMMA RowRecord ==
  ASSUME NEW e \in EvalSet, NEW last \in F, e.line < Size
  PROVE  NextRow(e, [e EXCEPT !.results = Append(e.results, last), !.line = e.line + 1, !.at = 1], last)
<1>1. e.line + 1 \in 0 .. Size
  BY GraphAssumption DEF EvalSet
<1>2. Append(e.results, last) \in Seq(F)
  BY DEF EvalSet
<1> DEFINE results == Append(e.results, last)
<1> HIDE DEF results
<1>3. NextRow(e, [e EXCEPT !.results = results, !.line = e.line + 1, !.at = 1], last)
        <=> results = Append(e.results, last)
  BY <1>1, <1>2 DEF NextRow, EvalSet, results
<1> QED BY <1>3 DEF results

LEMMA RowDoneStep == ASSUME IInv, RowDone PROVE IInv'
<1> DEFINE line == eval.line
           n == Len(calculations)
           last == eval.inter[n]
<1>1. /\ stage = "rows" /\ eval.line < Size /\ eval.at = n + 1
      /\ eval' = [eval EXCEPT !.results = Append(@, LastValue), !.line = @ + 1, !.at = 1]
      /\ UNCHANGED <<use, stage, graph, stack, bounds, parts, chain, held>>
  BY DEF RowDone
<1>2. calculations' = calculations /\ means' = means /\ held' = held
  BY <1>1 DEF graph
<1>3. /\ eval \in EvalSet /\ eval.line \in Lines
      /\ Len(calculations) \in Nat /\ Len(means) = Len(calculations)
      /\ Len(eval.inter) = Len(calculations) /\ Len(eval.results) = eval.line
      /\ \A j \in 1 .. eval.at - 1 : eval.inter[j] = means[j].value[eval.line]
      /\ eval.term > 0 => eval.at <= Len(calculations)
      /\ \A k \in 1 .. Len(eval.results) : eval.results[k] = held[Len(held)].value[k - 1]
  BY <1>1, RowFacts
<1>4. Len(held) >= 1 /\ n >= 1 /\ LastHeld /\ held \in Seq(HeldEntries) /\ Len(held) \in Nat
  BY <1>1 DEF IInv, Stages, GraphTypeOK, HeldEntries
<1>5. last = means[n].value[line]
  BY <1>1, <1>3, <1>4
<1>6. last = held[Len(held)].value[line] /\ last \in F
  <2>1. Len(held) \in 1 .. Len(held)
    BY <1>4
  <2>2. /\ \A l \in Lines : Worth(constants, rotations, means, held[Len(held)].src, l)
                              = held[Len(held)].value[l]
        /\ \A l \in Lines : held[Len(held)].value[l] \in F
    BY <2>1, HeldOperand
  <2>3. held[Len(held)].src.kind = "intermediate" /\ held[Len(held)].src.index = n
    BY <1>4 DEF LastHeld, Intermediate, Src
  <2>4. n \in 1 .. Len(means)
    BY <1>3, <1>4
  <2>5. Worth(constants, rotations, means, held[Len(held)].src, line) = means[n].value[line]
    BY <2>3, <2>4, WorthIntermediate
  <2> QED BY <1>3, <1>5, <2>2, <2>5
<1>7. LastValue = last
  <2>1. calculations # << >>
    BY <1>4
  <2> QED BY <2>1 DEF LastValue
<1>8. eval' = [eval EXCEPT !.results = Append(eval.results, last), !.line = eval.line + 1, !.at = 1]
  BY <1>1, <1>3, <1>7 DEF EvalSet
<1>9. NextRow(eval, eval', last)
  <2>1. NextRow(eval, [eval EXCEPT !.results = Append(eval.results, last), !.line = eval.line + 1, !.at = 1], last)
    BY <1>1, <1>3, <1>6, RowRecord
  <2> QED BY <1>8, <2>1
<1>10. /\ eval' \in EvalSet /\ eval'.line = line + 1 /\ eval'.at = 1 /\ eval'.term = eval.term
       /\ eval'.inter = eval.inter /\ eval'.results = Append(eval.results, last)
  BY <1>9 DEF NextRow
<1>11. eval.term = 0
  <2>1. eval.term \in Nat
    BY <1>3 DEF EvalSet
  <2> QED BY <1>1, <1>3, <2>1
<1>12. line \in Nat /\ Len(eval.results) = line /\ eval.results \in Seq(F)
  BY <1>3, GraphAssumption DEF Lines, EvalSet
<1> HIDE DEF last
<1>13. /\ Len(eval'.results) = line + 1 /\ eval'.results[line + 1] = last
       /\ \A k \in 1 .. line : eval'.results[k] = eval.results[k]
  BY <1>6, <1>10, <1>12
<1>14. \A k \in 1 .. Len(eval'.results) : eval'.results[k] = held[Len(held)].value[k - 1]
  <2>1. ASSUME NEW k \in 1 .. line + 1
        PROVE  eval'.results[k] = held[Len(held)].value[k - 1]
    <3>1. CASE k = line + 1
      <4>1. k - 1 = line
        BY <1>12, <3>1
      <4> QED BY <1>6, <1>13, <3>1, <4>1
    <3>2. CASE k \in 1 .. line
      BY <1>3, <1>12, <1>13, <3>2
    <3> QED BY <1>12, <3>1, <3>2
  <2> QED BY <1>13, <2>1
<1>15. RowsRight'
  BY <1>2, <1>3, <1>10, <1>11, <1>13, <1>14 DEF RowsRight
<1> QED BY <1>1, <1>10, <1>15, RowsKeep

-----------------------------------------------------------------------------
LEMMA InitIInv == ASSUME GraphInit PROVE IInv
<1>1. /\ use \in Uses /\ stage = "expressions"
      /\ constants = <<Zero, One, Two>> /\ rotations = << >> /\ calculations = << >> /\ means = << >>
      /\ stack = << >> /\ leaves = 0 /\ negations = 0
      /\ parts = << >> /\ chain = <<FirstSum(use)>> /\ held = << >>
      /\ eval = [line |-> 0, at |-> 1, term |-> 0, acc |-> Zero, inter |-> << >>, results |-> << >>]
  BY DEF GraphInit
<1>2. FirstSum(use) \in Values
  BY GraphAssumption, FieldAssumption DEF FirstSum, Values
<1>3. Zero \in F /\ One \in F /\ Two \in F
  BY FieldAssumption
<1>4. constants \in Seq(F) /\ Len(constants) = 3
  BY <1>1, <1>3
<1>5. Threes(constants)
  <2>1. constants[1] = Zero
    BY <1>1
  <2>2. constants[2] = One
    BY <1>1
  <2>3. constants[3] = Two
    BY <1>1
  <2> QED BY <1>4, <2>1, <2>2, <2>3 DEF Threes
<1>6. chain \in Seq(Values) /\ Len(chain) = 1 /\ chain[1] = FirstSum(use)
  BY <1>1, <1>2
<1>7. /\ rotations \in Seq(Int) /\ calculations \in Seq(CalcSet) /\ Len(calculations) = 0
      /\ means \in Seq(Meanings) /\ Len(means) = 0 /\ Len(parts) = 0 /\ parts \in Seq(SourceSet)
      /\ Len(held) = 0 /\ Len(stack) = 0
  BY <1>1
<1>8. eval \in EvalSet
  <2>1. 0 \in 0 .. Size
    BY GraphAssumption
  <2> QED BY <1>1, <1>3, <2>1 DEF EvalSet
<1>9. GraphTypeOK
  <2>1. leaves \in 0 .. MaxLeaves /\ negations \in 0 .. MaxNegations
    BY <1>1, GraphAssumption
  <2>2. stack \in Seq([src : SourceSet, root : {"constant", "negated", "node"}, value : Values])
    BY <1>1
  <2>3. held \in Seq([src : SourceSet, value : Values])
    BY <1>1
  <2> QED BY <1>1, <1>4, <1>6, <1>7, <1>8, <2>1, <2>2, <2>3 DEF GraphTypeOK, Meanings, EvalSet
<1>10. Faithful(constants, rotations, calculations, means)
  BY <1>4, <1>7 DEF Faithful, GraphTypes
<1>11. Operands
  <2>1. \A line \in Lines : Worth(constants, rotations, means, FirstSource(use), line) = FirstSum(use)[line]
    BY <1>5, EndsWorth
  <2>2. Sums(constants, rotations, means, chain, FirstSource(use), parts, Factor)
    BY <1>6, <1>7, <2>1 DEF Sums
  <2> QED BY <1>7, <2>2 DEF Operands, AllDenote, DefinedAll
<1>12. Stages
  BY <1>1, <1>7 DEF Stages, Unmentioned
<1>13. Rows0 /\ stage # "rows"
  BY <1>1 DEF Rows0
<1> QED BY <1>5, <1>9, <1>10, <1>11, <1>12, <1>13 DEF IInv

LEMMA StutterStep == ASSUME IInv, UNCHANGED graphVars PROVE IInv'
<1>1. /\ use' = use /\ stage' = stage /\ constants' = constants /\ rotations' = rotations
      /\ calculations' = calculations /\ means' = means /\ stack' = stack /\ leaves' = leaves
      /\ negations' = negations /\ parts' = parts /\ chain' = chain /\ held' = held /\ eval' = eval
  BY DEF graphVars, graph, bounds
<1>2. GraphTypeOK'
  BY <1>1 DEF IInv, GraphTypeOK
<1>3. Operands'
  BY <1>1 DEF IInv, Operands, Factor
<1>4. Stages' /\ (stage # "rows" => Rows0)'
  BY <1>1 DEF IInv, Stages, Unmentioned, LastHeld, Rows0
<1>5. (stage = "rows" => RowsRight)'
  BY <1>1 DEF IInv, RowsRight, CurrentCalc
<1> QED BY <1>1, <1>2, <1>3, <1>4, <1>5 DEF IInv

LEMMA NextIInv == ASSUME IInv, [GraphNext]_graphVars PROVE IInv'
<1>1. CASE LeafConstant
  BY <1>1, LeafConstantStep
<1>2. CASE LeafQuery
  BY <1>2, LeafQueryStep
<1>3. CASE LeafChallenge
  BY <1>3, LeafChallengeStep
<1>4. CASE Negated
  BY <1>4, NegatedStep
<1>5. CASE Sum2
  BY <1>5, Sum2Step
<1>6. CASE Difference
  BY <1>6, DifferenceStep
<1>7. CASE Product2
  BY <1>7, Product2Step
<1>8. CASE EndExpression
  BY <1>8, EndExpressionStep
<1>9. CASE Compress
  BY <1>9, CompressStep
<1>10. CASE AddGamma
  BY <1>10, AddGammaStep
<1>11. CASE AddBeta
  BY <1>11, AddBetaStep
<1>12. CASE Multiply
  BY <1>12, MultiplyStep
<1>13. CASE Calculate
  BY <1>13, CalculateStep
<1>14. CASE HornerStart
  BY <1>14, HornerStartStep
<1>15. CASE HornerTerm
  BY <1>15, HornerTermStep
<1>16. CASE HornerEnd
  BY <1>16, HornerEndStep
<1>17. CASE RowDone
  BY <1>17, RowDoneStep
<1>18. CASE UNCHANGED graphVars
  BY <1>18, StutterStep
<1> QED BY <1>1, <1>2, <1>3, <1>4, <1>5, <1>6, <1>7, <1>8, <1>9, <1>10, <1>11, <1>12, <1>13,
           <1>14, <1>15, <1>16, <1>17, <1>18 DEF GraphNext

(* The invariant. *)
THEOREM GraphInvariant == GraphSpec => []IInv
<1>1. GraphInit => IInv
  BY InitIInv
<1>2. IInv /\ [GraphNext]_graphVars => IInv'
  BY NextIInv
<1> QED BY <1>1, <1>2, PTL DEF GraphSpec

(* Every source, calculation, list and row of the compiler stays well      *)
(* formed (evaluation.rs, GraphEvaluator). *)
THEOREM GraphTypeCorrect == GraphSpec => []GraphTypeOK
<1>1. IInv => GraphTypeOK
  BY DEF IInv
<1> QED BY <1>1, GraphInvariant, PTL

(* evaluation.rs, Evaluator::new and GraphEvaluator::evaluate: whatever the *)
(* field, the tables, the rotations and the expressions, the last           *)
(* intermediate of a row is the value the expressions have there. *)
THEOREM GraphIsExact == GraphSpec => []GraphExact
<1>1. IInv => GraphExact
  <2>1. ASSUME IInv PROVE GraphExact
    <3>1. CASE stage = "rows"
      BY <2>1, <3>1 DEF IInv, RowsRight, GraphExact
    <3>2. CASE stage # "rows"
      <4>1. Len(eval.results) = 0
        BY <2>1, <3>2 DEF IInv, Rows0
      <4> QED BY <4>1 DEF GraphExact
    <3> QED BY <3>1, <3>2
  <2> QED BY <2>1
<1> QED BY <1>1, GraphInvariant, PTL

-----------------------------------------------------------------------------
(***************************************************************************)
(* Copies: cycles.                                                         *)
(***************************************************************************)
Powers(p, x) ==
  /\ p \in [0 .. Cardinality(Cells) -> Cells] /\ p[0] = x
  /\ \A k \in 1 .. Cardinality(Cells) : p[k] = mapping[p[k - 1]]

LEMMA CellsCount == Cardinality(Cells) \in Nat
BY CellsAssumption, FS_CardinalityType

LEMMA CycleIs ==
  ASSUME mapping \in [Cells -> Cells], NEW x, x \in Cells
  PROVE  \E p : Powers(p, x) /\ Cycle(x) = {p[k] : k \in 0 .. Cardinality(Cells)}
<1>1. PICK n : n = Cardinality(Cells) /\ n \in Nat
  BY CellsCount
<1>2. PICK f : f = [t \in Nat \X Cells |-> mapping[t[2]]]
  OBVIOUS
<1>3. f \in [Nat \X Cells -> Cells]
  BY <1>2
<1>4. PICK g : /\ g \in [0 .. n -> Cells] /\ g[0] = x
               /\ \A k \in 1 .. n : g[k] = f[<<k, g[k - 1]>>]
  <2>1. \A m \in Nat : \E g : Iterates(g, m, Cells, x, f)
    BY <1>3, RecursionExists
  <2> QED BY <1>1, <2>1 DEF Iterates
<1>5. ASSUME NEW k \in 1 .. n PROVE g[k] = mapping[g[k - 1]]
  <2>1. k - 1 \in 0 .. n /\ k \in Nat
    BY <1>1
  <2>2. <<k, g[k - 1]>> \in Nat \X Cells
    BY <1>4, <2>1
  <2>3. f[<<k, g[k - 1]>>] = mapping[g[k - 1]]
    BY <1>2, <2>2
  <2> QED BY <1>4, <2>3
<1>6. ASSUME NEW k \in 0 .. n PROVE g[k] = IF k = 0 THEN x ELSE mapping[g[k - 1]]
  <2>1. k = 0 \/ k \in 1 .. n
    BY <1>1
  <2> QED BY <1>4, <1>5, <2>1
<1>7. g = [k \in 0 .. n |-> IF k = 0 THEN x ELSE mapping[g[k - 1]]]
  BY <1>4, <1>6
<1> DEFINE P == CHOOSE p : p = [k \in 0 .. Cardinality(Cells) |->
                                  IF k = 0 THEN x ELSE mapping[p[k - 1]]]
<1>8. Cycle(x) = {P[k] : k \in 0 .. Cardinality(Cells)}
  BY DEF Cycle
<1>9. P = [k \in 0 .. n |-> IF k = 0 THEN x ELSE mapping[P[k - 1]]]
  BY <1>1, <1>7
<1> HIDE DEF P
<1>10. P[0] = x /\ \A k \in 1 .. n : P[k] = mapping[P[k - 1]]
  <2>1. 0 \in 0 .. n /\ \A k \in 1 .. n : k \in 0 .. n /\ k # 0
    BY <1>1
  <2> QED BY <1>9, <2>1
<1>11. \A k \in 0 .. n : P[k] \in Cells
  <2> DEFINE S == {k \in Nat : k <= n => P[k] \in Cells}
  <2>1. 0 \in S
    BY <1>10
  <2>2. ASSUME NEW k \in Nat, k \in S PROVE k + 1 \in S
    <3>1. SUFFICES ASSUME k + 1 <= n PROVE P[k + 1] \in Cells
      OBVIOUS
    <3>2. k + 1 \in 1 .. n /\ (k + 1) - 1 = k /\ k <= n
      BY <1>1, <3>1
    <3>3. P[k] \in Cells
      BY <2>2, <3>2
    <3> QED BY <1>10, <3>2, <3>3
  <2>3. Nat \subseteq S
    BY <2>1, <2>2, SetInduction
  <2> QED BY <1>1, <2>3
<1>12. P \in [0 .. n -> Cells]
  <2>1. P = [k \in 0 .. n |-> P[k]]
    BY <1>9
  <2> QED BY <1>11, <2>1
<1>13. Powers(P, x)
  BY <1>1, <1>10, <1>12 DEF Powers
<1> QED BY <1>8, <1>13

(* A set that m does not leave. *)
Kept(m, S) == \A y \in S : m[y] \in S

(* What the mapping does not leave holds all powers of its elements, from  *)
(* some power on.                                                          *)
LEMMA PowersStay ==
  ASSUME NEW x, NEW p, Powers(p, x), NEW S, Kept(mapping, S), NEW m \in 0 .. Cardinality(Cells), p[m] \in S
  PROVE  \A k \in m .. Cardinality(Cells) : p[k] \in S
<1>1. PICK n : n = Cardinality(Cells) /\ n \in Nat
  BY CellsCount
<1> DEFINE T == {k \in Nat : m + k <= n => p[m + k] \in S}
<1>2. 0 \in T
  BY <1>1
<1>3. ASSUME NEW k \in Nat, k \in T PROVE k + 1 \in T
  <2>1. SUFFICES ASSUME m + (k + 1) <= n PROVE p[m + (k + 1)] \in S
    OBVIOUS
  <2>2. m + (k + 1) \in 1 .. n /\ (m + (k + 1)) - 1 = m + k /\ m + k <= n
    BY <1>1, <2>1
  <2>3. p[m + k] \in S
    BY <1>3, <2>2
  <2>4. p[m + (k + 1)] = mapping[p[m + k]]
    BY <1>1, <2>2 DEF Powers
  <2> QED BY <2>3, <2>4 DEF Kept
<1>4. Nat \subseteq T
  BY <1>2, <1>3, SetInduction
<1>5. ASSUME NEW k \in m .. n PROVE p[k] \in S
  <2>1. k - m \in Nat /\ m + (k - m) = k /\ k <= n
    BY <1>1
  <2>2. k - m \in T
    BY <1>4, <2>1
  <2> QED BY <2>1, <2>2
<1> QED BY <1>1, <1>5

(* Among the powers of x, one more than there are cells, one comes again:  *)
(* the mapping does not leave them.                                        *)
LEMMA CycleKept ==
  ASSUME mapping \in [Cells -> Cells], NEW x, x \in Cells
  PROVE  x \in Cycle(x) /\ Cycle(x) \subseteq Cells /\ Kept(mapping, Cycle(x))
<1>1. PICK n : n = Cardinality(Cells) /\ n \in Nat
  BY CellsCount
<1>2. PICK p : Powers(p, x) /\ Cycle(x) = {p[k] : k \in 0 .. n}
  BY <1>1, CycleIs
<1>3. p \in [0 .. n -> Cells] /\ p[0] = x /\ \A k \in 1 .. n : p[k] = mapping[p[k - 1]]
  BY <1>1, <1>2 DEF Powers
<1>4. PICK i \in 0 .. n, j \in 0 .. n : i # j /\ p[i] = p[j]
  <2>1. IsFiniteSet(0 .. n) /\ Cardinality(0 .. n) = n + 1
    BY <1>1, FS_Interval
  <2>2. Cardinality(Cells) < Cardinality(0 .. n)
    BY <1>1, <2>1
  <2>3. PICK D : D = 0 .. n
    OBVIOUS
  <2>4. IsFiniteSet(D) /\ Cardinality(Cells) < Cardinality(D) /\ p \in [D -> Cells]
    BY <1>3, <2>1, <2>2, <2>3
  <2>5. \E i, j \in D : i # j /\ p[i] = p[j]
    BY <2>4, CellsAssumption, FS_PigeonHole
  <2> QED BY <2>3, <2>5
<1>5. PICK a \in 0 .. n, b \in 0 .. n : a < b /\ p[a] = p[b]
  BY <1>4
<1> DEFINE S == {p[k] : k \in 0 .. b - 1}
<1>6. Kept(mapping, S)
  <2>1. ASSUME NEW k \in 0 .. b - 1 PROVE mapping[p[k]] \in S
    <3>1. k + 1 \in 1 .. n /\ (k + 1) - 1 = k
      BY <1>1
    <3>2. mapping[p[k]] = p[k + 1]
      BY <1>3, <3>1
    <3>3. CASE k + 1 \in 0 .. b - 1
      BY <3>2, <3>3
    <3>4. CASE k + 1 = b
      <4>1. a \in 0 .. b - 1
        BY <1>1, <1>5
      <4> QED BY <1>5, <3>2, <3>4, <4>1
    <3> QED BY <3>3, <3>4
  <2> QED BY <2>1 DEF Kept
<1>7. p[0] \in S
  <2>1. 0 \in 0 .. b - 1
    BY <1>1, <1>5
  <2> QED BY <2>1
<1> HIDE DEF S
<1>8. \A k \in 0 .. n : p[k] \in S
  <2>1. 0 \in 0 .. Cardinality(Cells)
    BY <1>1
  <2> QED BY <1>1, <1>2, <1>6, <1>7, <2>1, PowersStay
<1>9. S = Cycle(x)
  <2>1. \A k \in 0 .. b - 1 : k \in 0 .. n
    BY <1>1
  <2>2. S \subseteq Cycle(x)
    BY <1>2, <2>1 DEF S
  <2> QED BY <1>2, <1>8, <2>2
<1>10. x \in Cycle(x) /\ Cycle(x) \subseteq Cells
  BY <1>1, <1>2, <1>3
<1> QED BY <1>6, <1>9, <1>10

LEMMA CycleInside ==
  ASSUME mapping \in [Cells -> Cells], NEW C, C \subseteq Cells, Kept(mapping, C), NEW x, x \in C
  PROVE  Cycle(x) \subseteq C
<1>1. PICK p : Powers(p, x) /\ Cycle(x) = {p[k] : k \in 0 .. Cardinality(Cells)}
  BY CycleIs
<1>2. 0 \in 0 .. Cardinality(Cells) /\ p[0] \in C
  BY <1>1, CellsCount DEF Powers
<1>3. \A k \in 0 .. Cardinality(Cells) : p[k] \in C
  BY <1>1, <1>2, PowersStay
<1> QED BY <1>1, <1>3

-----------------------------------------------------------------------------
(***************************************************************************)
(* Copies: the classes they generate.                                      *)
(***************************************************************************)
Partitions == SUBSET SUBSET Cells
Singletons == {{x} : x \in Cells}

Partition(K) ==
  /\ K \subseteq SUBSET Cells /\ UNION K = Cells
  /\ \A A, B \in K : A # B => A \cap B = {}

Generates(g, s) ==
  /\ g \in [0 .. Len(s) -> Partitions] /\ g[0] = Singletons
  /\ \A k \in 1 .. Len(s) : g[k] = Joined(g[k - 1], s[k])

LEMMA JoinedIn == ASSUME NEW K, K \in Partitions, NEW p PROVE Joined(K, p) \in Partitions
BY DEF Joined, Partitions

LEMMA ClassesIs ==
  ASSUME NEW s, Len(s) \in Nat
  PROVE  \E g : Generates(g, s) /\ Classes(s) = g[Len(s)]
<1>1. PICK n : n = Len(s) /\ n \in Nat
  OBVIOUS
<1>2. PICK D : D = Partitions
  OBVIOUS
<1>3. PICK f : f = [t \in Nat \X D |-> Joined(t[2], s[t[1]])]
  OBVIOUS
<1>4. f \in [Nat \X D -> D]
  <2>1. ASSUME NEW t \in Nat \X D PROVE f[t] \in D
    <3>1. f[t] = Joined(t[2], s[t[1]]) /\ t[2] \in D
      BY <1>3
    <3> QED BY <1>2, <3>1, JoinedIn
  <2> QED BY <1>3, <2>1
<1>5. Singletons \in D
  BY <1>2 DEF Singletons, Partitions
<1>6. PICK g : Iterates(g, n, D, Singletons, f)
  <2>1. \A m \in Nat : \E g : Iterates(g, m, D, Singletons, f)
    BY <1>4, <1>5, RecursionExists
  <2> QED BY <1>1, <2>1
<1>7. g \in [0 .. n -> D] /\ g[0] = Singletons
  BY <1>6 DEF Iterates
<1>8. ASSUME NEW k \in 1 .. n PROVE g[k] = Joined(g[k - 1], s[k])
  <2>1. k - 1 \in 0 .. n /\ k \in Nat
    BY <1>1
  <2>2. <<k, g[k - 1]>> \in Nat \X D
    BY <1>7, <2>1
  <2>3. f[<<k, g[k - 1]>>] = Joined(g[k - 1], s[k])
    BY <1>3, <2>2
  <2> QED BY <1>6, <2>3 DEF Iterates
<1>9. g = [k \in 0 .. n |-> IF k = 0 THEN {{x} : x \in Cells} ELSE Joined(g[k - 1], s[k])]
  <2>1. ASSUME NEW k \in 0 .. n
        PROVE  g[k] = IF k = 0 THEN {{x} : x \in Cells} ELSE Joined(g[k - 1], s[k])
    <3>1. k = 0 \/ k \in 1 .. n
      BY <1>1
    <3> QED BY <1>7, <1>8, <3>1 DEF Singletons
  <2> QED BY <1>7, <2>1
<1> DEFINE P == CHOOSE p : p = [k \in 0 .. Len(s) |->
                  IF k = 0 THEN {{x} : x \in Cells} ELSE Joined(p[k - 1], s[k])]
<1>10. Classes(s) = P[Len(s)]
  BY DEF Classes
<1>11. P = [k \in 0 .. n |-> IF k = 0 THEN {{x} : x \in Cells} ELSE Joined(P[k - 1], s[k])]
  BY <1>1, <1>9
<1> HIDE DEF P
<1>12. P[0] = Singletons /\ \A k \in 1 .. n : P[k] = Joined(P[k - 1], s[k])
  <2>1. 0 \in 0 .. n /\ \A k \in 1 .. n : k \in 0 .. n /\ k # 0
    BY <1>1
  <2> QED BY <1>11, <2>1 DEF Singletons
<1>13. \A k \in 0 .. n : P[k] \in Partitions
  <2> DEFINE S == {k \in Nat : k <= n => P[k] \in Partitions}
  <2>1. 0 \in S
    BY <1>2, <1>5, <1>12
  <2>2. ASSUME NEW k \in Nat, k \in S PROVE k + 1 \in S
    <3>1. SUFFICES ASSUME k + 1 <= n PROVE P[k + 1] \in Partitions
      OBVIOUS
    <3>2. k + 1 \in 1 .. n /\ (k + 1) - 1 = k /\ k <= n
      BY <1>1, <3>1
    <3>3. P[k] \in Partitions
      BY <2>2, <3>2
    <3>4. P[k + 1] = Joined(P[k], s[k + 1])
      BY <1>12, <3>2
    <3> QED BY <3>3, <3>4, JoinedIn
  <2>3. Nat \subseteq S
    BY <2>1, <2>2, SetInduction
  <2> QED BY <1>1, <2>3
<1>14. P \in [0 .. n -> Partitions]
  <2>1. P = [k \in 0 .. n |-> P[k]]
    BY <1>11
  <2> QED BY <1>13, <2>1
<1>15. Generates(P, s)
  BY <1>1, <1>12, <1>14 DEF Generates
<1> QED BY <1>10, <1>15

(* The classes of one copy more. *)
LEMMA ClassesMore ==
  ASSUME NEW s, s \in Seq(Cells \X Cells), NEW n \in 0 .. Len(s) - 1
  PROVE  Classes(SubSeq(s, 1, n + 1)) = Joined(Classes(SubSeq(s, 1, n)), s[n + 1])
<1>1. PICK t : t = SubSeq(s, 1, n)
  OBVIOUS
<1>2. PICK u : u = SubSeq(s, 1, n + 1)
  OBVIOUS
<1>3. Len(s) \in Nat /\ 1 \in 1 .. Len(s) + 1 /\ n \in 1 - 1 .. Len(s) /\ n + 1 \in 1 - 1 .. Len(s)
  OBVIOUS
<1>4. t = [i \in 1 .. n |-> s[i]]
  <2>1. t = [i \in 1 .. n - 1 + 1 |-> s[1 + i - 1]]
    BY <1>1, <1>3, SliceOfSeq
  <2> QED BY <2>1
<1>5. u = [i \in 1 .. n + 1 |-> s[i]]
  <2>1. u = [i \in 1 .. (n + 1) - 1 + 1 |-> s[1 + i - 1]]
    BY <1>2, <1>3, SliceOfSeq
  <2> QED BY <2>1
<1>6. Len(t) = n /\ Len(u) = n + 1
  <2>1. n \in Nat /\ n + 1 \in Nat
    OBVIOUS
  <2>2. t = [i \in 1 .. n |-> t[i]] /\ u = [i \in 1 .. n + 1 |-> u[i]]
    BY <1>4, <1>5
  <2>3. 1 \in 1 .. n + 1 /\ 0 \in 1 - 1 .. n /\ 1 \in 1 .. (n + 1) + 1 /\ 0 \in 1 - 1 .. n + 1
    OBVIOUS
  <2> QED BY <2>1, <2>2, <2>3, SliceOf
<1>7. PICK g : Generates(g, t) /\ Classes(t) = g[n]
  <2>1. Len(t) \in Nat
    BY <1>3, <1>6
  <2>2. \E g : Generates(g, t) /\ Classes(t) = g[Len(t)]
    BY <2>1, ClassesIs
  <2> QED BY <1>6, <2>2
<1>8. PICK h : Generates(h, u) /\ Classes(u) = h[n + 1]
  <2>1. Len(u) \in Nat
    BY <1>3, <1>6
  <2>2. \E h : Generates(h, u) /\ Classes(u) = h[Len(u)]
    BY <2>1, ClassesIs
  <2> QED BY <1>6, <2>2
<1> DEFINE S == {k \in Nat : k <= n => g[k] = h[k]}
<1>9. 0 \in S
  BY <1>7, <1>8 DEF Generates
<1>10. ASSUME NEW k \in Nat, k \in S PROVE k + 1 \in S
  <2>1. SUFFICES ASSUME k + 1 <= n PROVE g[k + 1] = h[k + 1]
    OBVIOUS
  <2>2. k + 1 \in 1 .. n /\ k + 1 \in 1 .. n + 1 /\ (k + 1) - 1 = k /\ k <= n
    BY <2>1
  <2>3. g[k] = h[k] /\ t[k + 1] = u[k + 1]
    BY <1>4, <1>5, <1>10, <2>2
  <2>4. g[k + 1] = Joined(g[k], t[k + 1]) /\ h[k + 1] = Joined(h[k], u[k + 1])
    BY <1>6, <1>7, <1>8, <2>2 DEF Generates
  <2> QED BY <2>3, <2>4
<1>11. Nat \subseteq S
  BY <1>9, <1>10, SetInduction
<1>12. g[n] = h[n]
  BY <1>11
<1>13. h[n + 1] = Joined(h[n], u[n + 1]) /\ u[n + 1] = s[n + 1]
  <2>1. n + 1 \in 1 .. n + 1 /\ (n + 1) - 1 = n
    OBVIOUS
  <2> QED BY <1>5, <1>6, <1>8, <2>1 DEF Generates
<1> QED BY <1>1, <1>2, <1>7, <1>8, <1>12, <1>13

LEMMA ClassesNone == ASSUME NEW s, s \in Seq(Cells \X Cells) PROVE Classes(SubSeq(s, 1, 0)) = Singletons
<1>1. PICK t : t = SubSeq(s, 1, 0)
  OBVIOUS
<1>2. Len(t) = 0
  BY <1>1
<1>3. PICK g : Generates(g, t) /\ Classes(t) = g[0]
  BY SMTT(40), <1>2, ClassesIs
<1> QED BY <1>1, <1>3 DEF Generates

LEMMA SingletonsPart == Partition(Singletons)
BY DEF Partition, Singletons

(* Two classes become one; a copy within a class changes nothing. *)
LEMMA JoinedIs ==
  ASSUME NEW K, Partition(K), NEW A \in K, NEW B \in K, NEW p, p[1] \in A, p[2] \in B
  PROVE  /\ Joined(K, p) = (K \ {A, B}) \cup {A \cup B}
         /\ A = B => Joined(K, p) = K
<1>1. {C \in K : p[1] \in C \/ p[2] \in C} = {A, B}
  BY DEF Partition
<1>2. UNION {A, B} = A \cup B
  OBVIOUS
<1>3. Joined(K, p) = (K \ {A, B}) \cup {A \cup B}
  BY <1>1, <1>2 DEF Joined
<1>4. A = B => (K \ {A, B}) \cup {A \cup B} = K
  OBVIOUS
<1> QED BY <1>3, <1>4

LEMMA JoinedPart ==
  ASSUME NEW K, Partition(K), NEW A \in K, NEW B \in K
  PROVE  Partition((K \ {A, B}) \cup {A \cup B})
<1>1. PICK L : L = (K \ {A, B}) \cup {A \cup B}
  OBVIOUS
<1>2. L \subseteq SUBSET Cells
  BY <1>1 DEF Partition
<1>3. UNION L = Cells
  <2>1. ASSUME NEW x \in Cells PROVE \E C \in L : x \in C
    <3>1. PICK C \in K : x \in C
      BY DEF Partition
    <3>2. A \cup B \in L
      BY <1>1
    <3>3. CASE C \in {A, B}
      BY <3>1, <3>2, <3>3
    <3>4. CASE C \notin {A, B}
      BY <1>1, <3>1, <3>4
    <3> QED BY <3>3, <3>4
  <2> QED BY <1>2, <2>1
<1>4. ASSUME NEW C \in K \ {A, B} PROVE C \cap (A \cup B) = {}
  <2>1. C \cap A = {} /\ C \cap B = {}
    BY DEF Partition
  <2> QED BY <2>1
<1>5. ASSUME NEW C \in L, NEW D \in L, C # D PROVE C \cap D = {}
  <2>1. CASE C = A \cup B
    BY <1>1, <1>4, <1>5, <2>1
  <2>2. CASE D = A \cup B
    BY <1>1, <1>4, <1>5, <2>2
  <2>3. CASE C \in K /\ D \in K
    BY <1>5, <2>3 DEF Partition
  <2> QED BY <1>1, <2>1, <2>2, <2>3
<1> QED BY <1>1, <1>2, <1>3, <1>5 DEF Partition

-----------------------------------------------------------------------------
(***************************************************************************)
(* Copies: the invariant.                                                  *)
(***************************************************************************)
OneCycle(m, C) ==
  /\ C # {} /\ Kept(m, C)
  /\ \A S \in SUBSET C : S # {} /\ Kept(m, S) => S = C

(* A class has one of its cells for a label, which knows its size. *)
Labelled(C) == \E e \in C : (\A x \in C : aux[x] = e) /\ sizes[e] = Cardinality(C)

After == Classes(SubSeq(copies, 1, merged))

(* A takes B in: what has been relabelled of B is a walk from walk.from to *)
(* walk.at.                                                                *)
Merging(A, B) ==
  /\ A # B /\ ((Left \in A /\ Right \in B) \/ (Left \in B /\ Right \in A))
  /\ walk.into \in A /\ walk.from \in B /\ walk.at \in B
  /\ \A x \in A : aux[x] = walk.into
  /\ aux[walk.from] = walk.into
  /\ \A x \in B : aux[x] = walk.into => mapping[x] = walk.at \/ aux[mapping[x]] = walk.into
  /\ sizes[walk.into] = Cardinality(A) + Cardinality(B)
  /\ \A C \in After \ {A, B} : Labelled(C)

CopyTypes ==
  /\ copies \in Seq(Cells \X Cells) /\ merged \in 0 .. Len(copies)
  /\ mapping \in [Cells -> Cells] /\ aux \in [Cells -> Cells] /\ sizes \in [Cells -> Nat]
  /\ walk.active \in BOOLEAN

CopyInv ==
  /\ CopyTypes
  /\ Partition(After) /\ \A C \in After : OneCycle(mapping, C)
  /\ ~walk.active => \A C \in After : Labelled(C)
  /\ walk.active => merged < Len(copies) /\ \E A, B \in After : Merging(A, B)

(* The swap of two arrows makes one cycle of two. *)
LEMMA CyclesMerge ==
  ASSUME mapping \in [Cells -> Cells], NEW A, A \subseteq Cells, NEW B, B \subseteq Cells, A \cap B = {},
         OneCycle(mapping, A), OneCycle(mapping, B), NEW a, a \in A, NEW b, b \in B,
         NEW m, m[a] = mapping[b], m[b] = mapping[a],
         \A x \in Cells \ {a, b} : m[x] = mapping[x]
  PROVE  OneCycle(m, A \cup B)
<1>1. Kept(m, A \cup B)
  <2>1. ASSUME NEW y \in A \cup B PROVE m[y] \in A \cup B
    BY DEF OneCycle, Kept
  <2> QED BY <2>1 DEF Kept
<1>2. A \cup B # {}
  OBVIOUS
<1>3. ASSUME NEW S \in SUBSET (A \cup B), Kept(m, S), S \cap A # {} PROVE a \in S /\ mapping[b] \in S
  <2>1. a \in S
    <3>1. SUFFICES ASSUME a \notin S PROVE FALSE
      OBVIOUS
    <3>2. Kept(mapping, S \cap A)
      <4>1. ASSUME NEW y \in S \cap A PROVE mapping[y] \in S \cap A
        <5>1. y # a /\ y # b /\ y \in Cells
          BY <3>1
        <5>2. m[y] = mapping[y]
          BY <5>1
        <5> QED BY <1>3, <5>2 DEF Kept, OneCycle
      <4> QED BY <4>1 DEF Kept
    <3>3. S \cap A = A
      BY <1>3, <3>2 DEF OneCycle
    <3> QED BY <3>1, <3>3
  <2> QED BY <1>3, <2>1 DEF Kept
<1>4. ASSUME NEW S \in SUBSET (A \cup B), Kept(m, S), S \cap B # {} PROVE b \in S /\ mapping[a] \in S
  <2>1. b \in S
    <3>1. SUFFICES ASSUME b \notin S PROVE FALSE
      OBVIOUS
    <3>2. Kept(mapping, S \cap B)
      <4>1. ASSUME NEW y \in S \cap B PROVE mapping[y] \in S \cap B
        <5>1. y # a /\ y # b /\ y \in Cells
          BY <3>1
        <5>2. m[y] = mapping[y]
          BY <5>1
        <5> QED BY <1>4, <5>2 DEF Kept, OneCycle
      <4> QED BY <4>1 DEF Kept
    <3>3. S \cap B = B
      BY <1>4, <3>2 DEF OneCycle
    <3> QED BY <3>1, <3>3
  <2> QED BY <1>4, <2>1 DEF Kept
<1>5. mapping[a] \in A /\ mapping[b] \in B
  BY DEF OneCycle, Kept
<1>6. ASSUME NEW S \in SUBSET (A \cup B), S # {}, Kept(m, S) PROVE S = A \cup B
  <2>1. S \cap A # {} /\ S \cap B # {}
    <3>1. S \cap A # {} \/ S \cap B # {}
      BY <1>6
    <3> QED BY <1>3, <1>4, <1>5, <1>6, <3>1
  <2>2. a \in S /\ b \in S /\ mapping[a] \in S /\ mapping[b] \in S
    BY <1>3, <1>4, <1>6, <2>1
  <2>3. Kept(mapping, S \cap A)
    <3>1. ASSUME NEW y \in S \cap A PROVE mapping[y] \in S \cap A
      <4>1. CASE y = a
        BY <1>5, <2>2, <4>1
      <4>2. CASE y # a
        <5>1. y # b /\ y \in Cells
          OBVIOUS
        <5>2. m[y] = mapping[y]
          BY <4>2, <5>1
        <5> QED BY <1>6, <5>2 DEF Kept, OneCycle
      <4> QED BY <4>1, <4>2
    <3> QED BY <3>1 DEF Kept
  <2>4. Kept(mapping, S \cap B)
    <3>1. ASSUME NEW y \in S \cap B PROVE mapping[y] \in S \cap B
      <4>1. CASE y = b
        BY <1>5, <2>2, <4>1
      <4>2. CASE y # b
        <5>1. y # a /\ y \in Cells
          OBVIOUS
        <5>2. m[y] = mapping[y]
          BY <4>2, <5>1
        <5> QED BY <1>6, <5>2 DEF Kept, OneCycle
      <4> QED BY <4>1, <4>2
    <3> QED BY <3>1 DEF Kept
  <2>5. S \cap A = A /\ S \cap B = B
    BY <2>1, <2>3, <2>4 DEF OneCycle
  <2> QED BY <2>5
<1> QED BY <1>1, <1>2, <1>6 DEF OneCycle

(* A cycle that is not touched. *)
LEMMA CycleStays ==
  ASSUME NEW C, OneCycle(mapping, C), NEW m, \A x \in C : m[x] = mapping[x]
  PROVE  OneCycle(m, C)
BY DEF OneCycle, Kept

(* The classes of cells. *)
LEMMA ClassOf == ASSUME Partition(After), NEW x, x \in Cells PROVE \E C \in After : x \in C
BY DEF Partition

LEMMA Ends ==
  ASSUME CopyTypes, merged < Len(copies) PROVE Left \in Cells /\ Right \in Cells
<1>1. merged + 1 \in 1 .. Len(copies)
  BY DEF CopyTypes
<1>2. copies[merged + 1] \in Cells \X Cells
  BY <1>1 DEF CopyTypes
<1> QED BY <1>2 DEF Left, Right

LEMMA InitCopies == ASSUME copies \in Seq(Cells \X Cells), CopyInit PROVE CopyInv
<1>1. After = Singletons
  BY ClassesNone DEF After, CopyInit
<1>2. CopyTypes
  BY DEF CopyTypes, CopyInit, AtRest
<1>3. ASSUME NEW C \in Singletons PROVE OneCycle(mapping, C) /\ Labelled(C)
  <2>1. PICK x \in Cells : C = {x}
    BY <1>3 DEF Singletons
  <2>2. OneCycle(mapping, C)
    BY <2>1 DEF OneCycle, Kept, CopyInit
  <2>3. Cardinality(C) = 1
    BY <2>1, FS_Singleton
  <2> QED BY <2>1, <2>2, <2>3 DEF Labelled, CopyInit
<1>4. ~walk.active
  BY DEF CopyInit, AtRest
<1> QED BY <1>1, <1>2, <1>3, <1>4, SingletonsPart DEF CopyInv

LEMMA SkipKeeps == ASSUME CopyInv, Skip, UNCHANGED copies PROVE CopyInv'
<1>1. CopyTypes /\ merged < Len(copies) /\ ~walk.active
  BY DEF CopyInv, Skip
<1>2. PICK A \in After : Left \in A
  BY <1>1, Ends, ClassOf DEF CopyInv
<1>3. PICK B \in After : Right \in B
  BY <1>1, Ends, ClassOf DEF CopyInv
<1>4. A = B
  <2>1. PICK e \in A : \A x \in A : aux[x] = e
    BY <1>1 DEF CopyInv, Labelled
  <2>2. PICK f \in B : \A x \in B : aux[x] = f
    BY <1>1 DEF CopyInv, Labelled
  <2>3. e = f
    BY <1>2, <1>3, <2>1, <2>2 DEF Skip
  <2> QED BY <2>3 DEF CopyInv, Partition
<1>5. Joined(After, copies[merged + 1]) = After
  BY <1>2, <1>3, <1>4, JoinedIs DEF CopyInv, Left, Right
<1>6. After' = After
  <2>1. merged \in 0 .. Len(copies) - 1 /\ copies \in Seq(Cells \X Cells)
    BY <1>1 DEF CopyTypes
  <2>2. After' = Classes(SubSeq(copies, 1, merged + 1))
    BY DEF After, Skip
  <2> QED BY <1>5, <2>1, <2>2, ClassesMore DEF After
<1>7. CopyTypes'
  BY <1>1 DEF CopyTypes, Skip
<1> QED BY <1>1, <1>6, <1>7 DEF CopyInv, Skip, Labelled

LEMMA SameAfter == ASSUME UNCHANGED <<copies, merged>> PROVE After' = After
BY DEF After

LEMMA Sizes ==
  ASSUME Partition(After), NEW A \in After, NEW B \in After
  PROVE  /\ Cardinality(A) \in Nat
         /\ A # B => Cardinality(A \cup B) = Cardinality(A) + Cardinality(B)
<1>1. A \subseteq Cells /\ B \subseteq Cells
  BY DEF Partition
<1>2. IsFiniteSet(A) /\ IsFiniteSet(B)
  BY <1>1, CellsAssumption, FS_Subset
<1>3. Cardinality(A) \in Nat /\ Cardinality(B) \in Nat
  BY <1>2, FS_CardinalityType
<1>4. ASSUME A # B PROVE Cardinality(A \cup B) = Cardinality(A) + Cardinality(B)
  <2>1. A \cap B = {}
    BY <1>4 DEF Partition
  <2>2. Cardinality(A \cap B) = 0
    BY <2>1, FS_EmptySet
  <2>3. Cardinality(A \cup B) = Cardinality(A) + Cardinality(B) - Cardinality(A \cap B)
    BY <1>2, FS_Union
  <2> QED BY <1>3, <2>2, <2>3
<1> QED BY <1>3, <1>4

LEMMA MergeKeeps == ASSUME CopyInv, Merge, UNCHANGED copies PROVE CopyInv'
<1>1. /\ CopyTypes /\ merged < Len(copies) /\ ~walk.active /\ Partition(After)
      /\ \A C \in After : OneCycle(mapping, C) /\ Labelled(C)
  BY DEF CopyInv, Merge
<1>2. PICK L \in After : Left \in L
  BY <1>1, Ends, ClassOf
<1>3. PICK R \in After : Right \in R
  BY <1>1, Ends, ClassOf
<1>4. (\A x \in L : aux[x] = aux[Left]) /\ aux[Left] \in L /\ sizes[aux[Left]] = Cardinality(L)
  BY <1>1, <1>2 DEF Labelled
<1>5. (\A x \in R : aux[x] = aux[Right]) /\ aux[Right] \in R /\ sizes[aux[Right]] = Cardinality(R)
  BY <1>1, <1>3 DEF Labelled
<1>6. L # R
  BY <1>2, <1>3, <1>4 DEF Merge
<1>7. PICK into, from :
        /\ \/ into = aux[Left] /\ from = aux[Right]
           \/ into = aux[Right] /\ from = aux[Left]
        /\ sizes' = [sizes EXCEPT ![into] = @ + sizes[from]]
        /\ aux' = [aux EXCEPT ![from] = into]
        /\ walk' = [active |-> TRUE, into |-> into, from |-> from, at |-> mapping[from]]
        /\ merged' = merged /\ mapping' = mapping
  BY DEF Merge
<1>8. PICK A \in After, B \in After :
        /\ A # B /\ ((Left \in A /\ Right \in B) \/ (Left \in B /\ Right \in A))
        /\ into \in A /\ from \in B
        /\ (\A x \in A : aux[x] = into) /\ (\A x \in B : aux[x] = from)
        /\ sizes[into] = Cardinality(A) /\ sizes[from] = Cardinality(B)
  <2>1. CASE into = aux[Left] /\ from = aux[Right]
    BY <1>2, <1>3, <1>4, <1>5, <1>6, <2>1
  <2>2. CASE into = aux[Right] /\ from = aux[Left]
    BY <1>2, <1>3, <1>4, <1>5, <1>6, <2>2
  <2> QED BY <1>7, <2>1, <2>2
<1>9. A \subseteq Cells /\ B \subseteq Cells /\ A \cap B = {} /\ into # from
  BY <1>1, <1>8 DEF Partition
<1>10. After' = After
  BY <1>7, SameAfter
<1>11. /\ aux \in [Cells -> Cells] /\ sizes \in [Cells -> Nat] /\ mapping \in [Cells -> Cells]
       /\ aux' \in [Cells -> Cells] /\ sizes' \in [Cells -> Nat]
  BY SMTT(40), <1>1, <1>7, <1>8, <1>9 DEF CopyTypes
<1>12. aux'[from] = into /\ \A x \in Cells : x # from => aux'[x] = aux[x]
  BY <1>7, <1>8, <1>9, <1>11
<1>13. /\ sizes'[into] = Cardinality(A) + Cardinality(B)
       /\ \A x \in Cells : x # into => sizes'[x] = sizes[x]
  BY <1>7, <1>8, <1>9, <1>11
<1>14. ASSUME NEW C \in After \ {A, B} PROVE Labelled(C)'
  <2>1. PICK e \in C : (\A x \in C : aux[x] = e) /\ sizes[e] = Cardinality(C)
    BY <1>1 DEF Labelled
  <2>2. C \subseteq Cells /\ into \notin C /\ from \notin C
    BY <1>1, <1>8 DEF Partition
  <2> QED BY <1>12, <1>13, <2>1, <2>2 DEF Labelled
<1>15. walk'.into = into /\ walk'.from = from /\ walk'.at = mapping[from] /\ walk'.active = TRUE
  BY <1>7
<1>16. mapping[from] \in B
  BY <1>1, <1>8 DEF OneCycle, Kept
<1>17. Left' = Left /\ Right' = Right
  BY <1>7 DEF Left, Right
<1>18. (\A x \in A : aux'[x] = into) /\ \A x \in B : aux'[x] = into => x = from
  BY <1>8, <1>9, <1>12
<1>19. Merging(A, B)'
  BY <1>7, <1>8, <1>10, <1>12, <1>13, <1>14, <1>15, <1>16, <1>17, <1>18 DEF Merging
<1>20. CopyTypes'
  BY <1>1, <1>7, <1>11, <1>15 DEF CopyTypes
<1> QED BY <1>1, <1>7, <1>10, <1>15, <1>19, <1>20 DEF CopyInv

LEMMA RelabelKeeps == ASSUME CopyInv, Relabel, UNCHANGED copies PROVE CopyInv'
<1>1. /\ CopyTypes /\ merged < Len(copies) /\ Partition(After)
      /\ \A C \in After : OneCycle(mapping, C)
  BY DEF CopyInv, Relabel
<1>2. PICK A \in After, B \in After : Merging(A, B)
  BY DEF CopyInv, Relabel
<1>3. /\ aux' = [aux EXCEPT ![walk.at] = walk.into] /\ walk.at # walk.from
      /\ walk' = [walk EXCEPT !.at = mapping[@]]
      /\ merged' = merged /\ mapping' = mapping /\ sizes' = sizes
  BY DEF Relabel
<1>4. After' = After /\ Left' = Left /\ Right' = Right
  BY <1>3, SameAfter DEF Left, Right
<1>5. A \subseteq Cells /\ B \subseteq Cells /\ A \cap B = {}
  BY <1>1, <1>2 DEF Partition, Merging
<1>6. walk.at \in B /\ walk.into \in A /\ walk.from \in B /\ mapping[walk.at] \in B
  BY <1>1, <1>2 DEF Merging, OneCycle, Kept
<1>7. /\ aux' \in [Cells -> Cells] /\ aux'[walk.at] = walk.into
      /\ \A x \in Cells : x # walk.at => aux'[x] = aux[x]
  BY <1>1, <1>3, <1>5, <1>6 DEF CopyTypes
<1>8. walk'.into = walk.into /\ walk'.from = walk.from /\ walk'.active = walk.active /\ walk'.at = mapping[walk.at]
  BY <1>3
<1>9. ASSUME NEW C \in After \ {A, B} PROVE Labelled(C)'
  <2>1. PICK e \in C : (\A x \in C : aux[x] = e) /\ sizes[e] = Cardinality(C)
    BY <1>2 DEF Merging, Labelled
  <2>2. C \subseteq Cells /\ walk.at \notin C
    BY <1>1, <1>6 DEF Partition
  <2> QED BY <1>3, <1>7, <2>1, <2>2 DEF Labelled
<1>10. ASSUME NEW x \in B, aux'[x] = walk.into
       PROVE  mapping[x] = mapping[walk.at] \/ aux'[mapping[x]] = walk.into
  <2>1. mapping[x] \in B
    BY <1>1 DEF OneCycle, Kept
  <2>2. CASE x = walk.at
    BY <2>2
  <2>3. CASE x # walk.at
    <3>1. aux[x] = walk.into
      BY <1>5, <1>7, <1>10, <2>3
    <3>2. mapping[x] = walk.at \/ aux[mapping[x]] = walk.into
      BY <1>2, <3>1 DEF Merging
    <3> QED BY <1>5, <1>7, <2>1, <3>2
  <2> QED BY <2>2, <2>3
<1>11. \A x \in A : aux'[x] = walk.into
  BY <1>2, <1>5, <1>6, <1>7 DEF Merging
<1>12. aux'[walk.from] = walk.into
  BY <1>2, <1>3, <1>5, <1>6, <1>7 DEF Merging
<1>13. Merging(A, B)'
  BY <1>2, <1>3, <1>4, <1>6, <1>8, <1>9, <1>10, <1>11, <1>12 DEF Merging
<1>14. CopyTypes'
  BY <1>1, <1>3, <1>7, <1>8 DEF CopyTypes
<1> QED BY <1>1, <1>3, <1>4, <1>8, <1>13, <1>14 DEF CopyInv, Relabel

LEMMA SwapKeeps == ASSUME CopyInv, Swap, UNCHANGED copies PROVE CopyInv'
<1>1. /\ CopyTypes /\ merged < Len(copies) /\ Partition(After)
      /\ \A C \in After : OneCycle(mapping, C)
  BY DEF CopyInv, Swap
<1>2. PICK A \in After, B \in After : Merging(A, B)
  BY DEF CopyInv, Swap
<1>3. A \subseteq Cells /\ B \subseteq Cells /\ A \cap B = {} /\ A # B
  BY <1>1, <1>2 DEF Partition, Merging
<1>4. \A x \in A \cup B : aux[x] = walk.into
  <2> DEFINE P == {x \in B : aux[x] = walk.into}
  <2>1. Kept(mapping, P)
    <3>1. ASSUME NEW x \in P PROVE mapping[x] \in B /\ aux[mapping[x]] = walk.into
      <4>1. mapping[x] \in B
        BY <1>1 DEF OneCycle, Kept
      <4>2. mapping[x] = walk.from \/ aux[mapping[x]] = walk.into
        BY <1>2 DEF Merging, Swap
      <4> QED BY <1>2, <4>1, <4>2 DEF Merging
    <3> QED BY <3>1 DEF Kept
  <2>2. P # {} /\ P \in SUBSET B
    BY <1>2 DEF Merging
  <2>3. P = B
    <3> HIDE DEF P
    <3> QED BY <1>1, <2>1, <2>2 DEF OneCycle
  <2>4. \A x \in B : aux[x] = walk.into
    BY <2>3
  <2> QED BY <1>2, <2>4 DEF Merging
<1>5. Left \in Cells /\ Right \in Cells /\ Left # Right
  BY <1>1, <1>2, <1>3, Ends DEF Merging
<1>6. /\ mapping' = [mapping EXCEPT ![Left] = mapping[Right], ![Right] = mapping[Left]]
      /\ walk' = AtRest /\ merged' = merged + 1 /\ aux' = aux /\ sizes' = sizes
  BY DEF Swap
<1>7. /\ mapping \in [Cells -> Cells] /\ mapping' \in [Cells -> Cells]
      /\ mapping'[Left] = mapping[Right] /\ mapping'[Right] = mapping[Left]
      /\ \A x \in Cells \ {Left, Right} : mapping'[x] = mapping[x]
  BY <1>1, <1>5, <1>6 DEF CopyTypes
<1>8. OneCycle(mapping', A \cup B)
  <2>1. PICK m : m = mapping'
    OBVIOUS
  <2>2. OneCycle(mapping, A) /\ OneCycle(mapping, B)
    BY <1>1
  <2>3. CASE Left \in A /\ Right \in B
    BY <1>3, <1>7, <2>1, <2>2, <2>3, CyclesMerge
  <2>4. CASE Left \in B /\ Right \in A
    BY <1>3, <1>7, <2>1, <2>2, <2>4, CyclesMerge
  <2> QED BY <1>2, <2>3, <2>4 DEF Merging
<1>9. After' = (After \ {A, B}) \cup {A \cup B}
  <2>1. merged \in 0 .. Len(copies) - 1 /\ copies \in Seq(Cells \X Cells)
    BY <1>1 DEF CopyTypes
  <2>2. After' = Classes(SubSeq(copies, 1, merged + 1))
    BY <1>6 DEF After
  <2>3. After' = Joined(After, copies[merged + 1])
    BY <2>1, <2>2, ClassesMore DEF After
  <2>4. PICK p : p = copies[merged + 1]
    OBVIOUS
  <2>5. PICK K : K = After
    OBVIOUS
  <2>6. CASE p[1] \in A /\ p[2] \in B
    BY <1>1, <2>3, <2>4, <2>5, <2>6, JoinedIs
  <2>7. CASE p[1] \in B /\ p[2] \in A
    <3>1. Joined(K, p) = (K \ {B, A}) \cup {B \cup A}
      BY <1>1, <2>5, <2>7, JoinedIs
    <3>2. {B, A} = {A, B} /\ B \cup A = A \cup B
      OBVIOUS
    <3> QED BY <2>3, <2>4, <2>5, <3>1, <3>2
  <2> QED BY <1>2, <2>4, <2>6, <2>7 DEF Merging, Left, Right
<1>10. Partition(After')
  BY <1>1, <1>9, JoinedPart
<1>11. ASSUME NEW C \in After' PROVE OneCycle(mapping', C) /\ Labelled(C)'
  <2>1. CASE C = A \cup B
    <3>1. sizes[walk.into] = Cardinality(C) /\ walk.into \in C
      BY <1>1, <1>2, <2>1, Sizes DEF Merging
    <3> QED BY <1>4, <1>6, <1>8, <2>1, <3>1 DEF Labelled
  <2>2. CASE C \in After \ {A, B}
    <3>1. Labelled(C)
      BY <1>2, <2>2 DEF Merging
    <3>2. C \subseteq Cells /\ Left \notin C /\ Right \notin C
      BY <1>1, <1>2, <2>2 DEF Partition, Merging
    <3>3. OneCycle(mapping, C) /\ \A x \in C : mapping'[x] = mapping[x]
      BY <1>1, <1>7, <2>2, <3>2
    <3>4. OneCycle(mapping', C)
      BY <3>3, CycleStays
    <3> QED BY <1>6, <3>1, <3>4 DEF Labelled
  <2> QED BY <1>9, <2>1, <2>2
<1>12. CopyTypes' /\ ~walk'.active
  <2>1. walk'.active = FALSE
    BY <1>6 DEF AtRest
  <2>2. merged' \in 0 .. Len(copies)
    BY <1>1, <1>6 DEF CopyTypes
  <2> QED BY <1>1, <1>6, <1>7, <2>1, <2>2 DEF CopyTypes
<1> QED BY <1>10, <1>11, <1>12 DEF CopyInv, Partition

LEMMA CopyInvHolds == CopySpec => []CopyInv
<1>1. copies \in Seq(Cells \X Cells) /\ CopyInit => CopyInv
  BY InitCopies
<1>2. CopyInv /\ [CopyNext]_<<copies, copyVars>> => CopyInv'
  <2> SUFFICES ASSUME CopyInv, [CopyNext]_<<copies, copyVars>> PROVE CopyInv'
    OBVIOUS
  <2>1. CASE CopyNext
    BY <2>1, SkipKeeps, MergeKeeps, RelabelKeeps, SwapKeeps DEF CopyNext
  <2>2. CASE UNCHANGED <<copies, copyVars>>
    <3>1. After' = After
      BY <2>2, SameAfter DEF copyVars
    <3> QED BY <2>2, <3>1 DEF CopyInv, CopyTypes, copyVars, Labelled, Merging, Left, Right
  <2> QED BY <2>1, <2>2
<1> QED BY <1>1, <1>2, PTL DEF CopySpec

(* For every set of cells and list of copies, between any two copies: each
   cycle of the permutation is one class of the copies made so far, its cells
   have one label that no other cell has, and the label knows its length. *)
THEOREM CyclesCorrect == CopySpec => []CyclesAreClasses
<1>1. CopyInv => CyclesAreClasses
  <2> SUFFICES ASSUME CopyInv, ~walk.active, NEW C \in After, NEW x \in C
               PROVE  /\ Cycle(x) = C
                      /\ {y \in Cells : aux[y] = aux[x]} = C
                      /\ sizes[aux[x]] = Cardinality(C)
    BY DEF CyclesAreClasses, After
  <2>1. /\ mapping \in [Cells -> Cells] /\ Partition(After) /\ OneCycle(mapping, C)
        /\ \A D \in After : Labelled(D)
    BY DEF CopyInv, CopyTypes
  <2>2. C \subseteq Cells /\ x \in Cells
    BY <2>1 DEF Partition
  <2>3. Cycle(x) = C
    <3>1. Cycle(x) \in SUBSET C
      BY <2>1, <2>2, CycleInside DEF OneCycle
    <3>2. Cycle(x) # {} /\ Kept(mapping, Cycle(x))
      BY <2>1, <2>2, CycleKept
    <3> QED BY <2>1, <3>1, <3>2 DEF OneCycle
  <2>4. PICK e \in C : (\A y \in C : aux[y] = e) /\ sizes[e] = Cardinality(C)
    BY <2>1 DEF Labelled
  <2>5. ASSUME NEW y \in Cells, aux[y] = e PROVE y \in C
    <3>1. PICK D \in After : y \in D
      BY <2>1, ClassOf
    <3>2. aux[y] \in D
      BY <2>1, <3>1 DEF Labelled
    <3> QED BY <2>1, <2>4, <2>5, <3>1, <3>2 DEF Partition
  <2> QED BY <2>2, <2>3, <2>4, <2>5
<1> QED BY <1>1, CopyInvHolds, PTL
=============================================================================
