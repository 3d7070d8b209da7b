------------------------------ MODULE MCSynthesis ----------------------------
(***************************************************************************)
(* Synthesis, Graph, Configure, Assigned, Mock and AirFrontend for TLC:    *)
(* what keygen makes of the cells and of the expressions, what the         *)
(* frontends make of the calls of configure and of an AIR, fractions, and  *)
(* what MockProver says of a whole circuit.  They do not interact, Mock    *)
(* but for running Configure's calls; `which` says which of them runs.     *)
(*                                                                         *)
(* Synthesis: every circuit of up to three regions of a small catalogue,   *)
(* and circuits with tables.  Advice columns are 1 and 2, 3 is the         *)
(* constants column, 4 and 5 are for tables, 6 to 8 selectors.             *)
(***************************************************************************)
EXTENDS Synthesis, Graph, Mock, AirFrontend

VARIABLE which

Sel(c, row)        == [op |-> "selector", col |-> c, at |-> row]
Adv(c, row)        == [op |-> "advice", col |-> c, at |-> row]
Fix(c, row, value) == [op |-> "fixed", col |-> c, at |-> row, value |-> value]
Con(c, row, value) == [op |-> "constant", col |-> c, at |-> row, value |-> value]
Ins(c, row, from)  == [op |-> "instance", col |-> c, at |-> row, row |-> from]
Equal(l, r)        == [op |-> "equal", left |-> l, right |-> r]

(* A constant and a selector; a pair of cells made equal twice; two rows of column 2
   with two selectors; an instance cell and a copy from the region before; a
   wide region with a hole in the constants column; a region of nothing. *)
Catalogue == <<
  << Adv(1, 0), Sel(6, 0), Con(2, 0, 7) >>,
  << Adv(1, 0), Adv(1, 1), Sel(7, 0), Equal(<<0, 1, 0>>, <<0, 1, 1>>),
     Equal(<<0, 1, 1>>, <<0, 1, 0>>) >>,
  << Adv(2, 0), Con(2, 1, 8), Sel(8, 0), Sel(6, 1) >>,
  << Adv(1, 0), Ins(2, 0, 0), Equal(<<1, 1, 0>>, <<0, 2, 0>>) >>,
  << Fix(3, 1, 5), Adv(2, 2) >>,
  << >> >>

(* Region 4 copies from a cell of column 1 that the region before it has.  *)
Valid(s) == \A i \in DOMAIN s : s[i] = 4 => i > 1 /\ s[i - 1] \in {1, 2, 4}

Regions(n) == {[i \in 1 .. k |-> [region |-> Catalogue[s[i]]]] : 
                 <<k, s>> \in {<<k, s>> \in (0 .. n) \X [1 .. n -> DOMAIN Catalogue] :
                                Valid(SubSeq(s, 1, k))}}

TabCell(c, row, value) == [col |-> c, at |-> row, value |-> value]
Tables == {
  [table |-> << TabCell(4, 0, 3), TabCell(4, 1, 9), TabCell(5, 1, 2), TabCell(5, 0, 4) >>],
  [table |-> << TabCell(4, 0, 3), TabCell(5, 0, 4), TabCell(5, 1, 2) >>],
  [table |-> << TabCell(4, 1, 3) >>],
  [table |-> << TabCell(5, 0, 1), TabCell(5, 0, 2) >>],
  [table |-> << >>] }
FullTable == [table |-> [i \in 1 .. UsableRows |-> TabCell(4, i - 1, i)]]

Programs == Regions(3) \cup {<<t>> \o r : t \in Tables \cup {FullTable}, r \in Regions(1)}
                       \cup {<<t, u>> : t, u \in Tables}

MCCircuits ==
  [planner : {"simple", "v1"}, statements : Programs,
   compress : {TRUE}, degrees : {<<1, 1, 2>>, <<0, 2, 3>>}]
    \cup [planner : {"simple", "v1"}, statements : Regions(1), compress : {FALSE}, degrees : {<<1, 1, 1>>}]

MCCells == Equality \X (0 .. N - 1)
MCConstantColumns == <<3>>

-----------------------------------------------------------------------------
(* Graph: integers modulo 5, one advice column of two rows. *)
MCField == 0 .. 4
MCPlus(a, b)  == (a + b) % 5
MCTimes(a, b) == (a * b) % 5
MCNeg(a)      == (5 - a) % 5
MCColumns      == {<<"advice", 0>>}
MCColumnValues == <<"advice", 0>> :> (0 :> 3 @@ 1 :> 4)
MCPrevious     == 0 :> 4 @@ 1 :> 2
MCChallenges   == <<3>>

-----------------------------------------------------------------------------
(* Configure: advice columns 1, 2 (unblinded) and 3 (second phase), simple
   selectors 1, 2 and 4, a complex one, and any two calls of a menu. *)
A(c, r)  == <<"advice", c, r>>
X(a, b)  == <<"product", a, b>>
Add2(a, b) == <<"sum", a, b>>
Minus(a, b) == Add2(a, <<"negated", b>>)
S(n)     == <<"selector", n>>
FX(c, r) == <<"fixed", c, r>>

NewAdvice(phase, blinded) == [op |-> "advice", phase |-> phase, blinded |-> blinded]
NewChallenge(phase) == [op |-> "challenge", phase |-> phase]
NewSel(simple) == [op |-> "selector", simple |-> simple]
Allocation ==
  << NewAdvice(0, TRUE), [op |-> "fixed"], NewAdvice(0, FALSE), [op |-> "instance"], [op |-> "fixed"],
     NewSel(TRUE), NewSel(TRUE), NewSel(FALSE), NewSel(TRUE), NewAdvice(1, TRUE), NewChallenge(0) >>

GateCall(asked, polys) == [op |-> "gate", asked |-> asked, polys |-> polys]
PairsCall(op, asked, pairs) == [op |-> op, asked |-> asked, pairs |-> pairs]

Gates == {
  GateCall(<< >>, << X(S(1), Minus(X(A(1, 0), A(2, 0)), A(1, 1))) >>),
  GateCall(<<A(1, 2), A(1, -1)>>, WithSelector(S(2), << Minus(A(2, 0), FX(1, 0)), X(A(1, 0), A(1, 3)) >>)),
  GateCall(<< >>, << Add2(X(S(3), A(2, -2)), <<"scaled", A(1, 0), 2>>), X(S(1), S(3)) >>),
  GateCall(<< >>, << X(S(4), X(X(A(1, 0), A(1, 0)), Add2(A(2, 1), <<"constant", 3>>))) >>),
  GateCall(<<A(1, 0)>>, << Minus(A(3, 0), X(<<"challenge", 1>>, Add2(A(1, 0), <<"instance", 1, 1>>))) >>) }
Menu == Gates \cup {
  GateCall(<< >>, << >>), GateCall(<< >>, << Add2(S(1), A(1, 0)) >>), GateCall(<< >>, << X(S(1), S(2)) >>),
  PairsCall("lookup", << >>, << <<X(S(3), A(1, 4)), 2>>, <<A(2, 0), 1>> >>),
  PairsCall("lookup", << >>, << <<X(S(1), A(1, 0)), 2>> >>),
  PairsCall("lookup_any", <<A(2, 1)>>, << <<A(1, 0), FX(1, 0)>>, <<A(2, 0), X(S(3), A(2, 2))>> >>),
  PairsCall("lookup_any", << >>, << <<A(1, 0), FX(1, 0)>>, <<A(2, 0), FX(2, 1)>> >>),
  PairsCall("lookup_any", << >>, << <<A(1, 0), S(3)>>, <<A(2, 0), A(2, 1)>> >>),
  PairsCall("lookup_any", << >>, << <<A(1, 0), X(S(3), A(2, 0))>> >>),
  PairsCall("shuffle", << >>, << <<X(S(3), A(1, 0)), X(S(3), A(2, -1))>> >>),
  PairsCall("shuffle", << >>, << <<X(S(2), A(1, 0)), A(2, 0)>> >>),
  [op |-> "equality", column |-> <<"advice", 1>>], [op |-> "equality", column |-> <<"instance", 1>>],
  [op |-> "constant", column |-> 1], [op |-> "minimum", degree |-> 6] }

SelectorRows == { << {0, 2}, {1}, {0, 3}, {4} >>, << {0, 1}, {1}, {2}, {3} >>, << {}, {0}, {}, {} >> }

MCCalls == {Allocation \o <<x, y>> : x, y \in Menu} \cup {Allocation \o <<x, y, z>> : x, y, z \in Gates}
MCScripts ==
  [calls : MCCalls, rows : SelectorRows, compress : BOOLEAN, n : {16}]
  \cup [calls : MCCalls, rows : {<< {0}, {1}, {0, 1}, {} >>}, compress : BOOLEAN, n : {8}]
  (* Phases and challenges, in any order. *)
  \cup [calls : [1 .. 4 -> {NewAdvice(0, TRUE), NewAdvice(1, TRUE), NewAdvice(2, FALSE),
                            NewChallenge(0), NewChallenge(2)}],
        rows : {<< >>}, compress : {TRUE}, n : {8}]

MCCellValue(leaf, row) ==
  IF leaf[1] = "challenge" THEN 2 ELSE (leaf[2] * 7 + (row + leaf[3]) * 3 + Len(leaf[1])) % 5

-----------------------------------------------------------------------------
(* Mock: the columns above, 10 rows to use of 16. *)
SelAt(s, row)      == [op |-> "selector", sel |-> s, row |-> row]
AdvAt(c, row, to)  == [op |-> "advice", col |-> c, row |-> row, to |-> to]
FixAt(c, row, to)  == [op |-> "fixed", col |-> c, row |-> row, to |-> to]
FillAt(c, row, to) == [op |-> "fill", col |-> c, row |-> row, to |-> to]
CopyAt(l, r)       == [op |-> "copy", left |-> l, right |-> r]
QueryAt(c, row)    == [op |-> "query", col |-> c, row |-> row]
Val(x)        == <<"known", <<"trivial", x>>>>
Ratio(n, d)  == <<"known", <<"rational", n, d>>>>
Known0       == <<"known", <<"zero">>>>
RegionOf(p)  == <<[op |-> "enter"]>> \o p \o <<[op |-> "exit"]>>

ProductGate == GateCall(<< >>, << X(S(1), Minus(X(A(1, 0), A(2, 0)), A(1, 1))) >>)
InstanceGate == GateCall(<< >>, << X(S(1), Minus(A(1, 0), <<"instance", 1, 0>>)) >>)
FixedGate   == GateCall(<< >>, << X(FX(1, 0), Minus(A(1, 0), A(2, 0))) >>)
OpenGate    == GateCall(<< >>, << Minus(A(1, 0), A(2, 0)) >>)
LooseGate   == GateCall(<< >>, << Minus(X(FX(1, 0), A(1, 1)), FX(2, 0)) >>)
NextGate    == GateCall(<< >>, << X(S(1), A(2, 1)) >>)
PhaseGate   == GateCall(<<A(1, 0)>>, << X(S(2), Minus(A(3, 0), X(<<"challenge", 1>>, A(1, 0)))) >>)
TwoLookups  == << PairsCall("lookup", << >>, << <<X(S(3), A(1, 0)), 2>> >>),
                  PairsCall("lookup", << >>, << <<A(2, 0), 2>> >>) >>
NextLookup(r) == PairsCall("lookup_any", << >>, << <<S(3), FX(1, 0)>>, <<X(S(3), A(1, r)), X(FX(1, 0), A(1, 1))>> >>)
Shuffled(r) == PairsCall("shuffle", << >>, << <<A(1, 0), A(2, r)>> >>)
Permutable  == << [op |-> "equality", column |-> <<"advice", 1>>], [op |-> "equality", column |-> <<"instance", 1>>],
                  [op |-> "constant", column |-> 1] >>

Circuit(calls, program, instance) ==
  [calls |-> Allocation \o calls, program |-> program, instance |-> <<instance>>,
   rows |-> << >>, compress |-> TRUE, n |-> 16]

MCMockScripts ==
  (* A gate that reads the next row, met or not, in the middle and at the end
     of the rows, with a cell left out or in another region. *)
  {Circuit(<<ProductGate, FixedGate>>,
           RegionOf(<<SelAt(1, row), AdvAt(1, row, Val(2)), AdvAt(2, row, second)>> \o last) \o after, << >>) :
     row \in {0, 9, 10}, second \in {Val(3), Ratio(9, 3), Ratio(3, 0)},
     last \in {<< >>, <<AdvAt(1, 1, Val(6))>>}, after \in {<< >>, RegionOf(<<AdvAt(1, 1, Val(6))>>)}}
  \cup {Circuit(<<ProductGate>>, RegionOf(<<AdvAt(1, 0, Val(0))>>) \o RegionOf(<<SelAt(1, 0)>>), << >>)}
  \cup {Circuit(<<NextGate>>, RegionOf(<<SelAt(1, 9), AdvAt(2, 9, Val(1))>>), << >>)}
  (* Gates that no selector switches. *)
  \cup {Circuit(<<gate>>, RegionOf(<<FixAt(1, row, Val(1)), AdvAt(1, row, Val(4)), AdvAt(2, row, to)>> \o more), << >>) :
          gate \in {FixedGate, LooseGate, OpenGate}, row \in {2, 10}, to \in {Val(4), Known0},
          more \in {<< >>, <<FixAt(2, 2, Val(4))>>, <<FillAt(2, 0, Val(1))>>}}
  (* Lookups that share a table, filled to the end or not. *)
  \cup {Circuit(TwoLookups, <<FixAt(2, 0, Val(5)), FixAt(2, 1, Ratio(6, 2))>> \o fill
                   \o RegionOf(<<SelAt(3, 0), AdvAt(1, 0, Val(5)), AdvAt(2, 0, Val(x)), AdvAt(2, 3, Val(y))>>), << >>) :
          fill \in {<< >>, <<FillAt(2, 2, Val(7))>>, <<FillAt(2, 2, Known0)>>, <<FillAt(2, 10, Val(7))>>},
          x \in {3, 5}, y \in {0, 7, 8}}
  (* What is looked up is in the next row, and the last of those is not usable. *)
  \cup {Circuit(<<NextLookup(r)>>,
                RegionOf(<<FixAt(1, 1, Val(1)), AdvAt(1, 2, Val(6)), SelAt(3, row), AdvAt(1, row, Val(x))>> \o more), << >>) :
          r \in {0, 2}, row \in {1, 8, 9}, x \in {5, 6}, more \in {<< >>, <<FixAt(1, 9, Val(1))>>}}
  \cup {Circuit(<<Shuffled(r)>>,
                RegionOf([i \in 1 .. 10 |-> AdvAt(1, i - 1, Val(i % 3))]
                         \o [i \in 1 .. 10 |-> AdvAt(2, i - 1, Val((x - i) % 3))]), << >>) :
          r \in {0, 1}, x \in {11, 12}}
  (* Copies, of cells that are not assigned and of columns that are in no
     permutation too. *)
  \cup {Circuit(Permutable, RegionOf(<<AdvAt(1, 0, Val(x)), CopyAt(<<"advice", 1, 0>>, to)>>), <<3>>) :
          x \in {0, 3}, to \in {<<"instance", 1, 0>>, <<"instance", 1, 1>>, <<"advice", 1, 4>>, <<"fixed", 1, 0>>,
                               <<"advice", 2, 0>>, <<"advice", 1, 10>>}}
  (* Instances, and a challenge. *)
  \cup {Circuit(<<InstanceGate>>, RegionOf(<<QueryAt(1, row), SelAt(1, row), AdvAt(1, row, <<"instance", 1, row>>)>>),
                instance) :
          row \in {0, 1, 10}, instance \in {<< >>, <<4>>, <<4, 2>>, [i \in 1 .. 11 |-> i]}}
  \cup {Circuit(<<PhaseGate>>, RegionOf(<<SelAt(2, row), AdvAt(1, row, Val(3)), AdvAt(col, row, <<"challenge", 1, by>>)>>), << >>) :
          row \in {0, 10}, col \in {2, 3}, by \in {<<"trivial", 3>>, <<"rational", 3, 2>>}}

MCChallengeOf(i) == 7
MCBlindValue(b, col, row) == (b * (3 * col + 5 * row) + b + row) % 11

-----------------------------------------------------------------------------
(* AirFrontend: modulo 11, two columns, eight rows. *)
CellAt(column, next) == <<"cell", column, next>>
Plus2(a, b) == <<"add", a, b>>
Less(a, b)  == <<"sub", a, b>>
Times2(a, b) == <<"mul", a, b>>
When(location, e) == Times2(<<"location", location>>, e)
Public(i)    == <<"public", i>>
Number(x)    == <<"constant", x>>

FibonacciAir ==
  << When("first", Less(CellAt(1, FALSE), Public(1))), When("first", Less(CellAt(2, FALSE), Public(2))),
     When("transition", Less(CellAt(2, FALSE), CellAt(1, TRUE))),
     When("transition", Less(Plus2(CellAt(1, FALSE), CellAt(2, FALSE)), CellAt(2, TRUE))),
     When("last", Less(CellAt(2, FALSE), Public(3))) >>
Everywhere == Less(CellAt(1, FALSE), Number(4))
Airs == {
  FibonacciAir,
  << Everywhere >>, << Less(CellAt(1, FALSE), CellAt(1, TRUE)) >>,
  << Times2(Everywhere, <<"location", "first">>) >>,
  << When("first", When("transition", Everywhere)) >>, << When("last", Less(CellAt(1, FALSE), CellAt(1, TRUE))) >>,
  << Times2(Number(1), Times2(Plus2(Number(0), Everywhere), Number(1))) >>,
  << Times2(Number(0), Everywhere), <<"neg", Plus2(Everywhere, Number(0))>> >>,
  << When("first", Less(CellAt(1, FALSE), Public(1))), When("last", Less(CellAt(1, FALSE), Public(1))) >>,
  << When("last", Less(CellAt(1, TRUE), Number(4))), When("last", Number(1)) >>,
  << When("first", Less(Public(2), CellAt(1, FALSE))) >>, << When("transition", Less(CellAt(1, FALSE), Public(1))) >> }

(* The Fibonacci numbers, one column of fours, and each with one cell changed. *)
FibTrace[i \in 1 .. 8] == IF i = 1 THEN <<0, 1>> ELSE <<FibTrace[i - 1][2], (FibTrace[i - 1][1] + FibTrace[i - 1][2]) % 11>>
Fours == [i \in 1 .. 8 |-> <<4, i>>]
Traces ==
  {SubSeq(t, 1, length) : t \in {FibTrace, Fours} \cup {[Fours EXCEPT ![i][1] = 9] : i \in {1, 3, 4, 5, 6}}
                               \cup {[FibTrace EXCEPT ![i][2] = 9] : i \in {1, 3, 4, 5, 6}},
                          length \in {5, 8}}
AirShapes == {[n |-> 8, size |-> 4, blinding |-> 3, zk |-> TRUE], [n |-> 8, size |-> 5, blinding |-> 3, zk |-> TRUE],
           [n |-> 8, size |-> 8, blinding |-> 0, zk |-> FALSE], [n |-> 8, size |-> 5, blinding |-> 0, zk |-> FALSE]}
MCAirJobs ==
  {[air |-> air, width |-> 2, publics |-> 3, n |-> sh.n, size |-> sh.size, blinding |-> sh.blinding,
    disableZk |-> ~sh.zk, trace |-> trace, claim |-> claim] :
     air \in Airs, sh \in AirShapes, trace \in Traces, claim \in {<< >>, <<0, 1, 3>>, <<0, 1, 5>>, <<4, 4, 4>>}}
MCBlinder(column, i) == 7 * column + 3 * i

-----------------------------------------------------------------------------
(* Those that do not run have one initial state. *)
MCInit ==
  /\ which \in {"synthesis", "graph", "configure", "assigned", "mock", "air"}
  /\ which # "synthesis" => circuit = CHOOSE c \in Circuits : TRUE
  /\ which # "graph"     => use = CHOOSE u \in Uses : TRUE
  /\ which \notin {"configure", "mock"} => script = CHOOSE s \in Scripts : TRUE
  /\ which # "air"       => airJob = CHOOSE j \in AirJobs : TRUE
  /\ IF which = "mock" THEN MockInit ELSE ConfigInit /\ Unmocked
  /\ Init /\ GraphInit /\ AssignedInit /\ AirInit

SynthesisStep == which = "synthesis" /\ Next /\ UNCHANGED <<graphVars, configVars, assignedVars, mockVars, airVars, which>>
GraphStep     == which = "graph" /\ GraphNext /\ UNCHANGED <<vars, configVars, assignedVars, mockVars, airVars, which>>
ConfigStep    == which = "configure" /\ ConfigNext /\ UNCHANGED <<vars, graphVars, assignedVars, mockVars, airVars, which>>
AssignedStep  == which = "assigned" /\ AssignedNext /\ UNCHANGED <<vars, graphVars, configVars, mockVars, airVars, which>>
MockStep      == which = "mock" /\ MockNext /\ UNCHANGED <<vars, graphVars, assignedVars, airVars, which>>
AirStep       == which = "air" /\ AirNext /\ UNCHANGED <<vars, graphVars, configVars, assignedVars, mockVars, which>>

MCNext == SynthesisStep \/ GraphStep \/ ConfigStep \/ AssignedStep \/ MockStep \/ AirStep
MCSpec == MCInit /\ [][MCNext]_<<vars, graphVars, configVars, assignedVars, mockVars, airVars, which>>

(* The type invariants. *)
AllTyped == TypeOK /\ GraphTypeOK /\ ConfigTypeOK
=============================================================================
