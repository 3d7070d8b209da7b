------------------------------ MODULE Configure ------------------------------
(***************************************************************************)
(* The frontend's ConstraintSystem (halo2_frontend, constraint_system.rs   *)
(* and expression.rs): what a circuit's configure may call, and what       *)
(* compile_circuit makes of it for the backend, whose own view of the      *)
(* compiled circuit is ConstraintSystem.                                   *)
(*                                                                         *)
(* An expression is a tree: <<"sum", a, b>>, <<"product", a, b>>,          *)
(* <<"negated", a>>, <<"scaled", a, k>> over the leaves <<"constant", k>>,  *)
(* <<"challenge", i>>, <<"selector", s>> and the queries                   *)
(* <<column type, column, rotation>>.                                      *)
(***************************************************************************)
EXTENDS SelectorCompression

Back == INSTANCE ConstraintSystem

CONSTANTS
  Scripts,        \* the calls of configure, and what is compiled with them
  CellValue(_, _) \* the value of a leaf that is no selector, at a row

VARIABLES
  script,
  call,     \* the call that is next
  cs,       \* the constraint system under configuration
  outcome,
  compiled  \* the constraint system without selectors, and the columns that replace them

configVars == <<script, call, cs, outcome, compiled>>

-----------------------------------------------------------------------------
(* Expressions. *)
RECURSIVE Leaves(_), DegreeOf(_), Buildable(_, _), Replaced(_, _), ValueAt(_, _)

ColumnQueries == {"advice", "fixed", "instance"}

Leaves(e) == CASE e[1] \in {"sum", "product"}    -> Leaves(e[2]) \o Leaves(e[3])
               [] e[1] \in {"negated", "scaled"} -> Leaves(e[2])
               [] OTHER                          -> <<e>>
DegreeOf(e) == CASE e[1] = "sum"                       -> Max({DegreeOf(e[2]), DegreeOf(e[3])})
                 [] e[1] = "product"                   -> DegreeOf(e[2]) + DegreeOf(e[3])
                 [] e[1] \in {"negated", "scaled"}     -> DegreeOf(e[2])
                 [] e[1] \in {"constant", "challenge"} -> 0
                 [] OTHER                              -> 1

CellsOf(e)     == SelectSeq(Leaves(e), LAMBDA leaf : leaf[1] \in ColumnQueries)
SelectorsOf(e) == {leaf[2] : leaf \in {l \in ToSet(Leaves(e)) : l[1] = "selector"}}
ContainsFixed(e) == \E leaf \in ToSet(Leaves(e)) : leaf[1] = "fixed"
ContainsFixedOrSelector(e) == ContainsFixed(e) \/ SelectorsOf(e) # {}

(* Of the selectors of a constraint system those that are simple. *)
SimpleOf(e, c) == {s \in SelectorsOf(e) : c.selectors[s]}
ContainsSimple(e, c) == SimpleOf(e, c) # {}

(* The operators panic rather than add a simple selector to something, or
   multiply two of them. *)
Buildable(e, c) ==
  CASE e[1] = "sum"     -> /\ Buildable(e[2], c) /\ Buildable(e[3], c)
                           /\ ~ContainsSimple(e[2], c) /\ ~ContainsSimple(e[3], c)
    [] e[1] = "product" -> /\ Buildable(e[2], c) /\ Buildable(e[3], c)
                           /\ ~(ContainsSimple(e[2], c) /\ ContainsSimple(e[3], c))
    [] e[1] \in {"negated", "scaled"} -> Buildable(e[2], c)
    [] OTHER -> TRUE

Replaced(e, replacements) ==
  CASE e[1] = "selector"            -> replacements[e[2]]
    [] e[1] \in {"sum", "product"}  -> <<e[1], Replaced(e[2], replacements), Replaced(e[3], replacements)>>
    [] e[1] = "negated"             -> <<e[1], Replaced(e[2], replacements)>>
    [] e[1] = "scaled"              -> <<e[1], Replaced(e[2], replacements), e[3]>>
    [] OTHER -> e

WithSelector(selector, polys) == [i \in DOMAIN polys |-> <<"product", selector, polys[i]>>]

-----------------------------------------------------------------------------
(* The constraint system. *)
Default ==
  [fixed |-> 0, instance |-> 0, phases |-> << >>, unblinded |-> << >>, challenges |-> << >>,
   selectors |-> << >>,  \* whether they are simple
   queries |-> [type \in ColumnQueries |-> << >>], counts |-> << >>,
   permutation |-> << >>, constants |-> << >>,
   gates |-> << >>, lookups |-> << >>, shuffles |-> << >>, minDegree |-> 1]

(* A query is kept once; an advice query counts for its column. *)
Query(c, q) ==
  IF Contains(c.queries[q[1]], q) THEN c
  ELSE [c EXCEPT !.queries[q[1]] = Append(@, q),
                 !.counts = IF q[1] = "advice" THEN [@ EXCEPT ![q[2]] = @ + 1] ELSE @]
QueryAll(c, queries)    == FoldLeft(Query, c, queries)
QueryCells(c, exprs)    == QueryAll(c, FlattenSeq([i \in DOMAIN exprs |-> CellsOf(exprs[i])]))
QueryPairs(c, pairs)    == QueryCells(c, FlattenSeq(pairs))

WithEquality(c, column) ==
  [Query(c, Append(column, 0)) EXCEPT !.permutation = IF Contains(@, column) THEN @ ELSE Append(@, column)]

PhaseExists(c, phase) == Contains(c.phases, phase)

MaxDegreeOf(exprs) == Max({1} \cup {DegreeOf(exprs[i]) : i \in DOMAIN exprs})
LookupDegree(l)  == Max({4, 2 + MaxDegreeOf(l.inputs) + MaxDegreeOf(l.tables)})
ShuffleDegree(s) == 2 + Max({MaxDegreeOf(s.inputs), MaxDegreeOf(s.tables)})
GateExprs(c)     == ToSet(FlattenSeq(c.gates))

FrontDegree(c) ==
  Max({3, c.minDegree} \cup {LookupDegree(c.lookups[i]) : i \in DOMAIN c.lookups}
      \cup {ShuffleDegree(c.shuffles[i]) : i \in DOMAIN c.shuffles}
      \cup {DegreeOf(e) : e \in GateExprs(c)})
FrontBlinding(c)    == Max({3} \cup ToSet(c.counts)) + 1 + 1
FrontMinimumRows(c) == FrontBlinding(c) + 1 + 1 + 1

-----------------------------------------------------------------------------
(* The calls of configure.  What a closure asks for by way of its cells is
   queried whether or not a polynomial uses it. *)
Call == script.calls[call]
Configures(op) == outcome = "configuring" /\ call <= Len(script.calls) /\ Call.op = op

Configured(c) == cs' = c /\ call' = call + 1 /\ UNCHANGED <<script, outcome, compiled>>
EndsWith(how) == outcome' = how /\ UNCHANGED <<script, call, cs, compiled>>
Panics        == EndsWith("panic")

AdviceColumnIn ==
  /\ Configures("advice")
  /\ IF Call.phase > 0 /\ ~PhaseExists(cs, Call.phase - 1) THEN Panics
     ELSE Configured([cs EXCEPT !.phases = Append(@, Call.phase), !.counts = Append(@, 0),
                                !.unblinded = IF Call.blinded THEN @ ELSE Append(@, Len(cs.phases) + 1)])

FixedColumn    == Configures("fixed") /\ Configured([cs EXCEPT !.fixed = @ + 1])
InstanceColumn == Configures("instance") /\ Configured([cs EXCEPT !.instance = @ + 1])

ChallengeUsableAfter ==
  /\ Configures("challenge")
  /\ IF PhaseExists(cs, Call.phase) THEN Configured([cs EXCEPT !.challenges = Append(@, Call.phase)]) ELSE Panics

NewSelector == Configures("selector") /\ Configured([cs EXCEPT !.selectors = Append(@, Call.simple)])

EnableEquality == Configures("equality") /\ Configured(WithEquality(cs, Call.column))
EnableConstant ==
  /\ Configures("constant")
  /\ Configured(IF Contains(cs.constants, Call.column) THEN cs
                ELSE WithEquality([cs EXCEPT !.constants = Append(@, Call.column)], <<"fixed", Call.column>>))

SetMinimumDegree == Configures("minimum") /\ Configured([cs EXCEPT !.minDegree = Call.degree])

CreateGate ==
  /\ Configures("gate")
  /\ IF Call.polys = << >> \/ \E i \in DOMAIN Call.polys : ~Buildable(Call.polys[i], cs) THEN Panics
     ELSE Configured([QueryCells(QueryAll(cs, Call.asked), Call.polys) EXCEPT !.gates = Append(@, Call.polys)])

InputsOf(pairs) == [i \in DOMAIN pairs |-> pairs[i][1]]
TablesOf(pairs) == [i \in DOMAIN pairs |-> pairs[i][2]]
AllBuildable(pairs, c) == \A i \in DOMAIN pairs : Buildable(pairs[i][1], c) /\ Buildable(pairs[i][2], c)
Argument(pairs) == [inputs |-> InputsOf(pairs), tables |-> TablesOf(pairs)]

(* The table of a lookup is a column of its own. *)
TableQueries(pairs) == [i \in DOMAIN pairs |-> <<<<"fixed", pairs[i][2], 0>>, pairs[i][1]>>]

Lookup ==
  /\ Configures("lookup")
  /\ LET pairs == [i \in DOMAIN Call.pairs |-> <<Call.pairs[i][1], <<"fixed", Call.pairs[i][2], 0>>>>]
     IN  IF ~AllBuildable(pairs, cs) \/ \E e \in ToSet(InputsOf(pairs)) : ContainsSimple(e, cs) THEN Panics
         ELSE Configured([QueryPairs(QueryAll(cs, Call.asked), TableQueries(Call.pairs))
                            EXCEPT !.lookups = Append(@, Argument(pairs))])

(* The sanity checks, a default feature: a table that could be a lookup's, or
   that no fixed column or selector tags. *)
Tagging(e) == ContainsFixedOrSelector(e) /\ DegreeOf(e) = 1
InsaneTables(tables) ==
  \/ \A e \in ToSet(tables) : DegreeOf(e) = 1 /\ ContainsFixed(e)
  \/ \E e \in ToSet(tables) : ~ContainsFixedOrSelector(e)
  \/ \A e \in ToSet(tables) : ~Tagging(e)

(* fault: the table is not asked for its cells *)
LookupAnyInputs ==
  /\ Configures("lookup_any")
  /\ Configured([QueryCells(cs, InputsOf(Call.pairs)) EXCEPT !.lookups = Append(@, Argument(Call.pairs))])

LookupAny ==
  /\ Configures("lookup_any")
  /\ IF \/ ~AllBuildable(Call.pairs, cs) \/ \E e \in ToSet(FlattenSeq(Call.pairs)) : ContainsSimple(e, cs)
        \/ InsaneTables(TablesOf(Call.pairs))
       THEN Panics
     ELSE Configured([QueryPairs(QueryAll(cs, Call.asked), Call.pairs)
                        EXCEPT !.lookups = Append(@, Argument(Call.pairs))])

(* Nothing looks for simple selectors here. *)
Shuffle ==
  /\ Configures("shuffle")
  /\ IF ~AllBuildable(Call.pairs, cs) THEN Panics
     ELSE Configured([QueryPairs(QueryAll(cs, Call.asked), Call.pairs)
                        EXCEPT !.shuffles = Append(@, Argument(Call.pairs))])

-----------------------------------------------------------------------------
(* compile_circuit.  A selector is simple in at most one place of a gate. *)
(* fault: complex selectors are packed too *)
PackedAll(s, e) == s \in SelectorsOf(e)

Packed(s, e) == s \in SimpleOf(e, cs)

ConfigDescriptions ==
  [s \in DOMAIN cs.selectors |->
     [sel |-> s, rows |-> script.rows[s],
      degree |-> Max({0} \cup {DegreeOf(e) : e \in {g \in GateExprs(cs) : Packed(s, g)}})]]
Packing ==
  IF script.compress THEN Combinations(ConfigDescriptions, FrontDegree(cs))
  ELSE [s \in DOMAIN ConfigDescriptions |-> <<ConfigDescriptions[s]>>]

(* q * Prod_{i # root} (i - q) *)
RootExpression(q, root, length) ==
  FoldLeft(LAMBDA e, i : IF i = root THEN e
                         ELSE <<"product", e, <<"sum", <<"constant", i>>, <<"negated", q>>>>>>,
           q, [i \in 1 .. length |-> i])

ColumnQuery(n) == <<"fixed", cs.fixed + n, 0>>
ReplacementsOf(packing) ==
  [s \in DOMAIN cs.selectors |->
     LET n    == CHOOSE n \in DOMAIN packing : \E i \in DOMAIN packing[n] : packing[n][i].sel = s
         root == CHOOSE i \in DOMAIN packing[n] : packing[n][i].sel = s
     IN  RootExpression(ColumnQuery(n), root, Len(packing[n]))]

ReplacedAll(exprs, replacements) == [i \in DOMAIN exprs |-> Replaced(exprs[i], replacements)]
ReplacedIn(argument, replacements) ==
  [inputs |-> ReplacedAll(argument.inputs, replacements), tables |-> ReplacedAll(argument.tables, replacements)]

Without(packing, replacements) ==
  [QueryAll([cs EXCEPT !.fixed = @ + Len(packing)], [n \in DOMAIN packing |-> ColumnQuery(n)])
     EXCEPT !.gates     = [g \in DOMAIN @ |-> ReplacedAll(@[g], replacements)],
            !.lookups   = [l \in DOMAIN @ |-> ReplacedIn(@[l], replacements)],
            !.shuffles  = [s \in DOMAIN @ |-> ReplacedIn(@[s], replacements)],
            !.selectors = IF script.compress THEN @ ELSE << >>]

CompiledFrom(packing) ==
  [cs    |-> Without(packing, ReplacementsOf(packing)),
   polys |-> [n \in DOMAIN packing |-> [row \in 0 .. script.n - 1 |-> Assignment(packing[n], row)]]]

(* The exprs in which no selector may be simple once they are replaced. *)
ArgumentExprs == ToSet(FlattenSeq([i \in DOMAIN (cs.lookups \o cs.shuffles) |->
                   (cs.lookups \o cs.shuffles)[i].inputs \o (cs.lookups \o cs.shuffles)[i].tables]))

Compile ==
  /\ outcome = "configuring" /\ call > Len(script.calls)
  /\ IF script.n < FrontMinimumRows(cs) THEN EndsWith("not_enough_rows")
     ELSE IF \E e \in ArgumentExprs : ContainsSimple(e, cs) THEN Panics
     ELSE /\ outcome' = "compiled" /\ compiled' = CompiledFrom(Packing)
          /\ UNCHANGED <<script, call, cs>>

(* What goes to the backend: every polynomial of a gate is a gate. *)
MidArgument(argument) ==
  [queries |-> FlattenSeq([i \in DOMAIN (argument.inputs \o argument.tables) |->
                             CellsOf((argument.inputs \o argument.tables)[i])]),
   input |-> MaxDegreeOf(argument.inputs), table |-> MaxDegreeOf(argument.tables)]
MidGates(c) == LET polys == FlattenSeq(c.gates)
               IN  [i \in DOMAIN polys |-> [queries |-> CellsOf(polys[i]), degree |-> DegreeOf(polys[i])]]
Mid(c) ==
  [adv |-> c.phases, chal |-> c.challenges, unblinded |-> c.unblinded, perm |-> c.permutation,
   gates |-> MidGates(c),
   lookups  |-> [i \in DOMAIN c.lookups |-> MidArgument(c.lookups[i])],
   shuffles |-> [i \in DOMAIN c.shuffles |-> MidArgument(c.shuffles[i])],
   minDegree |-> c.minDegree]

Unconfigured == call = 1 /\ cs = Default /\ outcome = "configuring" /\ compiled = << >>
ConfigInit   == script \in Scripts /\ Unconfigured

ConfigureCall ==
  \/ AdviceColumnIn \/ FixedColumn \/ InstanceColumn \/ ChallengeUsableAfter \/ NewSelector
  \/ EnableEquality \/ EnableConstant \/ SetMinimumDegree
  \/ CreateGate \/ Lookup \/ LookupAny \/ Shuffle

ConfigNext == ConfigureCall \/ Compile

ConfigSpec == ConfigInit /\ [][ConfigNext]_configVars

-----------------------------------------------------------------------------
ConfigTypeOK ==
  /\ outcome \in {"configuring", "panic", "not_enough_rows", "compiled"}
  /\ call \in 1 .. Len(script.calls) + 1
  /\ \A type \in ColumnQueries : IsInjective(cs.queries[type])
  /\ \A col \in DOMAIN cs.counts :
       cs.counts[col] = Len(SelectSeq(cs.queries["advice"], LAMBDA q : q[2] = col))

(* The backend derives its queries, its blinding and its degree anew, from the
   expressions that are left.  It opens nothing the frontend did not count, so
   that no row a circuit was let assign is blinded, it needs the domain that
   selectors were packed for, and every phase has a column to wait for. *)
BackendFits ==
  outcome = "compiled" =>
    LET c   == compiled.cs
        mid == Mid(c)
    IN  /\ \A type \in ColumnQueries : ToSet(Back!Queries(mid, type)) \subseteq ToSet(c.queries[type])
        /\ Back!BlindingFactors(mid) <= FrontBlinding(cs) /\ Back!MinimumRows(mid) <= script.n
        /\ Back!Degree(mid) = FrontDegree(cs) /\ FrontDegree(c) = FrontDegree(cs)
        /\ \A phase \in ToSet(Back!Phases(mid)) : phase = 0 \/ PhaseExists(c, phase)
        /\ ToSet(c.challenges) \subseteq ToSet(Back!Phases(mid))

(* The value of an expression at a row: a selector is 1 on the rows where it
   is enabled, the columns that replace selectors hold what was packed. *)
ValueAt(e, row) ==
  CASE e[1] = "sum"      -> ValueAt(e[2], row) + ValueAt(e[3], row)
    [] e[1] = "product"  -> ValueAt(e[2], row) * ValueAt(e[3], row)
    [] e[1] = "negated"  -> 0 - ValueAt(e[2], row)
    [] e[1] = "scaled"   -> ValueAt(e[2], row) * e[3]
    [] e[1] = "constant" -> e[2]
    [] e[1] = "selector" -> IF row \in script.rows[e[2]] THEN 1 ELSE 0
    [] e[1] = "fixed" /\ e[2] > cs.fixed -> compiled.polys[e[2] - cs.fixed][row]
    [] OTHER -> CellValue(e, row)

SameValues(exprs, others, row) == \A i \in DOMAIN exprs : ValueAt(exprs[i], row) = ValueAt(others[i], row)
SameArguments(before, after, row) ==
  \A i \in DOMAIN before : /\ SameValues(before[i].inputs, after[i].inputs, row)
                           /\ SameValues(before[i].tables, after[i].tables, row)

(* What is compiled constrains what configure wrote down, packed or not: on
   every row a gate vanishes where it did with its selectors, and what is
   looked up or shuffled is the same. *)
SameConstraints ==
  outcome = "compiled" =>
    \A row \in 0 .. script.n - 1 :
      /\ \A g \in DOMAIN cs.gates : \A i \in DOMAIN cs.gates[g] :
           ValueAt(cs.gates[g][i], row) = 0 <=> ValueAt(compiled.cs.gates[g][i], row) = 0
      /\ SameArguments(cs.lookups, compiled.cs.lookups, row)
      /\ SameArguments(cs.shuffles, compiled.cs.shuffles, row)

(* Both: what the backend makes of a compiled circuit is what configure meant. *)
BackendAgrees == BackendFits /\ SameConstraints
=============================================================================
