--------------------------------- MODULE Mock --------------------------------
(***************************************************************************)
(* MockProver (halo2_frontend, dev.rs) beside what it mocks: the cells     *)
(* keygen and the WitnessCalculator collect from the same circuit, and the *)
(* constraints the proof is about.                                         *)
(*                                                                         *)
(* A program is the list of calls a floor planner makes on an Assignment.  *)
(* They are made once for keygen and then, for the witness and again for   *)
(* the mock, once for every phase.  Cells of an advice column that are not *)
(* usable are random in a proof; the mock holds poison there.              *)
(***************************************************************************)
EXTENDS Configure, Assigned

CONSTANTS
  MockScripts,        \* scripts of configure, with a program and instances
  ChallengeOf(_),     \* the values of challenges
  Blindings,
  BlindValue(_, _, _) \* a cell that is not usable, by blinding, column and row

VARIABLES
  pass,     \* whose Assignment is called, and the phase
  callAt,   \* the call of the program that is next
  real,     \* what keygen and the witness have collected
  mock,     \* what MockProver has
  verdict, failures

mockVars == <<pass, callAt, real, mock, verdict, failures>>

-----------------------------------------------------------------------------
RowsEnd   == script.n - (FrontBlinding(cs) + 1)
MaxPhase  == Max({0} \cup ToSet(cs.phases))
InUse(row) == row < RowsEnd
AllRows    == 0 .. script.n - 1
UsableOnly == 0 .. RowsEnd - 1
Filled(count, cell) == [i \in 1 .. count |-> [row \in AllRows |-> cell]]

NoSelectors == [s \in DOMAIN cs.selectors |-> {}]
RealStart ==
  [fixed |-> Filled(cs.fixed, <<"trivial", 0>>), advice |-> Filled(Len(cs.phases), <<"zero">>),
   selectors |-> NoSelectors, copies |-> << >>, ok |-> TRUE]
MockStart ==
  [fixed |-> Filled(cs.fixed, <<"unassigned">>),
   advice |-> [i \in DOMAIN cs.phases |-> [row \in AllRows |-> IF InUse(row) THEN <<"unassigned">> ELSE <<"poison">>]],
   selectors |-> NoSelectors, copies |-> << >>, regions |-> << >>, region |-> << >>, ok |-> TRUE]

(* The mock asserts what keygen and the prover return as errors. *)
Run ==
  /\ pass = << >> /\ outcome = "configuring" /\ call > Len(script.calls)
  /\ IF script.n < FrontMinimumRows(cs) \/ \E i \in DOMAIN script.instance : Len(script.instance[i]) > RowsEnd
       THEN Panics /\ UNCHANGED mockVars
     ELSE /\ pass' = <<"keygen", 0>> /\ callAt' = 1 /\ real' = RealStart /\ mock' = MockStart
          /\ UNCHANGED <<verdict, failures, configVars>>

-----------------------------------------------------------------------------
(* The passes over the program. *)
MockCall == script.program[callAt]
Makes(op) == pass # << >> /\ pass[1] \in {"keygen", "witness", "mock"}
             /\ callAt <= Len(script.program) /\ MockCall.op = op
By(who)   == pass[1] = who
First     == By("keygen") \/ pass = <<"mock", 0>>

RealIs(r) == real' = r /\ callAt' = callAt + 1 /\ UNCHANGED <<pass, mock, verdict, failures, configVars>>
MockIs(m) == mock' = m /\ callAt' = callAt + 1 /\ UNCHANGED <<pass, real, verdict, failures, configVars>>
Ignored   == callAt' = callAt + 1 /\ UNCHANGED <<pass, real, mock, verdict, failures, configVars>>
Fails     ==
  /\ IF By("mock") THEN pass' = <<"stopped", 0>> /\ mock' = [mock EXCEPT !.ok = FALSE] /\ UNCHANGED real
     ELSE pass' = <<"mock", 0>> /\ real' = [real EXCEPT !.ok = FALSE] /\ UNCHANGED mock
  /\ callAt' = 1 /\ UNCHANGED <<verdict, failures, configVars>>

(* A value is known, comes from an instance or is a multiple of a challenge,
   which is known once its phase is over. *)
PublicValue(col, row) ==
  IF row < Len(script.instance[col]) THEN script.instance[col][row + 1] ELSE 0
ChallengeKnown(i) == ~By("keygen") /\ pass[2] > cs.challenges[i]
Known(to) ==
  CASE to[1] = "known"     -> <<to[2]>>
    [] to[1] = "instance"  -> IF By("keygen") THEN << >> ELSE <<<<"trivial", PublicValue(to[2], to[3])>>>>
    [] to[1] = "challenge" ->
         IF ChallengeKnown(to[2]) THEN <<Multiplication(to[3], <<"trivial", ChallengeOf(to[2])>>)>> ELSE << >>

MockEnterRegion ==
  /\ Makes("enter")
  /\ IF pass = <<"mock", 0>> THEN MockIs([mock EXCEPT !.region = <<[cells |-> {}, enabled |-> {}]>>]) ELSE Ignored
MockExitRegion ==
  /\ Makes("exit")
  /\ IF pass = <<"mock", 0>> THEN MockIs([mock EXCEPT !.regions = @ \o mock.region, !.region = << >>]) ELSE Ignored

MockEnableSelector ==
  /\ Makes("selector")
  /\ IF ~First THEN Ignored
     ELSE IF ~InUse(MockCall.row) THEN Fails
     ELSE IF By("keygen") THEN RealIs([real EXCEPT !.selectors[MockCall.sel] = @ \cup {MockCall.row}])
     ELSE MockIs([mock EXCEPT !.selectors[MockCall.sel] = @ \cup {MockCall.row},
                              !.region[1].enabled = @ \cup {<<MockCall.sel, MockCall.row>>}])

(* The witness has the instances as they were given, the mock pads them. *)
MockQueryInstance ==
  /\ Makes("query")
  /\ IF ~InUse(MockCall.row) \/ (By("witness") /\ MockCall.row >= Len(script.instance[MockCall.col]))
       THEN Fails ELSE Ignored

(* The cells assigned in a region are looked at again; those of constants and
   tables are assigned outside of any. *)
Touched(m, cells) == IF m.region = << >> THEN m ELSE [m EXCEPT !.region[1].cells = @ \cup cells]
MockStores(m, type, col, row, to) ==
  IF type = "advice" THEN [m EXCEPT !.advice[col][row] = <<"assigned", Evaluated(to)>>]
  ELSE [m EXCEPT !.fixed[col][row] = <<"assigned", Evaluated(to)>>]

WitnessAssignAdvice ==
  /\ Makes("advice") /\ ~By("mock")
  /\ IF By("keygen") \/ cs.phases[MockCall.col] # pass[2] THEN Ignored
     ELSE IF ~InUse(MockCall.row) \/ Known(MockCall.to) = << >> THEN Fails
     ELSE RealIs([real EXCEPT !.advice[MockCall.col][MockCall.row] = Known(MockCall.to)[1]])

(* fault: what is not known yet is an error in every phase *)
MockAssignAdviceKnown ==
  /\ Makes("advice") /\ By("mock")
  /\ IF Known(MockCall.to) = << >> THEN Fails
     ELSE MockIs(MockStores(Touched(mock, {<<"advice", MockCall.col, MockCall.row>>}),
                            "advice", MockCall.col, MockCall.row, Known(MockCall.to)[1]))

(* The mock stores what is known in any phase, the last word being that of
   the last one. *)
MockAssignAdvice ==
  /\ Makes("advice") /\ By("mock")
  /\ LET to == Known(MockCall.to)
         m  == IF pass[2] = 0 THEN Touched(mock, {<<"advice", MockCall.col, MockCall.row>>}) ELSE mock
     IN  IF pass[2] = 0 /\ ~InUse(MockCall.row) THEN Fails
         ELSE IF to # << >> THEN MockIs(MockStores(m, "advice", MockCall.col, MockCall.row, to[1]))
         ELSE IF cs.phases[MockCall.col] = pass[2] THEN Fails
         ELSE MockIs(m)

MockAssignFixed ==
  /\ Makes("fixed")
  /\ LET to == Known(MockCall.to)
     IN  IF ~First THEN Ignored
         ELSE IF ~InUse(MockCall.row) \/ to = << >> THEN Fails
         ELSE IF By("keygen") THEN RealIs([real EXCEPT !.fixed[MockCall.col][MockCall.row] = to[1]])
         ELSE MockIs(MockStores(Touched(mock, {<<"fixed", MockCall.col, MockCall.row>>}),
                                "fixed", MockCall.col, MockCall.row, to[1]))

Permuted(cell) == Contains(cs.permutation, <<cell[1], cell[2]>>)
MockCopy ==
  /\ Makes("copy")
  /\ LET pair == <<MockCall.left, MockCall.right>>
     IN  IF ~First THEN Ignored
         ELSE IF \E i \in DOMAIN pair : ~InUse(pair[i][3]) \/ ~Permuted(pair[i]) THEN Fails
         ELSE IF By("keygen") THEN RealIs([real EXCEPT !.copies = Append(@, pair)])
         ELSE MockIs([mock EXCEPT !.copies = Append(@, pair)])

MockFillFromRow ==
  /\ Makes("fill")
  /\ LET to == Known(MockCall.to)
         rows == MockCall.row .. RowsEnd - 1
     IN  IF ~First THEN Ignored
         ELSE IF ~InUse(MockCall.row) \/ to = << >> THEN Fails
         ELSE IF By("keygen")
           THEN RealIs([real EXCEPT !.fixed[MockCall.col] = [row \in DOMAIN @ |-> IF row \in rows THEN to[1] ELSE @[row]]])
         ELSE MockIs([Touched(mock, {<<"fixed", MockCall.col, row>> : row \in rows}) EXCEPT !.fixed[MockCall.col] =
                        [row \in DOMAIN @ |-> IF row \in rows THEN <<"assigned", Evaluated(to[1])>> ELSE @[row]]])

(* The columns of a phase are inverted together, and so are the fixed ones. *)
EndPass ==
  /\ pass # << >> /\ pass[1] \in {"keygen", "witness", "mock"} /\ callAt > Len(script.program)
  /\ pass' = CASE By("keygen") -> <<"witness", 0>>
               [] By("witness") /\ pass[2] = MaxPhase -> <<"mock", 0>>
               [] By("mock") /\ pass[2] = MaxPhase -> <<"compress", 0>>
               [] OTHER -> <<pass[1], pass[2] + 1>>
  /\ callAt' = 1 /\ UNCHANGED <<mock, verdict, failures, call, cs, outcome, compiled>>
  /\ script' = IF pass' = <<"compress", 0>> THEN [script EXCEPT !.rows = mock.selectors, !.compress = TRUE] ELSE script
  /\ real' = CASE By("keygen")  -> [real EXCEPT !.fixed = [i \in DOMAIN @ |-> BatchInverted(@[i])]]
               [] By("witness") -> [real EXCEPT !.advice =
                    [i \in DOMAIN @ |-> IF cs.phases[i] = pass[2] THEN BatchInverted(@[i]) ELSE @[i]]]
               [] OTHER -> real

(* The selectors that were enabled become fixed columns. *)
MockCompress ==
  /\ pass # << >> /\ By("compress")
  /\ pass' = <<"verify", 0>> /\ outcome' = "compiled" /\ compiled' = CompiledFrom(Packing)
  /\ UNCHANGED <<script, call, cs, callAt, real, mock, verdict, failures>>

-----------------------------------------------------------------------------
(* What verify computes with: <<v>> is a value, << >> is poison, which zero
   takes out of a product. *)
Poison == << >>
ReadNegated(a)   == IF a = Poison THEN a ELSE <<Reduced(0 - a[1])>>
ReadSum(a, b)    == IF Poison \in {a, b} THEN Poison ELSE <<Reduced(a[1] + b[1])>>
ReadProduct(a, b)  == IF <<0>> \in {a, b} THEN <<0>> ELSE IF Poison \in {a, b} THEN Poison ELSE <<Reduced(a[1] * b[1])>>

RECURSIVE GridValue(_, _, _)
GridValue(e, row, grid) ==
  CASE e[1] = "sum"       -> ReadSum(GridValue(e[2], row, grid), GridValue(e[3], row, grid))
    [] e[1] = "product"   -> ReadProduct(GridValue(e[2], row, grid), GridValue(e[3], row, grid))
    [] e[1] = "negated"   -> ReadNegated(GridValue(e[2], row, grid))
    [] e[1] = "scaled"    -> ReadProduct(GridValue(e[2], row, grid), <<e[3]>>)
    [] e[1] = "constant"  -> <<Reduced(e[2])>>
    [] e[1] = "challenge" -> <<ChallengeOf(e[2])>>
    [] e[1] = "selector"  -> <<IF row \in grid.selectors[e[2]] THEN 1 ELSE 0>>
    [] OTHER              -> grid[e[1]][e[2]][(row + e[3] + script.n) % script.n]
GridRow(exprs, row, grid) == [i \in DOMAIN exprs |-> GridValue(exprs[i], row, grid)]

(* What is not assigned is zero, the columns of selectors are all assigned. *)
Read(cell) == CASE cell[1] = "unassigned" -> <<0>>
                [] cell[1] = "assigned"   -> <<cell[2]>>
                [] OTHER                  -> Poison
ReadAll(columns)  == [i \in DOMAIN columns |-> [row \in DOMAIN columns[i] |-> Read(columns[i][row])]]
Packs(polys)      == [i \in DOMAIN polys |-> [row \in DOMAIN polys[i] |-> <<polys[i][row]>>]]
InstanceGrid      == [i \in DOMAIN script.instance |-> [row \in 0 .. script.n - 1 |-> <<PublicValue(i, row)>>]]
MockGrid == [advice |-> ReadAll(mock.advice), fixed |-> ReadAll(mock.fixed) \o Packs(compiled.polys),
             instance |-> InstanceGrid, selectors |-> << >>]

(* A gate that has a selector wants, where it is enabled in a region, all the
   cells that were asked for assigned in that region. *)
GateCalls        == SelectSeq(script.calls, LAMBDA c : c.op = "gate")
QueriedCells(g)  == ToSet(GateCalls[g].asked \o FlattenSeq([i \in DOMAIN cs.gates[g] |-> CellsOf(cs.gates[g][i])]))
QueriedSelectors(g) == UNION {SelectorsOf(e) : e \in ToSet(cs.gates[g])}
CellRow(cell, row) == (row + cell[3] + script.n) % script.n
Missing(region, cell, row) ==
  IF cell[1] = "instance" THEN CellRow(cell, row) >= Len(script.instance[cell[2]])
  ELSE <<cell[1], cell[2], CellRow(cell, row)>> \notin region.cells
RegionErrors(r) ==
  UNION {{<<"cell", r, g, cell, at[2]>> : cell \in {c \in QueriedCells(g) : Missing(mock.regions[r], c, at[2])}} :
           <<at, g>> \in {e \in mock.regions[r].enabled \X (DOMAIN cs.gates) : e[1][1] \in QueriedSelectors(e[2])}}
SelectorErrors == UNION {RegionErrors(r) : r \in DOMAIN mock.regions}

(* Gates are looked at on every row, those that are not usable included. *)
Polys == UNION {{g} \X (DOMAIN cs.gates[g]) : g \in DOMAIN cs.gates}
Poly(p) == compiled.cs.gates[p[1]][p[2]]
GateErrors ==
  {<<IF GridValue(Poly(p), row, MockGrid) = Poison THEN "poisoned" ELSE "constraint", p, row>> :
     <<p, row>> \in {<<p, row>> \in Polys \X AllRows : GridValue(Poly(p), row, MockGrid) # <<0>>}}

(* The table is kept for the next lookup when that has the same one.  What
   the last usable row has is neither kept nor looked for. *)
LookupErrors ==
  {<<"lookup", l, row>> : <<l, row>> \in
     {<<l, row>> \in (DOMAIN cs.lookups) \X UsableOnly :
        LET lookup == compiled.cs.lookups[l]
            input  == GridRow(lookup.inputs, row, MockGrid)
            fill   == GridRow(lookup.tables, RowsEnd - 1, MockGrid)
        IN  input # fill /\ \A t \in UsableOnly : input # GridRow(lookup.tables, t, MockGrid)}}

(* Both sides are sorted to be compared. *)
Counted(exprs, grid) ==
  LET rows == [row \in UsableOnly |-> GridRow(exprs, row, grid)]
  IN  [r \in {rows[row] : row \in UsableOnly} |-> Cardinality({row \in UsableOnly : rows[row] = r})]
ShuffleErrors ==
  {<<"shuffle", s>> : s \in {s \in DOMAIN cs.shuffles :
     Counted(compiled.cs.shuffles[s].inputs, MockGrid) # Counted(compiled.cs.shuffles[s].tables, MockGrid)}}

(* A cell that is not assigned is no copy of one that is. *)
Original(cell) ==
  IF cell[1] = "instance" THEN <<"assigned", PublicValue(cell[2], cell[3])>> ELSE mock[cell[1]][cell[2]][cell[3]]
CopyErrors ==
  {<<"copy", j>> : j \in {j \in DOMAIN mock.copies : Original(mock.copies[j][1]) # Original(mock.copies[j][2])}}

(* Where a cell is missing the report counts from the first row of the region,
   and it shows the value of every cell of a constraint that is not met. *)
CannotReport(errors) ==
  \E f \in errors :
    \/ f[1] = "cell" /\ f[4][1] # "instance" /\ mock.regions[f[2]].cells = {}
    \/ f[1] = "constraint" /\ \E cell \in ToSet(CellsOf(Poly(f[2]))) : GridValue(cell, f[3], MockGrid) = Poison

Verify ==
  /\ pass # << >> /\ By("verify")
  /\ failures' = SelectorErrors \cup GateErrors \cup LookupErrors \cup CopyErrors \cup ShuffleErrors
  /\ verdict' = IF CannotReport(failures') THEN "panic" ELSE IF failures' = {} THEN "ok" ELSE "failures"
  /\ pass' = <<"verified", 0>> /\ UNCHANGED <<callAt, real, mock, configVars>>

Unmocked == pass = << >> /\ callAt = 1 /\ real = << >> /\ mock = << >> /\ verdict = "none" /\ failures = {}
MockInit == script \in MockScripts /\ Unconfigured /\ Unmocked

MockNext ==
  \/ ConfigureCall /\ UNCHANGED mockVars
  \/ Run \/ MockEnterRegion \/ MockExitRegion \/ MockEnableSelector \/ MockQueryInstance
  \/ WitnessAssignAdvice \/ MockAssignAdvice \/ MockAssignFixed \/ MockCopy \/ MockFillFromRow
  \/ EndPass \/ MockCompress \/ Verify

-----------------------------------------------------------------------------
(* The constraints of a proof: those configure wrote down, on the cells that
   keygen and the witness have, the rows that are not usable being random. *)
RealGrid(b) ==
  [advice |-> [col \in DOMAIN real.advice |-> [row \in AllRows |->
                 IF InUse(row) THEN <<real.advice[col][row]>>
                 ELSE <<IF Contains(cs.unblinded, col) THEN 0 ELSE BlindValue(b, col, row)>>]],
   fixed |-> [col \in DOMAIN real.fixed |-> [row \in AllRows |-> <<real.fixed[col][row]>>]],
   instance |-> InstanceGrid, selectors |-> real.selectors]

GateFails(p, row, grid) == GridValue(cs.gates[p[1]][p[2]], row, grid) # <<0>>
LookupFails(l, row, grid) ==
  \A t \in UsableOnly : GridRow(cs.lookups[l].inputs, row, grid) # GridRow(cs.lookups[l].tables, t, grid)
ShuffleFails(s, grid) == Counted(cs.shuffles[s].inputs, grid) # Counted(cs.shuffles[s].tables, grid)
CopyFails(j, grid) ==
  LET at(cell) == grid[cell[1]][cell[2]][cell[3]]
  IN  at(real.copies[j][1]) # at(real.copies[j][2])

Satisfied(grid) ==
  /\ \A p \in Polys : \A row \in AllRows : ~GateFails(p, row, grid)
  /\ \A l \in DOMAIN cs.lookups : \A row \in UsableOnly : ~LookupFails(l, row, grid)
  /\ \A s \in DOMAIN cs.shuffles : ~ShuffleFails(s, grid)
  /\ \A j \in DOMAIN real.copies : ~CopyFails(j, grid)

(* The lookups and shuffles that read poison where a circuit may assign. *)
ArgumentsPoisoned ==
  \E argument \in ToSet(compiled.cs.lookups \o compiled.cs.shuffles) :
    \E e \in ToSet(argument.inputs \o argument.tables) : \E row \in UsableOnly : GridValue(e, row, MockGrid) = Poison

RealFailure(f, grid) ==
  CASE f[1] = "constraint" -> GateFails(f[2], f[3], grid)
    [] f[1] = "poisoned"   -> GateFails(f[2], f[3], grid) \/ \E cell \in ToSet(CellsOf(Poly(f[2]))) :
                                                       cell[1] = "advice" /\ Contains(cs.unblinded, cell[2])
    [] f[1] = "lookup"     -> LookupFails(f[2], f[3], grid)
    [] f[1] = "shuffle"    -> ShuffleFails(f[2], grid)
    [] f[1] = "copy"       -> CopyFails(f[2], grid) \/ \E i \in {1, 2} : Original(mock.copies[f[2]][i])[1] = "unassigned"
    [] OTHER               -> TRUE

MockEnded == pass # << >> /\ pass[1] \in {"stopped", "compress", "verify", "verified"}

(* The mock takes what keygen and the prover take, but for instances that are
   read past their end, and has the cells, selectors and copies that they
   have. *)
PassesAgree ==
  MockEnded =>
    /\ mock.ok => real.ok \/ \E i \in DOMAIN script.program :
                               /\ script.program[i].op = "query"
                               /\ script.program[i].row >= Len(script.instance[script.program[i].col])
    /\ real.ok => mock.ok
    /\ real.ok =>
         /\ mock.selectors = real.selectors /\ mock.copies = real.copies
         /\ \A col \in DOMAIN mock.advice : \A row \in UsableOnly : Read(mock.advice[col][row]) = <<real.advice[col][row]>>
         /\ \A col \in DOMAIN mock.fixed : \A row \in AllRows : Read(mock.fixed[col][row]) = <<real.fixed[col][row]>>

(* A circuit that MockProver finds right is satisfied whatever the blinding
   is, unless an argument reads rows of blinding; of what it finds wrong there
   is a blinding that shows it, unless it is about a cell left unassigned. *)
VerdictRight ==
  pass # << >> /\ By("verified") /\ real.ok =>
    /\ verdict = "ok" /\ ~ArgumentsPoisoned => \A b \in Blindings : Satisfied(RealGrid(b))
    /\ \A f \in failures : \E b \in Blindings : RealFailure(f, RealGrid(b))

MockFaithful == PassesAgree /\ VerdictRight
=============================================================================
