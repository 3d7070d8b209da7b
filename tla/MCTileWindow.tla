----------------------------- MODULE MCTileWindow ----------------------------
(***************************************************************************)
(* TileWindow, Arguments and Opening for TLC, checked in one run: `which`  *)
(* is chosen at the start and says which of them runs; the others stay     *)
(* where they begin.                                                       *)
(***************************************************************************)
EXTENDS TileWindow, Arguments, Opening

VARIABLE which

-----------------------------------------------------------------------------
(* TileWindow: a domain of 16 rows, two rows per rotation, tiles of 5 (the
   last has one row), and circuits whose halo is 0, 2, 4 and 8: windows of 5
   to 21 rows, that wrap at either end, at both, and more than once. *)
MCCircuit(g, l, sh, b, p, hl, hs) ==
  [gates |-> g, lookups |-> l, shuffles |-> sh, blinding |-> b,
   hasPerm |-> p, hasLookup |-> hl, hasShuffle |-> hs]

MCCircuits ==
  { MCCircuit({}, {}, {}, 3, FALSE, FALSE, FALSE),
    MCCircuit({0, -1}, {2}, {}, 3, FALSE, FALSE, FALSE),
    MCCircuit({0, 2}, {}, {}, 0, TRUE, FALSE, FALSE),
    MCCircuit({1}, {0}, {}, 0, FALSE, TRUE, FALSE),
    MCCircuit({0}, {-2}, {1}, 1, TRUE, TRUE, TRUE),
    MCCircuit({0}, {}, {-2, 1}, 0, FALSE, FALSE, TRUE),
    MCCircuit({0, 1}, {1}, {}, 3, TRUE, TRUE, FALSE) }

-----------------------------------------------------------------------------
(* Arguments: columns of 16 rows over the integers modulo 193, of which 10
   are usable, and a coset of 32 or 64. *)
Vec(given) == [r \in 0 .. 15 |-> IF r < Len(given) THEN given[r + 1] ELSE 0]
Q(t, c, r) == <<t, c, r>>
Mapping(cols, cycle) ==
  [cell \in (1 .. cols) \X (0 .. 15) |-> IF cell \in DOMAIN cycle THEN cycle[cell] ELSE cell]

(* f1 (a b - a_next) = 0, f2 (b - p_next) = 0; copies a2 = b4, p0 = a3 = f5. *)
Mul == [adv |-> <<0, 0>>, ins |-> 1, unblinded |-> {},
        fixed |-> <<Vec(<<1, 1>>), Vec(<<0, 1>>)>>,
        gates |-> << <<<<1, <<Q("fixed", 1, 0), Q("advice", 1, 0), Q("advice", 2, 0)>>>>,
                       <<192, <<Q("fixed", 1, 0), Q("advice", 1, 1)>>>>>>,
                     <<<<1, <<Q("fixed", 2, 0), Q("advice", 2, 0)>>>>,
                       <<192, <<Q("fixed", 2, 0), Q("instance", 1, 1)>>>>>> >>,
        lookups |-> << >>, shuffles |-> << >>,
        perm |-> <<<<"advice", 1>>, <<"advice", 2>>, <<"instance", 1>>>>,
        mapping |-> Mapping(3, <<1, 2>> :> <<2, 4>> @@ <<2, 4>> :> <<1, 2>>
                               @@ <<3, 0>> :> <<1, 3>> @@ <<1, 3>> :> <<2, 9>> @@ <<2, 9>> :> <<3, 0>>)]
MulWith(a2, b4, a3) ==
  [circuit |-> Mul,
   instances |-> << [instance |-> << <<8, 2, 4>> >>,
                     advice |-> << Vec(<<3, 15, a2, a3>>), Vec(<<5, 4, 0, 0, b4, 0, 0, 0, 0, 8>>) >>] >>]

Table == [adv |-> <<0, 0, 0>>, ins |-> 0, unblinded |-> {3},
          fixed |-> <<Vec(<<0, 1, 2, 3, 0, 0, 0, 0, 0, 7>>), Vec(<<0, 1, 4, 9, 0, 0, 0, 0, 0, 49>>)>>,
          gates |-> << >>,
          lookups |-> << [inputs |-> << <<<<1, <<Q("advice", 1, 0)>>>>>>, <<<<1, <<Q("advice", 2, 0)>>>>>> >>,
                          tables |-> << <<<<1, <<Q("fixed", 1, 0)>>>>>>, <<<<1, <<Q("fixed", 2, 0)>>>>>> >>] >>,
          shuffles |-> << [inputs |-> << <<<<1, <<Q("advice", 1, 0)>>>>>> >>,
                           tables |-> << <<<<1, <<Q("advice", 3, -1)>>>>>> >>] >>,
          perm |-> <<<<"advice", 2>>, <<"fixed", 2>>, <<"advice", 3>>>>,
          mapping |-> Mapping(3, <<1, 2>> :> <<2, 3>> @@ <<2, 3>> :> <<3, 9>> @@ <<3, 9>> :> <<1, 2>>)]
TableWith(b3, d8, d9) ==
  [circuit |-> Table,
   instances |-> << [instance |-> << >>,
                     advice |-> << Vec(<<2, 1, 3, 3, 0, 0, 2, 7, 1, 0>>),
                                   Vec(<<4, 1, 9, b3, 0, 0, 4, 49, 1, 0>>),
                                   Vec(<<1, 2, 3, 0, 3, 0, 7, 2, d8, d9>>) >>] >>]
(* Two instances, a rotated instance column, no copies. *)
Shift == [adv |-> <<0>>, ins |-> 1, unblinded |-> {1},
          fixed |-> <<Vec(<<0, 1, 1, 1>>)>>,
          gates |-> << <<<<1, <<Q("fixed", 1, 0), Q("advice", 1, 0)>>>>,
                         <<190, <<Q("fixed", 1, 0), Q("instance", 1, 1), Q("instance", 1, -1)>>>>>> >>,
          lookups |-> << >>, shuffles |-> << >>, perm |-> << >>, mapping |-> << >>]
ShiftWith(p) ==
  [circuit |-> Shift,
   instances |-> << [instance |-> << <<2, 5, 3>> >>, advice |-> << Vec(<<0, 18>>) >>],
                    [instance |-> << <<4, 0, 6, 8, p>> >>, advice |-> << Vec(<<0, 72, 0, 90>>) >>] >>]
(* What satisfies its circuit, a gate that fails, copies that do not agree, an
   input that is not in the table, a shuffle with other values. *)
MCStatements ==
  {MulWith(60, 60, 8), MulWith(61, 61, 8), MulWith(60, 59, 8), MulWith(60, 60, 9),
   TableWith(9, 1, 9), TableWith(4, 1, 9), TableWith(9, 2, 9), TableWith(9, 1, 8),
   ShiftWith(5), ShiftWith(6)}

MCChallenges == {[theta |-> 7, beta |-> 19, gamma |-> 31, y |-> 11]}
MCRandoms == {[r \in 0 .. 15 |-> (k * r * r + 50 + 31 * r) % 193] : k \in {7, 12}}

-----------------------------------------------------------------------------
(* Opening: cubic and shorter polynomials, one of them a combination of two
   others, which the verifier knows as a combination of their commitments. *)
Poly(a, b, c) == [coeffs |-> [r \in 0 .. 15 |-> (a * r * r * r + b * r + c) % 193],
                  blind  |-> (a + 3 * b + 5 * c) % 193]
MCPolys == [a |-> Poly(1, 5, 10), b |-> Poly(3, 1, 100), c |-> Poly(2, 7, 101), d |-> Poly(6, 1, 1),
            ab |-> Poly(1 + 5 * 3, 5 + 5 * 1, 10 + 5 * 100)]

Opened(poly, x) == [poly |-> poly, point |-> x]
Claim(poly, x, off) ==
  [poly |-> poly, point |-> x, eval |-> (Eval(MCPolys[poly].coeffs, N, x) + off) % 193,
   terms |-> IF poly = "ab" THEN <<<<1, "a">>, <<5, "b">>>> ELSE <<<<1, poly>>>>]
(* Queries <<poly, point>>, and claims that are off by so much, the last ones by 0. *)
MCItem(seed, pairs, more, off) ==
  [seed |-> seed, queries |-> [q \in DOMAIN pairs |-> Opened(pairs[q][1], pairs[q][2])],
   claims |-> [q \in DOMAIN (pairs \o more) |->
                 Claim((pairs \o more)[q][1], (pairs \o more)[q][2], IF q = 1 THEN off ELSE 0)]]
MCJob(scheme, strategy, items) ==
  [scheme |-> scheme, strategy |-> strategy, polys |-> MCPolys, items |-> items]

(* Points that come in another order than ascending, polynomials at one, two
   and three points, two of them at the same; a commitment to something else. *)
Many == << <<"a", 50>>, <<"b", 50>>, <<"a", 7>>, <<"ab", 33>>, <<"c", 7>>, <<"d", 33>>, <<"c", 50>>,
           <<"b", 7>>, <<"b", 33>> >>
Few  == << <<"c", 90>>, <<"d", 20>> >>
Other == LET item == MCItem(5, Many, << >>, 0)
         IN  [item EXCEPT !.claims[4].terms = <<<<1, "a">>, <<4, "b">>>>]
Same(off) == MCItem(5, Many, << >>, off)

MCJobs ==
  {MCJob(scheme, "single", <<item>>) : scheme \in {"gwc", "shplonk", "ipa"},
     item \in {MCItem(5, Many, << >>, 0), MCItem(5, Many, << >>, 3), Other,
               MCItem(5, Many, << <<"a", 7>> >>, 0), MCItem(5, Few \o Few, << >>, 0)}}
  \cup {MCJob("ipa", "g", <<MCItem(5, Many, << >>, off), MCItem(6, Few, << >>, 0)>>) : off \in {0, 3}}
  (* Errors that cancel, and one that ends the batch. *)
  \cup {MCJob(scheme, "accumulate", items) : scheme \in {"gwc", "shplonk"},
          items \in {<<Same(0), MCItem(6, Few, << >>, 0)>>, <<Same(3), Same(190)>>,
                     <<MCItem(6, Few, << >>, 0), MCItem(5, Few, << <<"a", 7>> >>, 0)>>,
                     <<Same(0), MCItem(5, Few, Few, 0), Same(0)>>}}
  \cup {MCJob("ipa", "batch", items) :
          items \in {<<Same(0), MCItem(6, Few, << >>, 0), MCItem(9, Few, << >>, 0)>>,
                     <<Same(3), Same(190), Same(0)>>, <<Same(0), MCItem(5, Few, Few, 0)>>}}
MCDraws == {[hash |-> <<7, 11, 13, 17>>, scale |-> <<29, 101, 54>>, noise |-> [i \in 0 .. 40 |-> (i * i * 5 + 31 * i + 77) % 193]]}

-----------------------------------------------------------------------------
MCInit ==
  /\ which \in {"window", "arguments", "openings"} /\ Init /\ ArgInit /\ OpenInit
  /\ which = "window"    \/ (circuit = (CHOOSE c \in Circuits : TRUE) /\ fileLen = Size)
  /\ which = "arguments" \/ stm = MulWith(60, 60, 8)
  /\ which = "openings"  \/ job = MCJob("gwc", "single", <<Same(0)>>)

WindowWork    == which = "window" /\ Work /\ UNCHANGED <<argVars, openVars, which>>
WindowStopped == which = "window" /\ Stopped /\ UNCHANGED <<argVars, openVars, which>>
ArgStep       == which = "arguments" /\ ArgNext /\ UNCHANGED <<vars, openVars, which>>
ArgStopped    == which = "arguments" /\ ArgReturned /\ UNCHANGED <<vars, argVars, openVars, which>>
OpenStep      == which = "openings" /\ OpenNext /\ UNCHANGED <<vars, argVars, which>>
OpenStopped   == which = "openings" /\ OpenReturned /\ UNCHANGED <<vars, argVars, openVars, which>>

MCNext == WindowWork \/ WindowStopped \/ ArgStep \/ ArgStopped \/ OpenStep \/ OpenStopped

(* The fairness of TileWindow. *)
MCSpec == MCInit /\ [][MCNext]_<<vars, argVars, openVars, which>>
          /\ WF_<<vars, argVars, openVars, which>>(WindowWork)

(* evaluation.rs: the loop over tiles, and in it the reader's loop over the
   runs of a window, come to an end, or a short file ends them. *)
TilesTerminate == which = "window" => Terminates
=============================================================================
