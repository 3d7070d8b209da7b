------------------------------- MODULE Quotient ------------------------------
(***************************************************************************)
(* What computing the quotient promises a prover: one answer, equal to     *)
(* that of the in-core evaluate_h of halo2_backend/src/plonk/evaluation.rs, *)
(* or an error; a prover that failed may be run again.                     *)
(*                                                                         *)
(* Every row of evaluate_h's values is a Horner sum in y: a term is        *)
(* appended to the terms before it (value * y + term), instance after      *)
(* instance, and inside an instance in the order of Groups.  A row is      *)
(* therefore the sequence of its terms, and a term is the instance and the *)
(* group it belongs to with the cosets it was computed from; of a coset    *)
(* only the file it would be spilled to and the run it is of matter.       *)
(***************************************************************************)
EXTENDS Integers, Sequences

CONSTANTS
  Instances,              \* circuits proved together
  NAdv, NIns,             \* advice and instance columns of each
  NShp, NLk, NPpc,        \* shuffles, lookups, permutation sets of each
  Size,                   \* rows of the extended domain
  Provers

VARIABLES
  run,     \* how often each prover was started
  outcome  \* what the current run of each prover returned

(* The term groups of an instance: gates, permutation if it has any set,
   lookups, shuffles. *)
Groups == << <<"gates", 0>> >>
          \o (IF NPpc > 0 THEN << <<"perm", 0>> >> ELSE << >>)
          \o [n \in 1 .. NLk  |-> <<"lookup", n - 1>>]
          \o [n \in 1 .. NShp |-> <<"shuffle", n - 1>>]

(* The cosets of instance i every group may read, and those of one group. *)
AdviceOf(i)  == {<<"adv", i, j>> : j \in 0 .. NAdv - 1}
                  \cup {<<"ins", i, j>> : j \in 0 .. NIns - 1}
OwnFiles(i, g) ==
  CASE g[1] = "gates"   -> {}
    [] g[1] = "perm"    -> {<<"ppc", i, n>> : n \in 0 .. NPpc - 1}
    [] g[1] = "lookup"  -> {<<k, i, g[2]>> : k \in {"lkp", "lki", "lkt"}}
    [] g[1] = "shuffle" -> {<<"shp", i, g[2]>>}

Term(i, g, cosets) == [inst |-> i, group |-> g, cosets |-> cosets]

(* The k-th term of a row of the in-core quotient of run r. *)
InCoreTerm(r, k) ==
  LET i == (k - 1) \div Len(Groups)
      g == Groups[((k - 1) % Len(Groups)) + 1]
  IN  Term(i, g, {<<f, r>> : f \in AdviceOf(i) \cup OwnFiles(i, g)})

InCoreRow(r) == [k \in 1 .. Instances * Len(Groups) |-> InCoreTerm(r, k)]
InCore(r)    == [row \in 1 .. Size |-> InCoreRow(r)]

Pending == [status |-> "pending", h |-> << >>]
Error   == [status |-> "error", h |-> << >>]
Ok(h)   == [status |-> "ok", h |-> h]

RunOf(p) == <<p, run[p]>>

Init == /\ run = [p \in Provers |-> 1]
        /\ outcome = [p \in Provers |-> Pending]

Answer(p) ==
  /\ outcome[p] = Pending
  /\ outcome' = [outcome EXCEPT ![p] = Ok(InCore(RunOf(p)))]
  /\ UNCHANGED run

Fail(p) ==
  /\ outcome[p] = Pending
  /\ outcome' = [outcome EXCEPT ![p] = Error]
  /\ UNCHANGED run

Again(p) ==
  /\ outcome[p] = Error
  /\ outcome' = [outcome EXCEPT ![p] = Pending]
  /\ run' = [run EXCEPT ![p] = @ + 1]

Next == \E p \in Provers : Answer(p) \/ Fail(p) \/ Again(p)

vars == <<run, outcome>>

Spec == Init /\ [][Next]_vars
=============================================================================
