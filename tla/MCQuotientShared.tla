--------------------------- MODULE MCQuotientShared --------------------------
(***************************************************************************)
(* QuotientDisk for TLC, twice: the provers of MCQuotientDisk, or two of a *)
(* circuit with one advice column, two rows and tiles of one row, that are *)
(* started once and share a directory.  `which` is chosen at the start and *)
(* says which of them run.                                                 *)
(***************************************************************************)
EXTENDS MCQuotientDisk

VARIABLES which,
  twoDir, twoCoset, twoRows, twoRun, twoOutcome, twoPc, twoTodo, twoHandle, twoInst,
  twoS, twoGroup, twoWindow, twoTv, twoValues, twoSweep

TwoProvers == {p1, p2}
OneDir     == [p \in TwoProvers |-> d1]

Shared == INSTANCE QuotientDisk WITH
  Provers <- TwoProvers, Dirs <- {d1}, DirOf <- OneDir, MaxRuns <- 1, Leftovers <- {},
  Instances <- 1, NAdv <- 1, NIns <- 0, NShp <- 0, NLk <- 0, NPpc <- 0, Size <- 2, Tile <- 1,
  dir <- twoDir, coset <- twoCoset, rows <- twoRows, run <- twoRun, outcome <- twoOutcome,
  pc <- twoPc, todo <- twoTodo, handle <- twoHandle, inst <- twoInst, s <- twoS,
  group <- twoGroup, window <- twoWindow, tv <- twoTv, values <- twoValues, sweep <- twoSweep

twoVars == <<twoDir, twoCoset, twoRows, twoRun, twoOutcome, twoPc, twoTodo, twoHandle, twoInst,
             twoS, twoGroup, twoWindow, twoTv, twoValues, twoSweep>>
both == <<vars, twoVars, which>>

BothInit == Init /\ Shared!Init /\ which \in {"own", "shared"}

Own      == which = "own" /\ Next /\ UNCHANGED <<twoVars, which>>
Together == which = "shared" /\ Shared!Next /\ UNCHANGED <<vars, which>>

OwnWork(p) == which = "own" /\ Work(p) /\ UNCHANGED <<twoVars, which>>
TwoWork(p) == which = "shared" /\ Shared!Work(p) /\ UNCHANGED <<vars, which>>

BothSpec == /\ BothInit /\ [][Own \/ Together]_both
            /\ \A p \in Provers : WF_both(OwnWork(p))
            /\ \A p \in TwoProvers : WF_both(TwoWork(p))

(* However two provers truncate, read and remove each other's files, each of
   them comes to rest: a window of a file that was cut is an error, not a
   loop. *)
SharedSettles == which = "shared" => Shared!Settles
=============================================================================
