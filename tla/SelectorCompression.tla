------------------------- MODULE SelectorCompression -------------------------
(***************************************************************************)
(* compress_selectors::process: selectors that are never enabled on the    *)
(* same row share one fixed column.  A row holds the position of its       *)
(* enabled selector in the combination, or 0, and a selector is replaced   *)
(* by an expression in the column q: q * Prod_{i # root} (i - q).          *)
(* A selector is the record of its number, the rows it is enabled on and   *)
(* the largest degree of a gate it is a simple selector of (0 if none).    *)
(***************************************************************************)
EXTENDS Integers, Sequences, SequencesExt, FiniteSetsExt

(* A selector without a degree has a column to itself, with 1 where it is  *)
(* enabled.                                                                *)
Complex(descs) == SelectSeq(descs, LAMBDA s : s.degree = 0)
Simple(descs)  == SelectSeq(descs, LAMBDA s : s.degree # 0)

Overlap(s, t) == s.rows \cap t.rows # {}

(* fault: the selectors are compared with the first one only *)
MayJoinFirst(s, combination, d, maxDegree) ==
  /\ d + Len(combination) # maxDegree
  /\ ~Overlap(s, combination[1])
  /\ Max({d, s.degree - 1}) + Len(combination) + 1 <= maxDegree

(* The gates of the members without their selectors have degree at most d;  *)
(* the expression of a combination of n selectors has degree n.            *)
MayJoin(s, combination, d, maxDegree) ==
  /\ d + Len(combination) # maxDegree
  /\ \A i \in DOMAIN combination : ~Overlap(s, combination[i])
  /\ Max({d, s.degree - 1}) + Len(combination) + 1 <= maxDegree

(* The combination that selector i starts, of those not added so far.      *)
Combination(simple, i, added, maxDegree) ==
  LET try(acc, j) ==
        IF j <= i \/ j \in acc.added
           \/ ~MayJoin(simple[j], acc.members, acc.d, maxDegree)
          THEN acc
          ELSE [members |-> Append(acc.members, simple[j]),
                d       |-> Max({acc.d, simple[j].degree - 1}),
                added   |-> acc.added \cup {j}]
  IN  FoldLeft(try,
               [members |-> <<simple[i]>>, d |-> simple[i].degree - 1, added |-> added \cup {i}],
               [j \in DOMAIN simple |-> j])

Combinations(descs, maxDegree) ==
  LET simple == Simple(descs)
      take(acc, i) ==
        IF i \in acc.added THEN acc
        ELSE LET c == Combination(simple, i, acc.added, maxDegree)
             IN  [added |-> c.added, out |-> Append(acc.out, c.members)]
  IN  [i \in DOMAIN Complex(descs) |-> <<Complex(descs)[i]>>]
        \o FoldLeft(take, [added |-> {}, out |-> << >>], [i \in DOMAIN simple |-> i]).out

(* The column of a combination.                                            *)
Assignment(combination, row) ==
  Max({0} \cup {root \in DOMAIN combination : row \in combination[root].rows})

(* The expression that replaces a selector, at a value of its column.      *)
Replacement(length, root, q) ==
  LET product[i \in 0 .. length] ==
        IF i = 0 THEN q
        ELSE IF i = root THEN product[i - 1] ELSE product[i - 1] * (i - q)
  IN  product[length]
=============================================================================
