----------------------------- MODULE MCSkipList -----------------------------
(***************************************************************************)
(* Small instances of SkipList for TLC.                                    *)
(***************************************************************************)
EXTENDS SkipList, TLC

TowerSymmetry == Permutations(Towers)

Range1 == -1..1

(* The smallest and the largest bound a ZCOUNT or ZRANGE may name.         *)
Ends == {-1, 1}

(* After a tie the levels may disagree on the order, and spans drift       *)
(* without end: they are followed a little way.                            *)
SmallSpans == \A i \in Levels, x \in Nodes : span[i][x] \in -1..(Cardinality(Towers) + 1)
=============================================================================
