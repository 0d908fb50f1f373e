--------------------------- MODULE MCDataProvider ---------------------------
(* Seven devices in a data-parallel group and one rank of another         *)
(* pipeline stage.  The batch is split seven ways on dimension 0, or      *)
(* duplicated, and has between 1 and 64 rows.                              *)
EXTENDS DataProvider

CONSTANTS p0, p1, p2, p3, p4, p5, p6, q0

MCRanks == {p0, p1, p2, p3, p4, p5, p6, q0}
MCGroup == <<p0, p1, p2, p3, p4, p5, p6>>

Ph(split, dup) == [type |-> "placeholder", split |-> split, dup |-> dup,
                   ndev |-> 7, zero |-> Absent]

MCInputCfgs == {Ph(0 :> 7, 1), Ph(<<>>, 7)}

MCShapes == {0 :> n : n \in 1..64}
=============================================================================
