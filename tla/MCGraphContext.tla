--------------------------- MODULE MCGraphContext ---------------------------
(* Instance for TLC: two contexts on the default graph (g1, g2), one        *)
(* temporary new graph (t1) and two merge-strategy contexts (m1, m2).       *)
EXTENDS GraphContext, TLC

CONSTANTS g1, g2, t1, m1, m2

MCCtx == {g1, g2, t1, m1, m2}
MCKind == [c \in MCCtx |-> IF c \in {m1, m2} THEN "merge" ELSE "graph"]
MCCreateNew == [c \in MCCtx |-> c = t1]
MCTmp == [c \in MCCtx |-> c = t1]

\* g1 and g2, and m1 and m2, are constructed with identical arguments.
MCSymmetry == Permutations({g1, g2}) \cup Permutations({m1, m2})
=============================================================================
