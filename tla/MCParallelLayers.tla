-------------------------- MODULE MCParallelLayers --------------------------
(* Four devices.  A Megatron block at dp = 2, tp = 2 (column without       *)
(* gather, row), a pure data-parallel column (tp = 1), a row and a vocab   *)
(* embedding at tp = 4, a pure data-parallel vocab embedding and a layer   *)
(* norm; placeholders split on the batch, on both dimensions, or           *)
(* duplicated.  MCLayerCfg6 and MCInputCfgs6 place the same layers on six  *)
(* devices.                                                                *)
EXTENDS ParallelLayers

CONSTANTS c1, r1, c2, r2, v1, v2, ln

Var(split, dup) == [type |-> "variable", split |-> split, dup |-> dup,
                    ndev |-> 4, zero |-> FALSE]
Ph(split, dup) == [type |-> "placeholder", split |-> split, dup |-> dup,
                   ndev |-> 4, zero |-> Absent]

MCLayers == {c1, r1, c2, r2, v1, v2, ln}

MCLayerKind == (c1 :> "column" @@ c2 :> "column" @@ r1 :> "row" @@ r2 :> "row"
                @@ v1 :> "vocab" @@ v2 :> "vocab" @@ ln :> "layernorm")

MCLayerCfg == (c1 :> Var(1 :> 2, 2) @@ r1 :> Var(0 :> 2, 2)
               @@ c2 :> Var(1 :> 1, 4) @@ r2 :> Var(0 :> 4, 1)
               @@ v1 :> Var(0 :> 4, 1) @@ v2 :> Var(0 :> 1, 4)
               @@ ln :> Var(<<>>, 4))

MCGatherOutput == [l \in MCLayers |-> l = c2]
MCHasBias == [l \in MCLayers |-> l \in {c1, r1, c2, r2}]

MCInputCfgs == {Ph(0 :> 4, 1), Ph(0 :> 2, 2), Ph(<<>>, 4),
                Ph((0 :> 2) @@ (1 :> 2), 1), Ph(1 :> 4, 1)}

\* Six devices: the same layers at dp = 2, tp = 3 and dp = 3, tp = 2, so
\* split factors 3 and 6 meet the 6 x 4 batch and the float shard bounds.
Var6(split, dup) == [Var(split, dup) EXCEPT !.ndev = 6]
Ph6(split, dup) == [Ph(split, dup) EXCEPT !.ndev = 6]

MCLayerCfg6 == (c1 :> Var6(1 :> 3, 2) @@ r1 :> Var6(0 :> 2, 3)
                @@ c2 :> Var6(1 :> 1, 6) @@ r2 :> Var6(0 :> 6, 1)
                @@ v1 :> Var6(0 :> 3, 2) @@ v2 :> Var6(0 :> 1, 6)
                @@ ln :> Var6(<<>>, 6))

MCInputCfgs6 == {Ph6(0 :> 6, 1), Ph6(0 :> 3, 2), Ph6(<<>>, 6),
                 Ph6((0 :> 2) @@ (1 :> 3), 1), Ph6(1 :> 3, 2)}

\* A global batch of 6 rows and 4 columns: 6 is not divisible by 4.
MCDataShape == (0 :> 6) @@ (1 :> 4)
=============================================================================
