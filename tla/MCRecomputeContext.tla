------------------------- MODULE MCRecomputeContext -------------------------
(* Three recompute objects; settings for one or two strategies with one    *)
(* or two pipeline stages, and a three-stage list that conflicts with the  *)
(* two-stage ones.                                                          *)
EXTENDS RecomputeContext, TLC

CONSTANTS r1, r2, r3

MCCtx == {r1, r2, r3}

MCConfigs ==
  { <<<<FALSE>>>>, <<<<TRUE>>>>, <<<<FALSE, TRUE>>>>, <<<<TRUE, FALSE>>>>,
    <<<<FALSE, FALSE, TRUE>>>>, <<<<TRUE>>, <<FALSE, TRUE>>>> }

MCSymmetry == Permutations(MCCtx)
=============================================================================
