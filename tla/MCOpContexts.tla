--------------------------- MODULE MCOpContexts ---------------------------
EXTENDS OpContexts, TLC

CONSTANTS o1, o2, o3

MCCtx == {o1, o2, o3}

MCSymmetry == Permutations(MCCtx)
=============================================================================
