------------------------- MODULE MCExecutionService -------------------------
EXTENDS ExecutionService, TLC

CONSTANTS p1, p2, t1, t2

MCSymmetry == Permutations(Tasks) \union Permutations(Proposals)
=============================================================================
