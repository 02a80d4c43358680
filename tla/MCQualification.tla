--------------------------- MODULE MCQualification ----------------------------
EXTENDS Qualification, TLC

\* Recorders, and commands, differ in nothing but their name.
Symmetry == Permutations(Recorders) \union Permutations(Orders)
=============================================================================
