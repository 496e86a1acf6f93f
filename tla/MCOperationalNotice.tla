------------------------- MODULE MCOperationalNotice -------------------------
EXTENDS OperationalNotice, TLC

PassSymmetry == Permutations(Passes)
=============================================================================
