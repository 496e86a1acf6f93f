------------------------- MODULE MCPublicationNotice -------------------------
EXTENDS PublicationNoticeProps, TLC

CallerSymmetry == Permutations(Crons) \cup Permutations(Editors)
=============================================================================
