---------------------------- MODULE MCImageUpload ----------------------------
EXTENDS ImageUploadProps, TLC

CallSymmetry ==
  Permutations(Completes) \cup Permutations(Attaches) \cup Permutations(Assets)
=============================================================================
