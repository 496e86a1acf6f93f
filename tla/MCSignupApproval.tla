--------------------------- MODULE MCSignupApproval ---------------------------
(* The module TLC runs; the .cfg files give the constants their values.    *)
EXTENDS SignupApprovalProps, TLC

(* The submissions of one kind are interchangeable.                        *)
SignupSymmetry == Permutations(Applies) \cup Permutations(Directs)
=============================================================================
