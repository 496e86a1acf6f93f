--------------------------- MODULE MCMemberAccess ---------------------------
EXTENDS MemberAccessProps, TLC

(* Members, addresses, purposes and requests are interchangeable.          *)
AccessSymmetry ==
  Permutations(Members) \cup Permutations(Emails) \cup Permutations(Purposes)
    \cup Permutations(Links)
=============================================================================
