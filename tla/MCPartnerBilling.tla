--------------------------- MODULE MCPartnerBilling ---------------------------
EXTENDS PartnerBillingProps, TLC
(* Nothing tells connections, requests, partners, companies or the plans   *)
(* that are paid for apart.                                                *)
Symmetry == Permutations(Backends) \cup Permutations(Requests)
              \cup Permutations(Partners) \cup Permutations(Companies)
              \cup Permutations(Tiers \ {Basic})
===============================================================================
