---------------------------- MODULE MCPushCampaign ----------------------------
EXTENDS PushCampaignProps, TLC

(* The checked instances give every subscription to one member.            *)
OneOwner == [s \in Subscriptions |-> CHOOSE m \in Members : TRUE]

(* Owner gives all subscriptions to one member, so they may be exchanged.  *)
PushSymmetry == Permutations(Runs) \cup Permutations(Subscriptions)
=============================================================================
