-------------------------- MODULE PushCampaignProps --------------------------
(* What the campaign delivery must guarantee, and what it implements.      *)
EXTENDS PushCampaign

(* The provider takes a push for a subscription once; every further push is *)
(* paid for by an error that hid an acceptance.  Crashes, overlapping runs, *)
(* lost answers and late requests never cause one (claim_notification_delivery *)
(* isolates an unresolved "sending" row instead of handing it out again).  *)
AcceptedOnce == \A s \in Subscriptions : accepted[s] <= 1 + misreported[s]

(* Whoever is told "sent" - the ledger, and a run's own count - is told the *)
(* truth: the provider confirmed that push.                                *)
SentIsTrue ==
  \A s \in Subscriptions :
    ledger[s].status = "sent" \/ (\E r \in Runs : task[r][s] = "sent")
      => ledger[s].status = "sent" /\ accepted[s] > misreported[s]

(* A row that the next run may hand out again hides no confirmed push.     *)
ResendIsSafe ==
  \A s \in Subscriptions :
    Claimable(ledger[s]) => accepted[s] = misreported[s]

(* A campaign closed as "sent" covers the whole audience of the run that   *)
(* closed it, whatever other runs were doing meanwhile.                    *)
ClosedMeansDelivered ==
  campaign.status = "sent" =>
    /\ \A s \in audience[campaign.token] : ledger[s].status = "sent"
    /\ \A m \in recipients[campaign.token] : inApp[m] = 1

(* While a lease runs, the campaign belongs to the run that took it: a stale *)
(* run, or its late request, neither takes it over nor closes it.          *)
LeaseIsExclusive ==
  [][campaign.status = "pending" /\ campaign.lease > now
       => campaign'.token = campaign.token]_vars

(* A run that got past reading its audience returns or dies: no lane waits *)
(* on another, and no lost answer leaves a subscription in hand.           *)
RunsEnd == \A r \in Runs : phase[r] = "claim" ~> phase[r] = "ended"

------------------------------------------------------------------------------
StateOf(row) ==
  CASE row.status = "sent" -> "delivered"
    [] row.provider = "needs_reconciliation" -> "unknown"
    [] row.provider = "sending" -> "trying"
    [] OTHER -> "owed"

Promise == INSTANCE PushPromise WITH
  state <- [s \in Subscriptions |-> StateOf(ledger[s])],
  covered <- IF campaign.status = "sent" THEN audience[campaign.token] ELSE {}

(* The ledger and the campaign row keep the promise of PushPromise.        *)
KeepsPromise == Promise!Spec
=============================================================================
