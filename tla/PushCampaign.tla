---------------------------- MODULE PushCampaign ----------------------------
(***************************************************************************)
(* Delivery of one automatic expiring-partner campaign: every run of the   *)
(* cron reads the audience, claims the campaign row, pushes to each        *)
(* subscription through the delivery ledger, and finalises the campaign.   *)
(* Runs overlap, crash and fall behind their leases; a database call may   *)
(* lose its answer and still take effect later; the push service may take  *)
(* a push and fail to say so.                                              *)
(*                                                                         *)
(* Every database function runs under a row lock in one transaction, so a  *)
(* call is one step.  A caller that gets no answer throws: its request     *)
(* stays on the wire, and is served later or never.                        *)
(***************************************************************************)
EXTENDS Naturals, FiniteSets

CONSTANTS Runs,             \* invocations of the campaign, one per cron call
          Members,          \* members of the audience
          Subscriptions,    \* their browser push subscriptions
          Owner,            \* the member each subscription belongs to
          Toggled,          \* subscriptions whose owner turns them on and off
          Lanes,            \* PUSH_SEND_CONCURRENCY
          CampaignLease,    \* NOTIFICATION_CAMPAIGN_LEASE_SECONDS, in ticks
          DeliveryLease,    \* PUSH_DELIVERY_LEASE_SECONDS, in ticks
          MaxTime,          \* bound: ticks of the database clock
          None              \* no run, no subscription

ASSUME OwnerAssumption == Owner \in [Subscriptions -> Members]
ASSUME NoneAssumption == None \notin Runs \cup Subscriptions
ASSUME ToggledAssumption == Toggled \subseteq Subscriptions
ASSUME BoundsAssumption ==
  /\ Lanes \in Nat /\ MaxTime \in Nat
  /\ CampaignLease \in Nat \ {0} /\ DeliveryLease \in Nat \ {0}

VARIABLES now,              \* clock_timestamp() of the database
          campaign,         \* the notifications row and its metadata
          inApp,            \* in_app rows of notification_deliveries per member
          ledger,           \* the web_push row of notification_deliveries
          active,           \* push_subscriptions.is_active
          wire,             \* unanswered requests the database may yet serve
          phase,            \* where each run is in sendAdminNotificationCampaign
          recipients,       \* in-app recipients each run read
          audience,         \* push subscriptions each run read
          task,             \* where each run is with each subscription
          accepted,         \* ghost: pushes the provider took
          misreported       \* ghost: those it took but reported as failed

database == <<campaign, inApp, ledger, wire>>
ghosts == <<accepted, misreported>>
plan == <<recipients, audience>>
vars == <<now, database, active, phase, plan, task, ghosts>>

Final == {"sent", "partial_failed", "failed", "no_target"}
CampaignStatus == {"absent", "pending"} \cup Final
Transition == {"sending", "sent", "failed", "needs_reconciliation"}
Row(status, provider) == [status |-> status, provider |-> provider, at |-> now]
LedgerRow == [status : {"absent", "pending", "sent", "failed"},
              provider : {"none", "claimed"} \cup Transition, at : Nat]
Phase == {"idle", "claim", "prepare", "deliver", "finalize", "ended"}
Working == {"mark_sending", "send", "accepted", "mark_sent", "mark_unknown",
            "mark_failed", "mark_gone", "book_failed", "book_gone"}
Settled == {"sent", "failed"}
Task == {"off", "todo"} \cup Working \cup Settled
Request ==
  [op : {"campaign", "finalize"}, run : Runs, sub : {None}]
    \cup [op : {"delivery"} \cup Transition, run : Runs, sub : Subscriptions]

TypeOK ==
  /\ now \in 0..MaxTime
  /\ campaign \in [status : CampaignStatus, token : Runs \cup {None}, lease : Nat]
  /\ inApp \in [Members -> Nat]
  /\ ledger \in [Subscriptions -> LedgerRow]
  /\ active \in [Subscriptions -> BOOLEAN]
  /\ wire \subseteq Request
  /\ phase \in [Runs -> Phase]
  /\ recipients \in [Runs -> SUBSET Members]
  /\ audience \in [Runs -> SUBSET Subscriptions]
  /\ task \in [Runs -> [Subscriptions -> Task]]
  /\ accepted \in [Subscriptions -> Nat]
  /\ misreported \in [Subscriptions -> Nat]

Init ==
  /\ now = 0
  /\ campaign = [status |-> "absent", token |-> None, lease |-> 0]
  /\ inApp = [m \in Members |-> 0]
  /\ ledger = [s \in Subscriptions |-> Row("absent", "none")]
  /\ active = [s \in Subscriptions |-> TRUE]
  /\ wire = {}
  /\ phase = [r \in Runs |-> "idle"]
  /\ recipients = [r \in Runs |-> {}]
  /\ audience = [r \in Runs |-> {}]
  /\ task = [r \in Runs |-> [s \in Subscriptions |-> "off"]]
  /\ accepted = [s \in Subscriptions |-> 0]
  /\ misreported = [s \in Subscriptions |-> 0]

------------------------------------------------------------------------------
(* claim_notification_campaign and finalize_notification_campaign          *)

CampaignDisposition ==
  CASE campaign.status = "absent" -> "claimed"
    [] campaign.status \in {"sent", "no_target"} -> "completed"
    [] campaign.status = "pending" /\ campaign.lease > now -> "in_progress"
    [] OTHER -> "resumed"

(* Each winning claim carries a fresh token, so the token names its run.   *)
ServeCampaign(r) ==
  IF CampaignDisposition \in {"claimed", "resumed"}
  THEN /\ campaign' = [status |-> "pending", token |-> r,
                       lease |-> now + CampaignLease]
       /\ inApp' = [m \in Members |->
                      IF m \in recipients[r] /\ inApp[m] = 0 THEN 1 ELSE inApp[m]]
       /\ UNCHANGED ledger
  ELSE UNCHANGED <<campaign, inApp, ledger>>

(* computeOperationStatus over the in-app and push channel results.        *)
OperationStatusM(r) ==      \* mutant: failed deliveries are not counted
  IF recipients[r] = {} /\ audience[r] = {} THEN "no_target" ELSE "sent"

OperationStatus(r) ==
  LET sent == {s \in audience[r] : task[r][s] = "sent"} IN
  IF recipients[r] = {} /\ audience[r] = {} THEN "no_target"
  ELSE IF recipients[r] = {} /\ sent = {} THEN "failed"
  ELSE IF sent # audience[r] THEN "partial_failed" ELSE "sent"

ServeFinalizeM(r) ==        \* mutant: the attempt token is not compared
  /\ campaign' = IF campaign.status = "pending"
                 THEN [status |-> OperationStatus(r), token |-> r, lease |-> 0]
                 ELSE campaign
  /\ UNCHANGED <<inApp, ledger>>

ServeFinalize(r) ==
  /\ campaign' = IF campaign.status = "pending" /\ campaign.token = r
                 THEN [status |-> OperationStatus(r), token |-> r, lease |-> 0]
                 ELSE campaign
  /\ UNCHANGED <<inApp, ledger>>

------------------------------------------------------------------------------
(* claim_notification_delivery and transition_notification_delivery        *)

Stale(row) == row.at + DeliveryLease <= now
ClaimableM(row) ==          \* mutant: a stale "sending" row is handed out again
  \/ row.status \in {"absent", "failed"}
  \/ row.status = "pending" /\ row.provider \in {"claimed", "sending"} /\ Stale(row)

Claimable(row) ==
  \/ row.status \in {"absent", "failed"}
  \/ row.status = "pending" /\ row.provider = "claimed" /\ Stale(row)
Abandoned(row) == row.status = "pending" /\ row.provider = "sending" /\ Stale(row)

DispositionM(row) ==        \* mutant: a row in another run's hands counts as sent
  CASE row.provider = "needs_reconciliation" -> "needs_reconciliation"
    [] Claimable(row) -> "claimed"
    [] Abandoned(row) -> "needs_reconciliation"
    [] OTHER -> "sent"

Disposition(row) ==
  CASE row.status = "sent" -> "sent"
    [] row.provider = "needs_reconciliation" -> "needs_reconciliation"
    [] Claimable(row) -> "claimed"
    [] Abandoned(row) -> "needs_reconciliation"
    [] OTHER -> "in_progress"

RowAfterClaimM(row) ==      \* mutant: an abandoned push is taken over
  IF Claimable(row) \/ Abandoned(row) THEN Row("pending", "claimed") ELSE row

RowAfterClaim(row) ==
  CASE Claimable(row) -> Row("pending", "claimed")
    [] Abandoned(row) -> Row("pending", "needs_reconciliation")
    [] OTHER -> row

ServeDelivery(s) ==
  /\ ledger' = [ledger EXCEPT ![s] = RowAfterClaim(@)]
  /\ UNCHANGED <<campaign, inApp>>

(* The transitions carry no attempt token: only the row's state guards them. *)
Transits(row, to) ==
  /\ row.status = "pending"
  /\ row.provider \in CASE to = "sending" -> {"claimed"}
                        [] to \in {"sent", "failed"} -> {"sending"}
                        [] to = "needs_reconciliation" -> {"claimed", "sending"}

RowAfterM(to) == Row(to, to)    \* mutant: every transition is a status

RowAfter(to) == Row(IF to \in {"sent", "failed"} THEN to ELSE "pending", to)

ServeTransition(s, to) ==
  /\ ledger' = [ledger EXCEPT ![s] = IF Transits(@, to) THEN RowAfter(to) ELSE @]
  /\ UNCHANGED <<campaign, inApp>>

------------------------------------------------------------------------------
(* A call either answers or throws, leaving its request on the wire.       *)

NoAnswer(op, r, s) ==
  /\ wire' = wire \cup {[op |-> op, run |-> r, sub |-> s]}
  /\ UNCHANGED <<campaign, inApp, ledger>>

Arrive(q) ==
  /\ wire' = wire \ {q}
  /\ \/ q.op = "campaign" /\ ServeCampaign(q.run)
     \/ q.op = "finalize" /\ ServeFinalize(q.run)
     \/ q.op = "delivery" /\ ServeDelivery(q.sub)
     \/ q.op \in Transition /\ ServeTransition(q.sub, q.op)
  /\ UNCHANGED <<now, active, phase, plan, task, ghosts>>

------------------------------------------------------------------------------
(* A run: sendAdminNotificationCampaign on the retry-safe path.            *)

Goto(r, p) == phase' = [phase EXCEPT ![r] = p]

(* The audience is read before the claim: E are the members with push on.  *)
ReadAudience(r) ==
  /\ phase[r] = "idle"
  /\ \E R \in SUBSET Members : \E E \in SUBSET R :
       LET devices == {s \in Subscriptions : active[s] /\ Owner[s] \in E} IN
       /\ recipients' = [recipients EXCEPT ![r] = R]
       /\ audience' = [audience EXCEPT ![r] = devices]
       /\ task' = [task EXCEPT ![r] = [s \in Subscriptions |->
                                         IF s \in devices THEN "todo" ELSE "off"]]
       /\ Goto(r, IF R = {} THEN "ended" ELSE "claim")
  /\ UNCHANGED <<now, database, active, ghosts>>

ClaimCampaign(r) ==
  /\ phase[r] = "claim"
  /\ \/ /\ ServeCampaign(r)
        /\ Goto(r, IF CampaignDisposition \in {"claimed", "resumed"}
                   THEN "prepare" ELSE "ended")
        /\ UNCHANGED wire
     \/ NoAnswer("campaign", r, None) /\ Goto(r, "ended")
  /\ UNCHANGED <<now, active, plan, task, ghosts>>

(* Template, createPushMessageLog and getWebPush: any of them may throw,   *)
(* and the campaign is then left pending.                                  *)
Prepare(r) ==
  /\ phase[r] = "prepare"
  /\ \/ Goto(r, "deliver")
     \/ audience[r] # {} /\ Goto(r, "ended")
  /\ UNCHANGED <<now, database, active, plan, task, ghosts>>

(* finalizePushMessageLog ends the push channel; its failure is not caught. *)
CloseLog(r) ==
  /\ phase[r] = "deliver"
  /\ \A s \in audience[r] : task[r][s] \in Settled
  /\ \/ Goto(r, "finalize")
     \/ audience[r] # {} /\ Goto(r, "ended")
  /\ UNCHANGED <<now, database, active, plan, task, ghosts>>

Finalize(r) ==
  /\ phase[r] = "finalize"
  /\ \/ ServeFinalize(r) /\ UNCHANGED wire
     \/ NoAnswer("finalize", r, None)
  /\ Goto(r, "ended")
  /\ UNCHANGED <<now, active, plan, task, ghosts>>

Crash(r) ==
  /\ phase[r] \notin {"idle", "ended"}
  /\ Goto(r, "ended")
  /\ UNCHANGED <<now, database, active, plan, task, ghosts>>

------------------------------------------------------------------------------
(* runPushDeliveryAttempt for subscription s, inside one of r's lanes.     *)

At(r, s, t) == phase[r] = "deliver" /\ task[r][s] = t
Become(r, s, t) == task' = [task EXCEPT ![r][s] = t]
LaneFreeM(r) ==             \* mutant: an attempt that settles keeps its lane
  Cardinality({s \in audience[r] : task[r][s] # "todo"}) < Lanes

LaneFree(r) == Cardinality({s \in audience[r] : task[r][s] \in Working}) < Lanes

ClaimDelivery(r, s) ==
  /\ At(r, s, "todo") /\ LaneFree(r)
  /\ \/ /\ ServeDelivery(s) /\ UNCHANGED wire
        /\ Become(r, s, CASE Disposition(ledger[s]) = "claimed" -> "mark_sending"
                          [] Disposition(ledger[s]) = "sent" -> "sent"
                          [] OTHER -> "failed")
     \/ NoAnswer("delivery", r, s) /\ Become(r, s, "failed")
  /\ UNCHANGED <<now, active, phase, plan, ghosts>>

MarkSending(r, s) ==
  /\ At(r, s, "mark_sending")
  /\ \/ /\ ServeTransition(s, "sending") /\ UNCHANGED wire
        /\ Become(r, s, IF Transits(ledger[s], "sending") THEN "send" ELSE "failed")
     \/ NoAnswer("sending", r, s) /\ Become(r, s, "failed")
  /\ UNCHANGED <<now, active, phase, plan, ghosts>>

(* A push that left before its run died may still be taken.                *)
ProviderAccepts(r, s) ==
  /\ phase[r] \in {"deliver", "ended"} /\ task[r][s] = "send"
  /\ accepted' = [accepted EXCEPT ![s] = @ + 1]
  /\ Become(r, s, "accepted")
  /\ UNCHANGED <<now, database, active, phase, plan, misreported>>

(* 404, 410 and an untrusted endpoint deactivate the subscription.         *)
ProviderRejects(r, s) ==
  /\ At(r, s, "send")
  /\ Become(r, s, "mark_failed") \/ Become(r, s, "mark_gone")
  /\ UNCHANGED <<now, database, active, phase, plan, ghosts>>

ProviderConfirms(r, s) ==
  /\ At(r, s, "accepted")
  /\ Become(r, s, "mark_sent")
  /\ UNCHANGED <<now, database, active, phase, plan, ghosts>>

(* The connection fails after the push was taken: sendNotification rejects, *)
(* and the attempt cannot tell this from a refusal.                        *)
ProviderGoesSilent(r, s) ==
  /\ At(r, s, "accepted")
  /\ misreported' = [misreported EXCEPT ![s] = @ + 1]
  /\ Become(r, s, "mark_failed")
  /\ UNCHANGED <<now, database, active, phase, plan, accepted>>

(* finalizeSuccessfulPushDelivery: sent, else needs_reconciliation.        *)
MarkSent(r, s) ==
  /\ At(r, s, "mark_sent")
  /\ \/ /\ ServeTransition(s, "sent") /\ UNCHANGED wire
        /\ Become(r, s, IF Transits(ledger[s], "sent") THEN "sent" ELSE "mark_unknown")
     \/ NoAnswer("sent", r, s) /\ Become(r, s, "mark_unknown")
  /\ UNCHANGED <<now, active, phase, plan, ghosts>>

MarkUnknownM(r, s) ==       \* mutant: an unrecorded success is put back to failed
  /\ At(r, s, "mark_unknown")
  /\ ledger' = [ledger EXCEPT ![s] = RowAfter("failed")]
  /\ Become(r, s, "failed")
  /\ UNCHANGED <<now, campaign, inApp, wire, active, phase, plan, ghosts>>

MarkUnknown(r, s) ==
  /\ At(r, s, "mark_unknown")
  /\ \/ ServeTransition(s, "needs_reconciliation") /\ UNCHANGED wire
     \/ NoAnswer("needs_reconciliation", r, s)
  /\ Become(r, s, "failed")
  /\ UNCHANGED <<now, active, phase, plan, ghosts>>

MarkFailed(r, s) ==
  /\ \/ At(r, s, "mark_failed") /\ Become(r, s, "book_failed")
     \/ At(r, s, "mark_gone") /\ Become(r, s, "book_gone")
  /\ \/ ServeTransition(s, "failed") /\ UNCHANGED wire
     \/ NoAnswer("failed", r, s)
  /\ UNCHANGED <<now, active, phase, plan, ghosts>>

(* markPushFailure writes is_active either way; an error is only logged.   *)
BookFailure(r, s) ==
  /\ At(r, s, "book_failed") \/ At(r, s, "book_gone")
  /\ \/ active' = [active EXCEPT ![s] = task[r][s] # "book_gone"]
     \/ UNCHANGED active
  /\ Become(r, s, "failed")
  /\ UNCHANGED <<now, database, phase, plan, ghosts>>

DeliveryStep(r, s) ==
  \/ ClaimDelivery(r, s) \/ MarkSending(r, s)
  \/ ProviderAccepts(r, s) \/ ProviderRejects(r, s)
  \/ ProviderConfirms(r, s) \/ ProviderGoesSilent(r, s)
  \/ MarkSent(r, s) \/ MarkUnknown(r, s)
  \/ MarkFailed(r, s) \/ BookFailure(r, s)

------------------------------------------------------------------------------
Tick ==
  /\ now < MaxTime
  /\ now' = now + 1
  /\ UNCHANGED <<database, active, phase, plan, task, ghosts>>

Unsubscribe(s) ==
  /\ s \in Toggled
  /\ active' = [active EXCEPT ![s] = FALSE]
  /\ UNCHANGED <<now, database, phase, plan, task, ghosts>>

Subscribe(s) ==
  /\ s \in Toggled
  /\ active' = [active EXCEPT ![s] = TRUE]
  /\ UNCHANGED <<now, database, phase, plan, task, ghosts>>

RunStep(r) ==
  \/ ReadAudience(r) \/ ClaimCampaign(r) \/ Prepare(r)
  \/ \E s \in Subscriptions : DeliveryStep(r, s)
  \/ CloseLog(r) \/ Finalize(r)

Next ==
  \/ \E r \in Runs : RunStep(r) \/ Crash(r)
  \/ \E q \in wire : Arrive(q)
  \/ \E s \in Subscriptions : Unsubscribe(s) \/ Subscribe(s)
  \/ Tick

Spec == Init /\ [][Next]_vars

(* Every awaited call settles, with an answer or an error, so a run that   *)
(* is not killed keeps going.  Nothing makes a request on the wire arrive, *)
(* a run start, or the clock advance.                                      *)
FairSpec == Spec /\ \A r \in Runs : WF_vars(phase[r] \notin {"idle", "ended"} /\ RunStep(r))
=============================================================================
