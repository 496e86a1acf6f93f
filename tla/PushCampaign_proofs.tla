------------------------- MODULE PushCampaign_proofs -------------------------
(***************************************************************************)
(* Machine-checked proofs about PushCampaign, for any number of runs,      *)
(* members, subscriptions and lanes and any leases.  The argument: at most *)
(* one run has the push of a subscription in hand, from the moment its     *)
(* "sending" transition succeeds until the ledger shows how it ended, and  *)
(* for that long the row is "sending" or isolated, never claimable.  The   *)
(* run whose token the campaign carries has read its audience and told its *)
(* members, so what it closes is complete; and the ledger and the campaign *)
(* row implement PushPromise.                                              *)
(***************************************************************************)
EXTENDS PushCampaignProps, TLAPS

(* The row was handed to a sender and its outcome is not in the ledger.    *)
Open(row) == row.status = "pending" /\ row.provider \in {"sending", "needs_reconciliation"}

Refused == {"send", "mark_failed", "mark_gone"}
Taken == {"accepted", "mark_sent", "mark_unknown"}
OnWire(op, r, s) == [op |-> op, run |-> r, sub |-> s] \in wire

(* Run r has the push of s in hand, or an outcome it reported is on the wire. *)
InHand(r, s) ==
  task[r][s] \in Refused \cup Taken \/ OnWire("failed", r, s) \/ OnWire("sent", r, s)

RowShape ==
  \A s \in Subscriptions :
    \/ ledger[s].status = "absent" /\ ledger[s].provider = "none"
    \/ ledger[s].status = "pending"
         /\ ledger[s].provider \in {"claimed", "sending", "needs_reconciliation"}
    \/ ledger[s].status \in {"sent", "failed"} /\ ledger[s].provider = ledger[s].status

OneHolder ==
  \A s \in Subscriptions : \A r, q \in Runs : InHand(r, s) /\ InHand(q, s) => r = q

WireAfterTask ==
  \A s \in Subscriptions : \A r \in Runs :
    /\ OnWire("failed", r, s) => /\ task[r][s] \in {"book_failed", "book_gone", "failed"}
                                 /\ ~OnWire("sent", r, s)
    /\ OnWire("sent", r, s) => task[r][s] \in {"mark_unknown", "failed"}

HeldIsOpen ==
  \A s \in Subscriptions : \A r \in Runs :
    InHand(r, s) => \/ Open(ledger[s])
                    \/ /\ ledger[s].status = "sent" /\ task[r][s] = "mark_unknown"
                       /\ ~OnWire("sent", r, s)

HeldBalance ==
  \A s \in Subscriptions : \A r \in Runs :
    /\ task[r][s] \in Refused \/ OnWire("failed", r, s) => accepted[s] = misreported[s]
    /\ task[r][s] \in Taken \/ OnWire("sent", r, s) => accepted[s] = misreported[s] + 1

RowBalance ==
  \A s \in Subscriptions :
    /\ accepted[s] \in {misreported[s], misreported[s] + 1}
    /\ ledger[s].status = "sent" => accepted[s] = misreported[s] + 1
    /\ ledger[s].status # "sent" /\ ~Open(ledger[s]) => accepted[s] = misreported[s]

CountedIsSent ==
  \A s \in Subscriptions : \A r \in Runs :
    task[r][s] = "sent" => ledger[s].status = "sent"

IdleIsClean == \A r \in Runs : phase[r] = "idle" =>
                 \A s \in Subscriptions : task[r][s] = "off"

DeliveryInv ==
  /\ RowShape /\ OneHolder /\ WireAfterTask /\ HeldIsOpen
  /\ HeldBalance /\ RowBalance /\ CountedIsSent /\ IdleIsClean

------------------------------------------------------------------------------
DatabaseTypes ==
  /\ campaign \in [status : CampaignStatus, token : Runs \cup {None}, lease : Nat]
  /\ inApp \in [Members -> Nat]
  /\ ledger \in [Subscriptions -> LedgerRow]

(* The database functions keep every row well typed.                       *)
LEMMA CampaignTypes ==
  ASSUME TypeOK, NEW r \in Runs, ServeCampaign(r) \/ ServeFinalize(r)
  PROVE  DatabaseTypes'
<1>1. CASE ServeCampaign(r)
  BY <1>1, BoundsAssumption DEF TypeOK, DatabaseTypes, ServeCampaign, CampaignStatus
<1>2. CASE ServeFinalize(r)
  <2>1. OperationStatus(r) \in CampaignStatus
    BY DEF OperationStatus, CampaignStatus, Final
  <2> QED BY <1>2, <2>1 DEF TypeOK, DatabaseTypes, ServeFinalize
<1> QED BY <1>1, <1>2

LEMMA LedgerTypes ==
  ASSUME TypeOK, NEW s \in Subscriptions, NEW to \in Transition,
         ServeDelivery(s) \/ ServeTransition(s, to)
  PROVE  DatabaseTypes'
<1>1. RowAfterClaim(ledger[s]) \in LedgerRow /\ RowAfter(to) \in LedgerRow
  BY DEF TypeOK, RowAfterClaim, RowAfter, Row, LedgerRow, Transition
<1> QED BY <1>1 DEF TypeOK, DatabaseTypes, ServeDelivery, ServeTransition

LEMMA TypeInit == Init => TypeOK
BY BoundsAssumption
   DEF Init, TypeOK, CampaignStatus, LedgerRow, Row, Phase, Task, Request

LEMMA TypeStep == TypeOK /\ [Next]_vars => TypeOK'
<1> SUFFICES ASSUME TypeOK, [Next]_vars PROVE TypeOK'
  OBVIOUS
<1> USE DEF database, ghosts, plan
<1>a. CASE UNCHANGED vars
  BY <1>a DEF vars, TypeOK
<1>1. ASSUME NEW r \in Runs, ReadAudience(r) PROVE TypeOK'
  BY <1>1 DEF ReadAudience, TypeOK, Goto, Phase, Task
<1>2. ASSUME NEW r \in Runs, ClaimCampaign(r) PROVE TypeOK'
  <2>1. wire' \subseteq Request
    BY <1>2 DEF ClaimCampaign, NoAnswer, TypeOK, Request
  <2>2. phase' \in [Runs -> Phase]
    BY <1>2 DEF ClaimCampaign, TypeOK, Goto, Phase
  <2>3. DatabaseTypes'
    BY <1>2, CampaignTypes DEF ClaimCampaign, NoAnswer, TypeOK, DatabaseTypes
  <2> QED BY <1>2, <2>1, <2>2, <2>3 DEF ClaimCampaign, TypeOK, DatabaseTypes
<1>3. ASSUME NEW r \in Runs, Prepare(r) \/ CloseLog(r) \/ Crash(r) PROVE TypeOK'
  BY <1>3 DEF Prepare, CloseLog, Crash, Goto, TypeOK, Phase
<1>4. ASSUME NEW r \in Runs, Finalize(r) PROVE TypeOK'
  <2>1. wire' \subseteq Request
    BY <1>4 DEF Finalize, NoAnswer, TypeOK, Request
  <2>2. phase' \in [Runs -> Phase]
    BY <1>4 DEF Finalize, TypeOK, Goto, Phase
  <2>3. DatabaseTypes'
    BY <1>4, CampaignTypes DEF Finalize, NoAnswer, TypeOK, DatabaseTypes
  <2> QED BY <1>4, <2>1, <2>2, <2>3 DEF Finalize, TypeOK, DatabaseTypes
<1>5. ASSUME NEW r \in Runs, NEW s \in Subscriptions, DeliveryStep(r, s) PROVE TypeOK'
  <2>1. task' \in [Runs -> [Subscriptions -> Task]]
    <3>1. \E t \in Task : Become(r, s, t)
      BY <1>5 DEF DeliveryStep, ClaimDelivery, MarkSending, ProviderAccepts,
         ProviderRejects, ProviderConfirms, ProviderGoesSilent, MarkSent, MarkUnknown,
         MarkFailed, BookFailure, Task, Working, Settled
    <3> QED BY <3>1 DEF Become, TypeOK
  <2>2. wire' \subseteq Request
    <3>1. UNCHANGED wire \/ \E op \in {"delivery"} \cup Transition : NoAnswer(op, r, s)
      BY <1>5 DEF DeliveryStep, ClaimDelivery, MarkSending, ProviderAccepts,
         ProviderRejects, ProviderConfirms, ProviderGoesSilent, MarkSent, MarkUnknown,
         MarkFailed, BookFailure, Transition
    <3> QED BY <3>1 DEF NoAnswer, Request, TypeOK
  <2>3. accepted' \in [Subscriptions -> Nat] /\ misreported' \in [Subscriptions -> Nat]
    <3>1. /\ UNCHANGED accepted \/ accepted' = [accepted EXCEPT ![s] = @ + 1]
          /\ UNCHANGED misreported \/ misreported' = [misreported EXCEPT ![s] = @ + 1]
      BY <1>5 DEF DeliveryStep, ClaimDelivery, MarkSending, ProviderAccepts,
         ProviderRejects, ProviderConfirms, ProviderGoesSilent, MarkSent, MarkUnknown,
         MarkFailed, BookFailure
    <3>2. accepted \in [Subscriptions -> Nat] /\ misreported \in [Subscriptions -> Nat]
      BY DEF TypeOK
    <3> QED BY <3>1, <3>2
  <2>4. active' \in [Subscriptions -> BOOLEAN]
    BY <1>5 DEF DeliveryStep, TypeOK, ClaimDelivery, MarkSending, ProviderAccepts,
       ProviderRejects, ProviderConfirms, ProviderGoesSilent, MarkSent, MarkUnknown,
       MarkFailed, BookFailure
  <2>5. DatabaseTypes'
    <3>1. \/ UNCHANGED <<campaign, inApp, ledger>>
          \/ ServeDelivery(s)
          \/ \E to \in Transition : ServeTransition(s, to)
      BY <1>5 DEF DeliveryStep, ClaimDelivery, MarkSending, ProviderAccepts,
         ProviderRejects, ProviderConfirms, ProviderGoesSilent, MarkSent, MarkUnknown,
         MarkFailed, BookFailure, NoAnswer, Transition
    <3> QED BY <3>1, LedgerTypes DEF TypeOK, DatabaseTypes, Transition
  <2>6. UNCHANGED <<now, phase, recipients, audience>>
    BY <1>5 DEF DeliveryStep, ClaimDelivery, MarkSending, ProviderAccepts,
       ProviderRejects, ProviderConfirms, ProviderGoesSilent, MarkSent, MarkUnknown,
       MarkFailed, BookFailure
  <2> QED BY <2>1, <2>2, <2>3, <2>4, <2>5, <2>6 DEF TypeOK, DatabaseTypes
<1>6. ASSUME NEW q \in wire, Arrive(q) PROVE TypeOK'
  <2>1. q \in Request
    BY DEF TypeOK
  <2>2. DatabaseTypes'
    <3>1. CASE q.op \in {"campaign", "finalize"}
      BY <1>6, <2>1, <3>1, CampaignTypes DEF Arrive, Request, Transition
    <3>2. CASE q.op \in {"delivery"} \cup Transition
      BY <1>6, <2>1, <3>2, LedgerTypes DEF Arrive, Request, Transition
    <3> QED BY <2>1, <3>1, <3>2 DEF Request
  <2> QED BY <1>6, <2>2 DEF Arrive, TypeOK, DatabaseTypes
<1>7. ASSUME NEW s \in Subscriptions, Unsubscribe(s) \/ Subscribe(s) PROVE TypeOK'
  BY <1>7 DEF Unsubscribe, Subscribe, TypeOK
<1>8. ASSUME Tick PROVE TypeOK'
  BY <1>8, BoundsAssumption DEF Tick, TypeOK
<1> QED BY <1>a, <1>1, <1>2, <1>3, <1>4, <1>5, <1>6, <1>7, <1>8 DEF Next, RunStep

(* Every reachable state has the declared types.                           *)
THEOREM TypeCorrect == Spec => []TypeOK
BY TypeInit, TypeStep, PTL DEF Spec

------------------------------------------------------------------------------
(* The inductive invariant, one action at a time.                          *)

LEMMA DeliveryInit == Init => DeliveryInv
BY DEF Init, DeliveryInv, RowShape, OneHolder, WireAfterTask, HeldIsOpen, HeldBalance,
       RowBalance, CountedIsSent, IdleIsClean, InHand, OnWire, Open, Refused, Taken, Row

(* How a step of run r with subscription s moves each variable.            *)
LEMMA BecomeAt ==
  ASSUME TypeOK, NEW r \in Runs, NEW s \in Subscriptions, NEW t, Become(r, s, t)
  PROVE  \A q \in Runs : \A x \in Subscriptions :
           task'[q][x] = IF q = r /\ x = s THEN t ELSE task[q][x]
BY DEF Become, TypeOK

LEMMA WireKept ==
  ASSUME UNCHANGED wire
  PROVE  \A o, q, x : OnWire(o, q, x)' <=> OnWire(o, q, x)
BY DEF OnWire

LEMMA WireGains ==
  ASSUME NEW op, NEW r, NEW s, NoAnswer(op, r, s)
  PROVE  \A o, q, x : OnWire(o, q, x)' <=> OnWire(o, q, x) \/ (o = op /\ q = r /\ x = s)
BY DEF OnWire, NoAnswer

(* Steps of the campaign, the clock and the members leave deliveries alone. *)
LEMMA CampaignStepKeeps ==
  ASSUME DeliveryInv, UNCHANGED <<task, ledger, accepted, misreported>>,
         \A r \in Runs : phase'[r] = "idle" => phase[r] = "idle",
         \A r, s : \A op \in {"sent", "failed"} : OnWire(op, r, s)' <=> OnWire(op, r, s)
  PROVE  DeliveryInv'
BY DEF DeliveryInv, RowShape, OneHolder, WireAfterTask, HeldIsOpen, HeldBalance,
       RowBalance, CountedIsSent, IdleIsClean, InHand

LEMMA ReadAudienceKeeps ==
  ASSUME TypeOK, DeliveryInv, NEW r \in Runs, ReadAudience(r)
  PROVE  DeliveryInv'
<1>1. /\ \A s \in Subscriptions : task[r][s] = "off" /\ task'[r][s] \in {"off", "todo"}
      /\ \A q \in Runs : q # r => task'[q] = task[q]
      /\ \A q \in Runs : phase'[q] = "idle" => q # r /\ phase[q] = "idle"
  BY DEF ReadAudience, TypeOK, Goto, DeliveryInv, IdleIsClean
<1>2. \A o, q, x : OnWire(o, q, x)' <=> OnWire(o, q, x)
  BY WireKept DEF ReadAudience, database
<1>3. UNCHANGED <<ledger, accepted, misreported>>
  BY DEF ReadAudience, database, ghosts
<1> USE DEF DeliveryInv, InHand, Open, Refused, Taken
<1>4. RowShape' /\ RowBalance' BY <1>3 DEF RowShape, RowBalance
<1>5. OneHolder' BY <1>1, <1>2 DEF OneHolder
<1>6. WireAfterTask' BY <1>1, <1>2 DEF WireAfterTask
<1>7. HeldIsOpen' BY <1>1, <1>2, <1>3 DEF HeldIsOpen
<1>8. HeldBalance' BY <1>1, <1>2, <1>3 DEF HeldBalance
<1>9. CountedIsSent' BY <1>1, <1>3 DEF CountedIsSent
<1>10. IdleIsClean' BY <1>1 DEF IdleIsClean
<1> QED BY <1>4, <1>5, <1>6, <1>7, <1>8, <1>9, <1>10

LEMMA ClaimDeliveryKeeps ==
  ASSUME TypeOK, DeliveryInv, NEW r \in Runs, NEW s \in Subscriptions, ClaimDelivery(r, s)
  PROVE  DeliveryInv'
<1> USE DEF DeliveryInv
<1>1. PICK t \in {"mark_sending", "sent", "failed"} :
        /\ \A q \in Runs : \A x \in Subscriptions :
             task'[q][x] = IF q = r /\ x = s THEN t ELSE task[q][x]
        /\ t = "sent" => ledger[s].status = "sent"
  BY BecomeAt DEF ClaimDelivery, Disposition
<1>2. \A q, x : /\ OnWire("sent", q, x)' <=> OnWire("sent", q, x)
                /\ OnWire("failed", q, x)' <=> OnWire("failed", q, x)
  BY WireKept, WireGains DEF ClaimDelivery
<1>3. /\ \A x \in Subscriptions : x # s => ledger'[x] = ledger[x]
      /\ \/ ledger'[s] = ledger[s]
         \/ Claimable(ledger[s]) /\ ledger'[s] = Row("pending", "claimed")
         \/ Abandoned(ledger[s]) /\ ledger'[s] = Row("pending", "needs_reconciliation")
  BY DEF ClaimDelivery, ServeDelivery, NoAnswer, RowAfterClaim, TypeOK
<1>4. /\ phase[r] = "deliver" /\ task[r][s] = "todo"
      /\ UNCHANGED <<phase, accepted, misreported>>
  BY DEF ClaimDelivery, At, ghosts
<1> USE DEF InHand, Open, Refused, Taken, Claimable, Abandoned, Row
<1>5. RowShape' BY <1>3 DEF RowShape
<1>6. OneHolder' BY <1>1, <1>2 DEF OneHolder
<1>7. WireAfterTask' BY <1>1, <1>2, <1>4 DEF WireAfterTask
<1>8. HeldIsOpen' BY <1>1, <1>2, <1>3, <1>4 DEF HeldIsOpen, RowShape
<1>9. HeldBalance' BY <1>1, <1>2, <1>4 DEF HeldBalance
<1>10. RowBalance' BY <1>3, <1>4 DEF RowBalance, RowShape
<1>11. CountedIsSent' BY <1>1, <1>3 DEF CountedIsSent, RowShape
<1>12. IdleIsClean' BY <1>1, <1>4 DEF IdleIsClean
<1> QED BY <1>5, <1>6, <1>7, <1>8, <1>9, <1>10, <1>11, <1>12
LEMMA MarkSendingKeeps ==
  ASSUME TypeOK, DeliveryInv, NEW r \in Runs, NEW s \in Subscriptions, MarkSending(r, s)
  PROVE  DeliveryInv'
<1> USE DEF DeliveryInv
<1>1. PICK t \in {"send", "failed"} :
        /\ \A q \in Runs : \A x \in Subscriptions :
             task'[q][x] = IF q = r /\ x = s THEN t ELSE task[q][x]
        /\ t = "send" => ledger[s].provider = "claimed" /\ ledger'[s].provider = "sending"
  BY BecomeAt DEF MarkSending, Transits, ServeTransition, RowAfter, Row, TypeOK
<1>2. \A q, x : /\ OnWire("sent", q, x)' <=> OnWire("sent", q, x)
                /\ OnWire("failed", q, x)' <=> OnWire("failed", q, x)
  BY WireKept, WireGains DEF MarkSending
<1>3. /\ \A x \in Subscriptions : x # s => ledger'[x] = ledger[x]
      /\ \/ ledger'[s] = ledger[s]
         \/ /\ ledger[s].status = "pending" /\ ledger[s].provider = "claimed"
            /\ ledger'[s] = Row("pending", "sending")
  BY DEF MarkSending, ServeTransition, NoAnswer, Transits, RowAfter, TypeOK
<1>4. /\ phase[r] = "deliver" /\ task[r][s] = "mark_sending"
      /\ UNCHANGED <<phase, accepted, misreported>>
  BY DEF MarkSending, At, ghosts
<1> USE DEF InHand, Open, Refused, Taken, Row
<1>5. RowShape' BY <1>3 DEF RowShape
<1>6. OneHolder' BY <1>1, <1>2, <1>3, <1>4 DEF OneHolder, HeldIsOpen
<1>7. WireAfterTask' BY <1>1, <1>2, <1>4 DEF WireAfterTask
<1>8. HeldIsOpen' BY <1>1, <1>2, <1>3, <1>4 DEF HeldIsOpen, RowShape
<1>9. HeldBalance' BY <1>1, <1>2, <1>3, <1>4 DEF HeldBalance, RowBalance, WireAfterTask
<1>10. RowBalance' BY <1>3, <1>4 DEF RowBalance, RowShape
<1>11. CountedIsSent' BY <1>1, <1>3 DEF CountedIsSent, RowShape
<1>12. IdleIsClean' BY <1>1, <1>4 DEF IdleIsClean
<1> QED BY <1>5, <1>6, <1>7, <1>8, <1>9, <1>10, <1>11, <1>12

(* The provider's verdict moves the balance of the one run holding the push. *)
LEMMA ProviderKeeps ==
  ASSUME TypeOK, DeliveryInv, NEW r \in Runs, NEW s \in Subscriptions,
         \/ ProviderAccepts(r, s) \/ ProviderRejects(r, s)
         \/ ProviderConfirms(r, s) \/ ProviderGoesSilent(r, s)
  PROVE  DeliveryInv'
<1> USE DEF DeliveryInv
<1>1. PICK t \in {"accepted", "mark_sent", "mark_failed", "mark_gone"} :
        /\ \A q \in Runs : \A x \in Subscriptions :
             task'[q][x] = IF q = r /\ x = s THEN t ELSE task[q][x]
        /\ t = "mark_gone" => task[r][s] = "send"
        /\ t = "accepted" => /\ task[r][s] = "send"
                             /\ accepted' = [accepted EXCEPT ![s] = @ + 1]
                             /\ UNCHANGED misreported
        /\ t = "mark_sent" => task[r][s] = "accepted" /\ UNCHANGED <<accepted, misreported>>
        /\ t \in {"mark_failed", "mark_gone"} =>
             \/ task[r][s] = "send" /\ UNCHANGED <<accepted, misreported>>
             \/ /\ task[r][s] = "accepted" /\ UNCHANGED accepted
                /\ misreported' = [misreported EXCEPT ![s] = @ + 1]
  BY BecomeAt DEF ProviderAccepts, ProviderRejects, ProviderConfirms, ProviderGoesSilent,
     At, ghosts
<1>2. \A o, q, x : OnWire(o, q, x)' <=> OnWire(o, q, x)
  BY WireKept DEF ProviderAccepts, ProviderRejects, ProviderConfirms, ProviderGoesSilent,
     database
<1>3. phase[r] # "idle" /\ task[r][s] \in {"send", "accepted"} /\ UNCHANGED <<phase, ledger>>
  BY DEF ProviderAccepts, ProviderRejects, ProviderConfirms, ProviderGoesSilent, At, database
<1>4. \A q \in Runs : /\ InHand(q, s) => q = r
                      /\ ~OnWire("failed", q, s) /\ ~OnWire("sent", q, s)
  BY <1>3 DEF OneHolder, InHand, WireAfterTask, Refused, Taken
<1> USE DEF InHand, Open, Refused, Taken
<1>5. RowShape' BY <1>3 DEF RowShape
<1>6. OneHolder' BY <1>1, <1>2, <1>3 DEF OneHolder
<1>7. WireAfterTask' BY <1>1, <1>2, <1>4 DEF WireAfterTask
<1>8. HeldIsOpen' BY <1>1, <1>2, <1>3 DEF HeldIsOpen
<1>9. HeldBalance' BY <1>1, <1>2, <1>3, <1>4 DEF HeldBalance, TypeOK
<1>10. RowBalance'
  <2>1. Open(ledger[s])
    BY <1>3 DEF HeldIsOpen
  <2>2. accepted[s] = IF task[r][s] = "send" THEN misreported[s] ELSE misreported[s] + 1
    BY <1>3 DEF HeldBalance
  <2> QED BY <1>1, <1>3, <2>1, <2>2 DEF RowBalance, RowShape, TypeOK
<1>11. CountedIsSent' BY <1>1, <1>3 DEF CountedIsSent
<1>12. IdleIsClean' BY <1>1, <1>3 DEF IdleIsClean
<1> QED BY <1>5, <1>6, <1>7, <1>8, <1>9, <1>10, <1>11, <1>12

LEMMA MarkSentKeeps ==
  ASSUME TypeOK, DeliveryInv, NEW r \in Runs, NEW s \in Subscriptions, MarkSent(r, s)
  PROVE  DeliveryInv'
<1> USE DEF DeliveryInv
<1>1. PICK t \in {"sent", "mark_unknown"} :
        /\ \A q \in Runs : \A x \in Subscriptions :
             task'[q][x] = IF q = r /\ x = s THEN t ELSE task[q][x]
        /\ t = "sent" => ledger'[s].status = "sent"
        /\ t = "mark_unknown" => ledger'[s] = ledger[s]
  BY BecomeAt DEF MarkSent, Transits, ServeTransition, NoAnswer, RowAfter, Row, TypeOK
<1>2. \A q, x : /\ OnWire("sent", q, x) => OnWire("sent", q, x)'
                /\ OnWire("sent", q, x)' => \/ OnWire("sent", q, x)
                                            \/ q = r /\ x = s /\ task'[r][s] = "mark_unknown"
                /\ OnWire("failed", q, x)' <=> OnWire("failed", q, x)
  BY <1>1, WireKept, WireGains, BecomeAt DEF MarkSent
<1>3. /\ \A x \in Subscriptions : x # s => ledger'[x] = ledger[x]
      /\ \/ ledger'[s] = ledger[s]
         \/ Open(ledger[s]) /\ ledger'[s] = Row("sent", "sent")
  BY DEF MarkSent, ServeTransition, NoAnswer, Transits, RowAfter, TypeOK, Open
<1>4. /\ phase[r] = "deliver" /\ task[r][s] = "mark_sent"
      /\ UNCHANGED <<phase, accepted, misreported>>
  BY DEF MarkSent, At, ghosts
<1>5. /\ \A q \in Runs : /\ InHand(q, s) => q = r
                         /\ ~OnWire("failed", q, s) /\ ~OnWire("sent", q, s)
      /\ Open(ledger[s]) /\ accepted[s] = misreported[s] + 1
  BY <1>4 DEF OneHolder, InHand, WireAfterTask, HeldIsOpen, HeldBalance, Refused, Taken
<1> USE DEF InHand, Open, Refused, Taken, Row
<1>6. RowShape' BY <1>3 DEF RowShape
<1>7. OneHolder' BY <1>1, <1>2, <1>4, <1>5 DEF OneHolder
<1>8. WireAfterTask' BY <1>1, <1>2, <1>4, <1>5 DEF WireAfterTask
<1>9. HeldIsOpen' BY <1>1, <1>2, <1>3, <1>4, <1>5 DEF HeldIsOpen
<1>10. HeldBalance' BY <1>1, <1>2, <1>4, <1>5 DEF HeldBalance
<1>11. RowBalance' BY <1>3, <1>4, <1>5 DEF RowBalance, RowShape
<1>12. CountedIsSent' BY <1>1, <1>3, <1>5 DEF CountedIsSent
<1>13. IdleIsClean' BY <1>1, <1>4 DEF IdleIsClean
<1> QED BY <1>6, <1>7, <1>8, <1>9, <1>10, <1>11, <1>12, <1>13

LEMMA MarkUnknownKeeps ==
  ASSUME TypeOK, DeliveryInv, NEW r \in Runs, NEW s \in Subscriptions, MarkUnknown(r, s)
  PROVE  DeliveryInv'
<1> USE DEF DeliveryInv
<1>1. \A q \in Runs : \A x \in Subscriptions :
        task'[q][x] = IF q = r /\ x = s THEN "failed" ELSE task[q][x]
  BY BecomeAt DEF MarkUnknown
<1>2. \A q, x : /\ OnWire("sent", q, x)' <=> OnWire("sent", q, x)
                /\ OnWire("failed", q, x)' <=> OnWire("failed", q, x)
  BY WireKept, WireGains DEF MarkUnknown
<1>3. /\ \A x \in Subscriptions : x # s => ledger'[x] = ledger[x]
      /\ \/ ledger'[s] = ledger[s]
         \/ Open(ledger[s]) /\ ledger'[s] = Row("pending", "needs_reconciliation")
         \/ ledger[s].provider = "claimed" /\ ledger[s].status = "pending"
  BY DEF MarkUnknown, ServeTransition, NoAnswer, Transits, RowAfter, TypeOK, Open
<1>4. /\ phase[r] = "deliver" /\ task[r][s] = "mark_unknown"
      /\ UNCHANGED <<phase, accepted, misreported>>
  BY DEF MarkUnknown, At, ghosts
<1>5. /\ \A q \in Runs : InHand(q, s) => q = r
      /\ Open(ledger[s]) \/ (ledger[s].status = "sent" /\ ~OnWire("sent", r, s))
      /\ accepted[s] = misreported[s] + 1
      /\ ~OnWire("failed", r, s)
  <2>1. InHand(r, s)
    BY <1>4 DEF InHand, Taken
  <2>2. \A q \in Runs : InHand(q, s) => q = r
    BY <2>1 DEF OneHolder
  <2>3. Open(ledger[s]) \/ (ledger[s].status = "sent" /\ ~OnWire("sent", r, s))
    BY <2>1 DEF HeldIsOpen
  <2>4. accepted[s] = misreported[s] + 1 /\ ~OnWire("failed", r, s)
    BY <1>4 DEF HeldBalance, WireAfterTask, Taken
  <2> QED BY <2>2, <2>3, <2>4
<1> USE DEF InHand, Open, Refused, Taken, Row
<1>6. RowShape' BY <1>3, <1>5 DEF RowShape
<1>7. OneHolder' BY <1>1, <1>2 DEF OneHolder
<1>8. WireAfterTask' BY <1>1, <1>2, <1>4 DEF WireAfterTask
<1>9. HeldIsOpen' BY <1>1, <1>2, <1>3, <1>4, <1>5 DEF HeldIsOpen
<1>10. HeldBalance' BY <1>1, <1>2, <1>4 DEF HeldBalance
<1>11. RowBalance' BY <1>3, <1>4, <1>5 DEF RowBalance
<1>12. CountedIsSent' BY <1>1, <1>3, <1>5 DEF CountedIsSent
<1>13. IdleIsClean' BY <1>1, <1>4 DEF IdleIsClean
<1> QED BY <1>6, <1>7, <1>8, <1>9, <1>10, <1>11, <1>12, <1>13

LEMMA MarkFailedKeeps ==
  ASSUME TypeOK, DeliveryInv, NEW r \in Runs, NEW s \in Subscriptions, MarkFailed(r, s)
  PROVE  DeliveryInv'
<1> USE DEF DeliveryInv
<1>1. PICK t \in {"book_failed", "book_gone"} :
        \A q \in Runs : \A x \in Subscriptions :
          task'[q][x] = IF q = r /\ x = s THEN t ELSE task[q][x]
  BY BecomeAt DEF MarkFailed
<1>2. \A q, x : /\ OnWire("sent", q, x)' <=> OnWire("sent", q, x)
                /\ OnWire("failed", q, x) => OnWire("failed", q, x)'
                /\ OnWire("failed", q, x)' => \/ OnWire("failed", q, x)
                                              \/ q = r /\ x = s /\ ledger'[s] = ledger[s]
  BY WireKept, WireGains DEF MarkFailed, NoAnswer
<1>3. /\ \A x \in Subscriptions : x # s => ledger'[x] = ledger[x]
      /\ \/ ledger'[s] = ledger[s]
         \/ /\ Open(ledger[s]) /\ ledger'[s] = Row("failed", "failed")
            /\ \A q, x : OnWire("failed", q, x)' <=> OnWire("failed", q, x)
  BY WireKept DEF MarkFailed, ServeTransition, NoAnswer, Transits, RowAfter, TypeOK, Open
<1>4. /\ phase[r] = "deliver" /\ task[r][s] \in {"mark_failed", "mark_gone"}
      /\ UNCHANGED <<phase, accepted, misreported>>
  BY DEF MarkFailed, At, ghosts
<1>5. /\ \A q \in Runs : /\ InHand(q, s) => q = r
                         /\ ~OnWire("failed", q, s) /\ ~OnWire("sent", q, s)
      /\ Open(ledger[s]) /\ accepted[s] = misreported[s]
  BY <1>4 DEF OneHolder, InHand, WireAfterTask, HeldIsOpen, HeldBalance, Refused, Taken
<1> USE DEF InHand, Open, Refused, Taken, Row
<1>6. RowShape' BY <1>3 DEF RowShape
<1>7. OneHolder' BY <1>1, <1>2, <1>4, <1>5 DEF OneHolder
<1>8. WireAfterTask' BY <1>1, <1>2, <1>4, <1>5 DEF WireAfterTask
<1>9. HeldIsOpen' BY <1>1, <1>2, <1>3, <1>4, <1>5 DEF HeldIsOpen
<1>10. HeldBalance' BY <1>1, <1>2, <1>4, <1>5 DEF HeldBalance
<1>11. RowBalance' BY <1>3, <1>4, <1>5 DEF RowBalance
<1>12. CountedIsSent' BY <1>1, <1>3, <1>5 DEF CountedIsSent
<1>13. IdleIsClean' BY <1>1, <1>4 DEF IdleIsClean
<1> QED BY <1>6, <1>7, <1>8, <1>9, <1>10, <1>11, <1>12, <1>13

LEMMA BookFailureKeeps ==
  ASSUME TypeOK, DeliveryInv, NEW r \in Runs, NEW s \in Subscriptions, BookFailure(r, s)
  PROVE  DeliveryInv'
<1> USE DEF DeliveryInv
<1>1. \A q \in Runs : \A x \in Subscriptions :
        task'[q][x] = IF q = r /\ x = s THEN "failed" ELSE task[q][x]
  BY BecomeAt DEF BookFailure
<1>2. \A o, q, x : OnWire(o, q, x)' <=> OnWire(o, q, x)
  BY WireKept DEF BookFailure, database
<1>3. /\ phase[r] = "deliver" /\ task[r][s] \in {"book_failed", "book_gone"}
      /\ UNCHANGED <<phase, ledger, accepted, misreported>>
  BY DEF BookFailure, At, ghosts, database
<1> USE DEF InHand, Open, Refused, Taken
<1>4. RowShape' /\ RowBalance' BY <1>3 DEF RowShape, RowBalance
<1>5. OneHolder' BY <1>1, <1>2 DEF OneHolder
<1>6. WireAfterTask' BY <1>1, <1>2, <1>3 DEF WireAfterTask
<1>7. HeldIsOpen' BY <1>1, <1>2, <1>3 DEF HeldIsOpen
<1>8. HeldBalance' BY <1>1, <1>2, <1>3 DEF HeldBalance
<1>9. CountedIsSent' BY <1>1, <1>3 DEF CountedIsSent
<1>10. IdleIsClean' BY <1>1, <1>3 DEF IdleIsClean
<1> QED BY <1>4, <1>5, <1>6, <1>7, <1>8, <1>9, <1>10

(* A request that lost its answer is served whenever it arrives.           *)
LEMMA ArriveKeeps ==
  ASSUME TypeOK, DeliveryInv, NEW q \in wire, Arrive(q)
  PROVE  DeliveryInv'
<1> USE DEF DeliveryInv
<1>1. q \in Request /\ UNCHANGED <<phase, task, accepted, misreported>>
  BY DEF Arrive, TypeOK, ghosts
<1>2. /\ \A o, r, s : OnWire(o, r, s)' => OnWire(o, r, s)
      /\ \A o, r, s : OnWire(o, r, s) => OnWire(o, r, s)' \/ q = [op |-> o, run |-> r, sub |-> s]
      /\ ~OnWire(q.op, q.run, q.sub)'
  <2>1. q = [op |-> q.op, run |-> q.run, sub |-> q.sub]
    BY <1>1 DEF Request
  <2> QED BY <2>1 DEF Arrive, OnWire
<1>3. CASE q.op \in {"campaign", "finalize"}
  <2>1. UNCHANGED ledger
    BY <1>3 DEF Arrive, ServeCampaign, ServeFinalize, Transition
  <2>2. \A r, s : \A op \in {"sent", "failed"} : OnWire(op, r, s)' <=> OnWire(op, r, s)
    BY <1>2, <1>3
  <2> QED BY <1>1, <2>1, <2>2, CampaignStepKeeps
<1>4. CASE q.op \in {"delivery", "sending", "needs_reconciliation"}
  <2> DEFINE s == q.sub
  <2>1. s \in Subscriptions
    BY <1>1, <1>4 DEF Request
  <2>2. \A o, r, x : o \in {"sent", "failed"} => (OnWire(o, r, x)' <=> OnWire(o, r, x))
    BY <1>2, <1>4
  <2>3. /\ \A x \in Subscriptions : x # s => ledger'[x] = ledger[x]
        /\ \/ ledger'[s] = ledger[s]
           \/ Claimable(ledger[s]) /\ ledger'[s] = Row("pending", "claimed")
           \/ /\ ledger[s].status = "pending" /\ ledger[s].provider = "claimed"
              /\ ledger'[s] = Row("pending", "sending")
           \/ /\ ledger[s].status = "pending"
              /\ ledger[s].provider \in {"claimed", "sending"}
              /\ ledger'[s] = Row("pending", "needs_reconciliation")
    BY <1>4, <2>1 DEF Arrive, ServeDelivery, ServeTransition, RowAfterClaim, Abandoned,
       Transits, RowAfter, TypeOK, Transition
  <2> HIDE DEF s
  <2> USE DEF InHand, Open, Refused, Taken, Claimable, Row
  <2>4. RowShape' BY <2>3 DEF RowShape
  <2>5. OneHolder' BY <1>1, <2>2 DEF OneHolder
  <2>6. WireAfterTask' BY <1>1, <2>2 DEF WireAfterTask
  <2>7. HeldIsOpen' BY <1>1, <2>2, <2>3 DEF HeldIsOpen
  <2>8. HeldBalance' BY <1>1, <2>2 DEF HeldBalance
  <2>9. RowBalance' BY <1>1, <2>3 DEF RowBalance, RowShape
  <2>10. CountedIsSent' BY <1>1, <2>3 DEF CountedIsSent, RowShape
  <2>11. IdleIsClean' BY <1>1 DEF IdleIsClean
  <2> QED BY <2>4, <2>5, <2>6, <2>7, <2>8, <2>9, <2>10, <2>11
<1>5. CASE q.op \in {"sent", "failed"}
  <2> DEFINE s == q.sub
             r == q.run
  <2>1. s \in Subscriptions /\ r \in Runs /\ OnWire(q.op, r, s)
    BY <1>1, <1>5 DEF Request, OnWire
  <2>2. \A o, p, x : o \in {"sent", "failed"} =>
          (OnWire(o, p, x)' <=> OnWire(o, p, x) /\ ~(o = q.op /\ p = r /\ x = s))
    BY <1>2
  <2>3. /\ \A x \in Subscriptions : x # s => ledger'[x] = ledger[x]
        /\ \/ ledger'[s] = ledger[s]
           \/ Open(ledger[s]) /\ ledger'[s] = Row(q.op, q.op)
    BY <1>5, <2>1 DEF Arrive, ServeDelivery, ServeTransition, Transits, RowAfter, TypeOK,
       Open, Transition
  <2>4. \A p \in Runs : InHand(p, s) => p = r
    BY <1>5, <2>1 DEF OneHolder, InHand
  <2>5. /\ q.op = "failed" => /\ task[r][s] \in {"book_failed", "book_gone", "failed"}
                              /\ ~OnWire("sent", r, s)
                              /\ accepted[s] = misreported[s]
        /\ q.op = "sent" => /\ task[r][s] \in {"mark_unknown", "failed"}
                            /\ ~OnWire("failed", r, s)
                            /\ accepted[s] = misreported[s] + 1
    BY <2>1 DEF WireAfterTask, HeldBalance
  <2> HIDE DEF s, r
  <2> USE DEF InHand, Open, Refused, Taken, Row
  <2>6. RowShape' BY <1>5, <2>3 DEF RowShape
  <2>7. OneHolder' BY <1>1, <2>2 DEF OneHolder
  <2>8. WireAfterTask' BY <1>1, <2>2 DEF WireAfterTask
  <2>9. HeldIsOpen'
    BY <1>1, <1>5, <2>1, <2>2, <2>3, <2>4, <2>5 DEF HeldIsOpen
  <2>10. HeldBalance' BY <1>1, <2>2 DEF HeldBalance
  <2>11. RowBalance' BY <1>1, <1>5, <2>3, <2>5 DEF RowBalance
  <2>12. CountedIsSent' BY <1>1, <2>3 DEF CountedIsSent
  <2>13. IdleIsClean' BY <1>1 DEF IdleIsClean
  <2> QED BY <2>6, <2>7, <2>8, <2>9, <2>10, <2>11, <2>12, <2>13
<1> QED BY <1>1, <1>3, <1>4, <1>5 DEF Request, Transition

LEMMA DeliveryStepKeeps ==
  ASSUME TypeOK, DeliveryInv, [Next]_vars
  PROVE  DeliveryInv'
<1>1. ASSUME NEW r \in Runs, NEW s \in Subscriptions, DeliveryStep(r, s) PROVE DeliveryInv'
  BY <1>1, ClaimDeliveryKeeps, MarkSendingKeeps, ProviderKeeps, MarkSentKeeps,
     MarkUnknownKeeps, MarkFailedKeeps, BookFailureKeeps DEF DeliveryStep
<1>2. ASSUME NEW r \in Runs, ClaimCampaign(r) \/ Finalize(r) PROVE DeliveryInv'
  <2>1. /\ UNCHANGED <<task, ledger, accepted, misreported>>
        /\ \A q \in Runs : phase'[q] = "idle" => phase[q] = "idle"
    BY <1>2 DEF ClaimCampaign, Finalize, ServeCampaign, ServeFinalize, NoAnswer, Goto,
       ghosts, TypeOK
  <2>2. \A q, s : \A op \in {"sent", "failed"} : OnWire(op, q, s)' <=> OnWire(op, q, s)
    BY <1>2, WireKept, WireGains DEF ClaimCampaign, Finalize
  <2> QED BY <2>1, <2>2, CampaignStepKeeps
<1>3. ASSUME UNCHANGED <<task, ledger, wire, accepted, misreported>>,
             \A q \in Runs : phase'[q] = "idle" => phase[q] = "idle"
      PROVE  DeliveryInv'
  BY <1>3, WireKept, CampaignStepKeeps
<1>4. ASSUME NEW r \in Runs, Prepare(r) \/ CloseLog(r) \/ Crash(r) PROVE DeliveryInv'
  BY <1>3, <1>4 DEF Prepare, CloseLog, Crash, Goto, database, ghosts, TypeOK
<1>5. ASSUME \/ Tick \/ UNCHANGED vars
             \/ \E s \in Subscriptions : Unsubscribe(s) \/ Subscribe(s)
      PROVE  DeliveryInv'
  BY <1>3, <1>5 DEF Tick, Unsubscribe, Subscribe, vars, database, ghosts
<1> QED BY <1>1, <1>2, <1>4, <1>5, ReadAudienceKeeps, ArriveKeeps DEF Next, RunStep

LEMMA Inductive == Spec => [](TypeOK /\ DeliveryInv)
<1>1. Init => TypeOK /\ DeliveryInv
  BY TypeInit, DeliveryInit
<1>2. TypeOK /\ DeliveryInv /\ [Next]_vars => TypeOK' /\ DeliveryInv'
  BY TypeStep, DeliveryStepKeeps
<1> QED BY <1>1, <1>2, PTL DEF Spec

(* However runs overlap, crash, lose answers or are served late, the push  *)
(* service takes at most one push per subscription beyond those it took    *)
(* and then reported as failed.                                            *)
THEOREM AtMostOnce == Spec => []AcceptedOnce
<1>1. TypeOK /\ DeliveryInv => AcceptedOnce
  BY DEF DeliveryInv, RowBalance, AcceptedOnce, TypeOK
<1> QED BY <1>1, Inductive, PTL

(* No run counts, and no ledger row says, "sent" of a push that was not     *)
(* confirmed.                                                              *)
THEOREM SentIsNeverALie == Spec => []SentIsTrue
<1>1. TypeOK /\ DeliveryInv => SentIsTrue
  BY DEF DeliveryInv, RowBalance, CountedIsSent, SentIsTrue, TypeOK
<1> QED BY <1>1, Inductive, PTL

(* Whatever the next run may send again was not confirmed before.          *)
THEOREM ResendIsAlwaysSafe == Spec => []ResendIsSafe
<1>1. TypeOK /\ DeliveryInv => ResendIsSafe
  BY DEF DeliveryInv, RowBalance, ResendIsSafe, Claimable, Open, TypeOK
<1> QED BY <1>1, Inductive, PTL

------------------------------------------------------------------------------
(* Closing the campaign.  The run whose token the campaign carries has     *)
(* read its audience, which no later step changes, and has told its        *)
(* members in the app; rows that say "sent" keep saying so.                *)
InAppOnce == \A m \in Members : inApp[m] \in {0, 1}
IdleSendsNothing == \A q \in wire : phase[q.run] # "idle"
TokenIsKnown ==
  /\ campaign.status # "absent" => campaign.token # None
  /\ campaign.token # None => phase[campaign.token] # "idle"
TokenHasTold ==
  campaign.token # None => \A m \in recipients[campaign.token] : inApp[m] = 1

ClosedInv ==
  /\ InAppOnce /\ IdleSendsNothing /\ TokenIsKnown /\ TokenHasTold
  /\ ClosedMeansDelivered

PushInv == TypeOK /\ DeliveryInv /\ ClosedInv

(* No step makes a run idle again, or changes what a started run has read. *)
Onward ==
  \A r \in Runs :
    /\ phase'[r] = "idle" => phase[r] = "idle"
    /\ phase[r] # "idle" => recipients'[r] = recipients[r] /\ audience'[r] = audience[r]

LEMMA RunsMoveOn ==
  ASSUME TypeOK, [Next]_vars
  PROVE  Onward
<1>1. ASSUME NEW r \in Runs, ReadAudience(r) PROVE Onward
  BY <1>1 DEF ReadAudience, Goto, TypeOK, Onward
<1>2. ASSUME NEW r \in Runs, UNCHANGED plan,
             ClaimCampaign(r) \/ Prepare(r) \/ CloseLog(r) \/ Finalize(r) \/ Crash(r)
      PROVE  Onward
  BY <1>2 DEF ClaimCampaign, Prepare, CloseLog, Finalize, Crash, Goto, TypeOK, Onward, plan
<1>3. ASSUME UNCHANGED <<phase, plan>> PROVE Onward
  BY <1>3 DEF Onward, plan
<1>4. ASSUME NEW r \in Runs, NEW s \in Subscriptions, DeliveryStep(r, s)
      PROVE  UNCHANGED <<phase, plan>>
  BY <1>4 DEF DeliveryStep, ClaimDelivery, MarkSending, ProviderAccepts, ProviderRejects,
     ProviderConfirms, ProviderGoesSilent, MarkSent, MarkUnknown, MarkFailed, BookFailure
<1>5. ASSUME NEW r \in Runs, RunStep(r) \/ Crash(r) PROVE Onward
  <2>1. CASE ReadAudience(r)
    BY <1>1, <2>1
  <2>2. CASE ClaimCampaign(r) \/ Prepare(r) \/ CloseLog(r) \/ Finalize(r) \/ Crash(r)
    <3>1. UNCHANGED plan
      BY <2>2 DEF ClaimCampaign, Prepare, CloseLog, Finalize, Crash
    <3> QED
      BY <1>2, <2>2, <3>1
  <2>3. CASE \E s \in Subscriptions : DeliveryStep(r, s)
    BY <1>3, <1>4, <2>3
  <2> QED
    BY <1>5, <2>1, <2>2, <2>3 DEF RunStep
<1>6. ASSUME NEW q \in wire, Arrive(q) PROVE Onward
  BY <1>3, <1>6 DEF Arrive
<1>7. CASE Tick \/ UNCHANGED vars \/ \E s \in Subscriptions : Unsubscribe(s) \/ Subscribe(s)
  BY <1>3, <1>7 DEF Tick, Unsubscribe, Subscribe, vars
<1> QED
  BY <1>5, <1>6, <1>7 DEF Next

(* How the campaign row moves: a claim or a close, asked for by a run that *)
(* has started, and served while nothing else changes.                     *)
Still == UNCHANGED <<ledger, plan, accepted, misreported>>
CampaignRests == UNCHANGED <<campaign, inApp>>
CampaignIsServed(r) ==
  /\ phase[r] # "idle" /\ Still
  /\ \/ ServeCampaign(r)
     \/ ServeFinalize(r) /\ UNCHANGED task

LEMMA CampaignMoves ==
  ASSUME TypeOK, IdleSendsNothing, [Next]_vars
  PROVE  CampaignRests \/ \E r \in Runs : CampaignIsServed(r)
<1>1. ASSUME NEW r \in Runs, ClaimCampaign(r)
      PROVE  CampaignRests \/ CampaignIsServed(r)
  <2>1. phase[r] # "idle" /\ UNCHANGED <<plan, accepted, misreported>>
    BY <1>1 DEF ClaimCampaign, ghosts
  <2>2. ServeCampaign(r) => UNCHANGED ledger
    BY DEF ServeCampaign
  <2> QED
    BY <1>1, <2>1, <2>2 DEF ClaimCampaign, NoAnswer, CampaignRests, CampaignIsServed, Still
<1>2. ASSUME NEW r \in Runs, Finalize(r)
      PROVE  CampaignRests \/ CampaignIsServed(r)
  <2>1. phase[r] # "idle" /\ UNCHANGED <<plan, accepted, misreported, task>>
    BY <1>2 DEF Finalize, ghosts
  <2>2. ServeFinalize(r) => UNCHANGED ledger
    BY DEF ServeFinalize
  <2> QED
    BY <1>2, <2>1, <2>2 DEF Finalize, NoAnswer, CampaignRests, CampaignIsServed, Still
<1>3. ASSUME NEW q \in wire, Arrive(q)
      PROVE  CampaignRests \/ \E r \in Runs : CampaignIsServed(r)
  <2>1. q \in Request /\ phase[q.run] # "idle" /\ UNCHANGED <<plan, accepted, misreported, task>>
    BY <1>3 DEF Arrive, TypeOK, IdleSendsNothing, ghosts
  <2>2. q.run \in Runs
    BY <2>1 DEF Request
  <2>3. CASE ServeCampaign(q.run)
    BY <2>1, <2>2, <2>3 DEF ServeCampaign, CampaignIsServed, Still
  <2>4. CASE ServeFinalize(q.run)
    BY <2>1, <2>2, <2>4 DEF ServeFinalize, CampaignIsServed, Still
  <2>5. CASE ServeDelivery(q.sub) \/ ServeTransition(q.sub, q.op)
    BY <2>5 DEF ServeDelivery, ServeTransition, CampaignRests
  <2> QED
    BY <1>3, <2>3, <2>4, <2>5 DEF Arrive
<1>4. ASSUME NEW r \in Runs, NEW s \in Subscriptions, DeliveryStep(r, s)
      PROVE  CampaignRests
  BY <1>4 DEF DeliveryStep, ClaimDelivery, MarkSending, ProviderAccepts, ProviderRejects,
     ProviderConfirms, ProviderGoesSilent, MarkSent, MarkUnknown, MarkFailed, BookFailure,
     ServeDelivery, ServeTransition, NoAnswer, CampaignRests, database
<1>5. ASSUME NEW r \in Runs, ReadAudience(r) \/ Prepare(r) \/ CloseLog(r) \/ Crash(r)
      PROVE  CampaignRests
  BY <1>5 DEF ReadAudience, Prepare, CloseLog, Crash, CampaignRests, database
<1>6. CASE Tick \/ UNCHANGED vars \/ \E s \in Subscriptions : Unsubscribe(s) \/ Subscribe(s)
  BY <1>6 DEF Tick, Unsubscribe, Subscribe, vars, CampaignRests, database
<1> QED
  BY <1>1, <1>2, <1>3, <1>4, <1>5, <1>6 DEF Next, RunStep

(* A request is left on the wire by a run that goes on or ends.            *)
LEMMA WireStep ==
  ASSUME TypeOK, IdleSendsNothing, [Next]_vars
  PROVE  IdleSendsNothing'
<1>1. ASSUME NEW r \in Runs, NEW op, NEW s, NoAnswer(op, r, s), phase[r] # "idle"
      PROVE  IdleSendsNothing'
  <2>1. \A q \in wire' : q \in wire \/ q.run = r
    BY <1>1 DEF NoAnswer
  <2>2. \A q \in wire : q.run \in Runs
    BY DEF TypeOK, Request
  <2> QED
    BY <1>1, <2>1, <2>2, RunsMoveOn DEF Onward, IdleSendsNothing
<1>2. ASSUME wire' \subseteq wire PROVE IdleSendsNothing'
  <2>1. \A q \in wire : q.run \in Runs
    BY DEF TypeOK, Request
  <2> QED
    BY <1>2, <2>1, RunsMoveOn DEF Onward, IdleSendsNothing
<1>3. ASSUME NEW r \in Runs, NEW s \in Subscriptions, DeliveryStep(r, s)
      PROVE  IdleSendsNothing'
  <2>1. \/ wire' = wire
        \/ phase[r] = "deliver" /\ \E op \in {"delivery"} \cup Transition : NoAnswer(op, r, s)
    BY <1>3 DEF DeliveryStep, ClaimDelivery, MarkSending, ProviderAccepts, ProviderRejects,
       ProviderConfirms, ProviderGoesSilent, MarkSent, MarkUnknown, MarkFailed, BookFailure,
       At, Transition, database
  <2> QED
    BY <1>1, <1>2, <2>1
<1>4. ASSUME NEW r \in Runs, RunStep(r) \/ Crash(r) PROVE IdleSendsNothing'
  BY <1>1, <1>2, <1>3, <1>4 DEF RunStep, Crash, ReadAudience, ClaimCampaign, Prepare, CloseLog,
     Finalize, database
<1>5. ASSUME NEW q \in wire, Arrive(q) PROVE IdleSendsNothing'
  BY <1>2, <1>5 DEF Arrive
<1>6. CASE Tick \/ UNCHANGED vars \/ \E s \in Subscriptions : Unsubscribe(s) \/ Subscribe(s)
  BY <1>2, <1>6 DEF Tick, Unsubscribe, Subscribe, vars, database
<1> QED
  BY <1>4, <1>5, <1>6 DEF Next

------------------------------------------------------------------------------
(* How a ledger row moves, as PushPromise sees it: nowhere; or the row of   *)
(* one subscription, for which nobody holds a push when it is put back and *)
(* somebody does when it is marked sent.                                   *)
Holds(s) == accepted[s] # misreported[s]
Turns(s) ==
  \/ StateOf(ledger[s]) = "owed" /\ StateOf(ledger'[s]) = "trying"
  \/ StateOf(ledger[s]) = "trying" /\ StateOf(ledger'[s]) = "owed" /\ ~Holds(s)
  \/ StateOf(ledger[s]) = "trying" /\ StateOf(ledger'[s]) = "delivered" /\ Holds(s)
  \/ StateOf(ledger[s]) \in {"owed", "trying"} /\ StateOf(ledger'[s]) = "unknown"
RowMoves(s) ==
  /\ \A x \in Subscriptions \ {s} : ledger'[x] = ledger[x]
  /\ StateOf(ledger'[s]) = StateOf(ledger[s]) \/ Turns(s)

LEMMA DeliveryMoves ==
  ASSUME TypeOK, DeliveryInv, NEW s \in Subscriptions, ServeDelivery(s)
  PROVE  RowMoves(s)
<1>1. /\ \A x \in Subscriptions \ {s} : ledger'[x] = ledger[x]
      /\ ledger'[s] = RowAfterClaim(ledger[s])
  BY DEF ServeDelivery, TypeOK
<1>2. CASE Claimable(ledger[s])
  <2>1. ledger'[s] = Row("pending", "claimed")
    BY <1>1, <1>2 DEF RowAfterClaim, Claimable, Abandoned
  <2>2. StateOf(ledger[s]) = "owed"
    BY <1>2 DEF Claimable, StateOf, DeliveryInv, RowShape
  <2> QED
    BY <1>1, <2>1, <2>2 DEF StateOf, Row, RowMoves
<1>3. CASE ~Claimable(ledger[s]) /\ Abandoned(ledger[s])
  <2>1. ledger'[s] = Row("pending", "needs_reconciliation")
    BY <1>1, <1>3 DEF RowAfterClaim
  <2>2. StateOf(ledger[s]) = "trying"
    BY <1>3 DEF Abandoned, StateOf
  <2> QED
    BY <1>1, <2>1, <2>2 DEF StateOf, Row, RowMoves, Turns
<1>4. CASE ~Claimable(ledger[s]) /\ ~Abandoned(ledger[s])
  BY <1>1, <1>4 DEF RowAfterClaim, RowMoves
<1> QED
  BY <1>2, <1>3, <1>4

LEMMA TransitionMoves ==
  ASSUME TypeOK, DeliveryInv, NEW s \in Subscriptions, NEW to \in Transition,
         ServeTransition(s, to), to = "sent" => Holds(s), to = "failed" => ~Holds(s)
  PROVE  RowMoves(s)
<1>1. /\ \A x \in Subscriptions \ {s} : ledger'[x] = ledger[x]
      /\ ledger'[s] = IF Transits(ledger[s], to) THEN RowAfter(to) ELSE ledger[s]
  BY DEF ServeTransition, TypeOK
<1>2. CASE ~Transits(ledger[s], to)
  BY <1>1, <1>2 DEF RowMoves
<1>3. CASE Transits(ledger[s], to)
  <2>1. ledger'[s] = RowAfter(to) /\ ledger[s].status = "pending"
    BY <1>1, <1>3 DEF Transits
  <2>2. CASE to = "sending"
    BY <1>1, <1>3, <2>1, <2>2 DEF Transits, RowAfter, Row, StateOf, RowMoves, Turns
  <2>3. CASE to = "sent"
    BY <1>1, <1>3, <2>1, <2>3 DEF Transits, RowAfter, Row, StateOf, RowMoves, Turns
  <2>4. CASE to = "failed"
    BY <1>1, <1>3, <2>1, <2>4 DEF Transits, RowAfter, Row, StateOf, RowMoves, Turns
  <2>5. CASE to = "needs_reconciliation"
    BY <1>1, <1>3, <2>1, <2>5 DEF Transits, RowAfter, Row, StateOf, RowMoves, Turns
  <2> QED
    BY <2>2, <2>3, <2>4, <2>5 DEF Transition
<1> QED
  BY <1>2, <1>3

(* A step leaves the pushes alone, or the provider takes or disowns one.   *)
PushesRest == UNCHANGED <<accepted, misreported>>
PushTaken(s) ==
  /\ StateOf(ledger[s]) \in {"trying", "unknown"} /\ ~Holds(s)
  /\ accepted' = [accepted EXCEPT ![s] = @ + 1] /\ UNCHANGED <<misreported, ledger>>
PushDisowned(s) ==
  /\ StateOf(ledger[s]) \in {"trying", "unknown"} /\ Holds(s)
  /\ misreported' = [misreported EXCEPT ![s] = @ + 1] /\ UNCHANGED <<accepted, ledger>>
LedgerMove ==
  \/ PushesRest /\ (UNCHANGED ledger \/ \E s \in Subscriptions : RowMoves(s))
  \/ \E s \in Subscriptions : PushTaken(s) \/ PushDisowned(s)

LEMMA LedgerMoves ==
  ASSUME TypeOK, DeliveryInv, [Next]_vars
  PROVE  LedgerMove
<1>1. ASSUME NEW r \in Runs, NEW s \in Subscriptions, DeliveryStep(r, s)
      PROVE  LedgerMove
  <2>1. CASE ClaimDelivery(r, s)
    BY <2>1, DeliveryMoves DEF ClaimDelivery, NoAnswer, LedgerMove, PushesRest, ghosts
  <2>2. CASE MarkSending(r, s)
    <3>1. ServeTransition(s, "sending") => RowMoves(s)
      BY TransitionMoves DEF Transition
    <3> QED
      BY <2>2, <3>1 DEF MarkSending, NoAnswer, LedgerMove, PushesRest, ghosts
  <2>3. CASE ProviderAccepts(r, s)
    <3>1. task[r][s] \in Refused /\ task[r][s] = "send"
      BY <2>3 DEF ProviderAccepts, Refused
    <3>2. Open(ledger[s]) /\ accepted[s] = misreported[s]
      BY <3>1 DEF DeliveryInv, HeldIsOpen, HeldBalance, InHand
    <3>3. StateOf(ledger[s]) \in {"trying", "unknown"}
      BY <3>2 DEF Open, StateOf
    <3> QED
      BY <2>3, <3>2, <3>3 DEF ProviderAccepts, LedgerMove, PushTaken, Holds, database
  <2>4. CASE ProviderGoesSilent(r, s)
    <3>1. task[r][s] \in Taken /\ task[r][s] = "accepted"
      BY <2>4 DEF ProviderGoesSilent, At, Taken
    <3>2. Open(ledger[s])
      BY <3>1 DEF DeliveryInv, HeldIsOpen, InHand
    <3>3. accepted[s] = misreported[s] + 1
      BY <3>1 DEF DeliveryInv, HeldBalance
    <3>4. StateOf(ledger[s]) \in {"trying", "unknown"}
      BY <3>2 DEF Open, StateOf
    <3>5. Holds(s)
      BY <3>3 DEF Holds, TypeOK
    <3> QED
      BY <2>4, <3>4, <3>5 DEF ProviderGoesSilent, LedgerMove, PushDisowned, database
  <2>5. CASE MarkSent(r, s)
    <3>1. accepted[s] = misreported[s] + 1
      BY <2>5 DEF MarkSent, At, DeliveryInv, HeldBalance, Taken
    <3>2. Holds(s)
      BY <3>1 DEF Holds, TypeOK
    <3>3. ServeTransition(s, "sent") => RowMoves(s)
      BY <3>2, TransitionMoves DEF Transition
    <3> QED
      BY <2>5, <3>3 DEF MarkSent, NoAnswer, LedgerMove, PushesRest, ghosts
  <2>6. CASE MarkUnknown(r, s)
    <3>1. ServeTransition(s, "needs_reconciliation") => RowMoves(s)
      BY TransitionMoves DEF Transition
    <3> QED
      BY <2>6, <3>1 DEF MarkUnknown, NoAnswer, LedgerMove, PushesRest, ghosts
  <2>7. CASE MarkFailed(r, s)
    <3>1. ~Holds(s)
      BY <2>7 DEF MarkFailed, At, DeliveryInv, HeldBalance, Refused, Holds
    <3>2. ServeTransition(s, "failed") => RowMoves(s)
      BY <3>1, TransitionMoves DEF Transition
    <3> QED
      BY <2>7, <3>2 DEF MarkFailed, NoAnswer, LedgerMove, PushesRest, ghosts
  <2>8. CASE ProviderRejects(r, s) \/ ProviderConfirms(r, s) \/ BookFailure(r, s)
    BY <2>8 DEF ProviderRejects, ProviderConfirms, BookFailure, LedgerMove, PushesRest,
       ghosts, database
  <2> QED
    BY <1>1, <2>1, <2>2, <2>3, <2>4, <2>5, <2>6, <2>7, <2>8 DEF DeliveryStep
<1>2. ASSUME NEW q \in wire, Arrive(q) PROVE LedgerMove
  <2>1. q \in Request /\ PushesRest
    BY <1>2 DEF Arrive, TypeOK, PushesRest, ghosts
  <2>2. CASE \/ q.op = "campaign" /\ ServeCampaign(q.run)
             \/ q.op = "finalize" /\ ServeFinalize(q.run)
    BY <2>1, <2>2 DEF ServeCampaign, ServeFinalize, LedgerMove
  <2>3. CASE q.op = "delivery" /\ ServeDelivery(q.sub)
    <3>1. q.sub \in Subscriptions
      BY <2>1, <2>3 DEF Request
    <3> QED
      BY <2>1, <2>3, <3>1, DeliveryMoves DEF LedgerMove
  <2>4. CASE q.op \in Transition /\ ServeTransition(q.sub, q.op)
    <3>1. q.sub \in Subscriptions /\ q.run \in Runs /\ OnWire(q.op, q.run, q.sub)
      BY <2>1, <2>4 DEF Request, Transition, OnWire
    <3>2. /\ q.op = "failed" => accepted[q.sub] = misreported[q.sub]
          /\ q.op = "sent" => accepted[q.sub] = misreported[q.sub] + 1
      BY <3>1 DEF DeliveryInv, HeldBalance
    <3>3. (q.op = "sent" => Holds(q.sub)) /\ (q.op = "failed" => ~Holds(q.sub))
      BY <3>1, <3>2 DEF Holds, TypeOK
    <3>4. RowMoves(q.sub)
      BY <2>4, <3>1, <3>3, TransitionMoves
    <3> QED
      BY <2>1, <3>1, <3>4 DEF LedgerMove
  <2>5. \/ q.op = "campaign" /\ ServeCampaign(q.run)
        \/ q.op = "finalize" /\ ServeFinalize(q.run)
        \/ q.op = "delivery" /\ ServeDelivery(q.sub)
        \/ q.op \in Transition /\ ServeTransition(q.sub, q.op)
    BY <1>2 DEF Arrive
  <2> QED
    BY <2>2, <2>3, <2>4, <2>5
<1>3. ASSUME NEW r \in Runs, \/ ReadAudience(r) \/ ClaimCampaign(r) \/ Prepare(r)
                             \/ CloseLog(r) \/ Finalize(r) \/ Crash(r)
      PROVE  LedgerMove
  BY <1>3 DEF ReadAudience, ClaimCampaign, Prepare, CloseLog, Finalize, Crash, ServeCampaign,
     ServeFinalize, NoAnswer, LedgerMove, PushesRest, ghosts, database
<1>4. CASE Tick \/ UNCHANGED vars \/ \E s \in Subscriptions : Unsubscribe(s) \/ Subscribe(s)
  BY <1>4 DEF Tick, Unsubscribe, Subscribe, vars, LedgerMove, PushesRest, ghosts, database
<1> QED
  BY <1>1, <1>2, <1>3, <1>4 DEF Next, RunStep

(* A row marked sent stays so.                                             *)
LEMMA SentStays ==
  ASSUME TypeOK, DeliveryInv, [Next]_vars, NEW s \in Subscriptions, ledger[s].status = "sent"
  PROVE  ledger'[s].status = "sent"
<1>1. StateOf(ledger[s]) = "delivered"
  BY DEF StateOf, DeliveryInv, RowShape
<1>2. StateOf(ledger'[s]) = "delivered"
  BY <1>1, LedgerMoves DEF LedgerMove, RowMoves, Turns, PushTaken, PushDisowned
<1> QED
  BY <1>2 DEF StateOf

LEMMA ClosedInit == Init => ClosedInv
BY DEF Init, ClosedInv, InAppOnce, IdleSendsNothing, TokenIsKnown, TokenHasTold,
       ClosedMeansDelivered

(* A run closes the campaign as "sent" only over pushes it counts as sent,  *)
(* and those are.                                                          *)
LEMMA SentCoversAll ==
  ASSUME TypeOK, DeliveryInv, NEW r \in Runs, OperationStatus(r) = "sent"
  PROVE  \A s \in audience[r] : ledger[s].status = "sent"
<1>1. {s \in audience[r] : task[r][s] = "sent"} = audience[r]
  BY DEF OperationStatus
<1>2. \A s \in audience[r] : s \in Subscriptions /\ task[r][s] = "sent"
  BY <1>1 DEF TypeOK
<1> QED
  BY <1>2 DEF DeliveryInv, CountedIsSent

LEMMA CampaignRecord ==
  ASSUME TypeOK
  PROVE  campaign.status \in CampaignStatus /\ campaign.token \in Runs \cup {None}
BY DEF TypeOK

LEMMA ClosedStep ==
  ASSUME TypeOK, DeliveryInv, ClosedInv, [Next]_vars
  PROVE  ClosedInv'
<1> USE DEF ClosedInv
<1>1. Onward /\ IdleSendsNothing'
  BY RunsMoveOn, WireStep
<1>2. CASE CampaignRests
  <2>1. UNCHANGED <<campaign, inApp>>
    BY <1>2 DEF CampaignRests
  <2>2. InAppOnce'
    BY <2>1 DEF InAppOnce
  <2>3. campaign.token # None => campaign.token \in Runs /\ phase[campaign.token] # "idle"
    BY CampaignRecord DEF TokenIsKnown
  <2>4. TokenIsKnown'
    BY <1>1, <2>1, <2>3 DEF TokenIsKnown, Onward
  <2>5. campaign.token # None => /\ recipients'[campaign.token] = recipients[campaign.token]
                                 /\ audience'[campaign.token] = audience[campaign.token]
    BY <1>1, <2>3 DEF Onward
  <2>6. TokenHasTold'
    BY <2>1, <2>5 DEF TokenHasTold
  <2>7. ASSUME campaign.status = "sent"
        PROVE  \A s \in audience[campaign.token] : ledger'[s].status = "sent"
    <3>1. campaign.token \in Runs
      BY <2>3, <2>7 DEF TokenIsKnown
    <3>2. \A s \in audience[campaign.token] : s \in Subscriptions /\ ledger[s].status = "sent"
      BY <2>7, <3>1 DEF ClosedMeansDelivered, TypeOK
    <3> QED
      BY <3>2, SentStays
  <2>8. ClosedMeansDelivered'
    BY <2>1, <2>5, <2>7 DEF ClosedMeansDelivered, TokenIsKnown
  <2> QED
    BY <1>1, <2>2, <2>4, <2>6, <2>8
<1>3. ASSUME NEW r \in Runs, CampaignIsServed(r) PROVE ClosedInv'
  <2>1. phase[r] # "idle" /\ phase'[r] # "idle" /\ UNCHANGED <<ledger, recipients, audience>>
    BY <1>1, <1>3 DEF CampaignIsServed, Still, plan, Onward
  <2>2. r # None
    BY NoneAssumption
  <2>3. campaign.token # None => campaign.token \in Runs /\ phase'[campaign.token] # "idle"
    BY <1>1, CampaignRecord DEF TokenIsKnown, Onward
  <2>4. CASE UNCHANGED <<campaign, inApp>>
    BY <1>1, <2>1, <2>3, <2>4 DEF InAppOnce, TokenIsKnown, TokenHasTold, ClosedMeansDelivered
  <2>5. ASSUME campaign' = [status |-> "pending", token |-> r, lease |-> now + CampaignLease],
               inApp' = [m \in Members |->
                           IF m \in recipients[r] /\ inApp[m] = 0 THEN 1 ELSE inApp[m]]
        PROVE  ClosedInv'
    <3>1. campaign'.status = "pending" /\ campaign'.token = r
      BY <2>5
    <3>2. \A m \in Members : inApp'[m] \in {0, 1} /\ (m \in recipients[r] => inApp'[m] = 1)
      BY <2>5 DEF InAppOnce
    <3>3. recipients[r] \subseteq Members
      BY DEF TypeOK
    <3> QED
      BY <1>1, <2>1, <2>2, <3>1, <3>2, <3>3
      DEF InAppOnce, TokenIsKnown, TokenHasTold, ClosedMeansDelivered
  <2>6. ASSUME campaign.status = "pending", campaign.token = r, UNCHANGED inApp,
               campaign' = [status |-> OperationStatus(r), token |-> r, lease |-> 0]
        PROVE  ClosedInv'
    <3>1. campaign'.status = OperationStatus(r) /\ campaign'.token = r
      BY <2>6
    <3>2. InAppOnce' /\ TokenIsKnown'
      BY <2>1, <2>2, <2>6, <3>1 DEF InAppOnce, TokenIsKnown
    <3>3. \A m \in recipients[r] : inApp[m] = 1
      BY <2>2, <2>6 DEF TokenHasTold
    <3>4. TokenHasTold'
      BY <2>1, <2>6, <3>1, <3>3 DEF TokenHasTold
    <3>5. ClosedMeansDelivered'
      BY <2>1, <2>6, <3>1, <3>3, SentCoversAll DEF ClosedMeansDelivered
    <3> QED
      BY <1>1, <3>2, <3>4, <3>5
  <2> QED
    BY <1>3, <2>4, <2>5, <2>6 DEF CampaignIsServed, ServeCampaign, ServeFinalize
<1> QED
  BY <1>2, <1>3, CampaignMoves

LEMMA PushInvariant == Spec => []PushInv
<1>1. Init => PushInv
  BY TypeInit, DeliveryInit, ClosedInit DEF PushInv
<1>2. PushInv /\ [Next]_vars => PushInv'
  BY TypeStep, DeliveryStepKeeps, ClosedStep DEF PushInv
<1> QED
  BY <1>1, <1>2, PTL DEF Spec

(* A campaign closed as "sent" covers the whole audience and every         *)
(* recipient of the run that closed it, whatever other runs, late requests *)
(* and crashes did meanwhile.                                              *)
THEOREM ClosedIsComplete == Spec => []ClosedMeansDelivered
<1>1. PushInv => ClosedMeansDelivered
  BY DEF PushInv, ClosedInv
<1> QED
  BY <1>1, PushInvariant, PTL

------------------------------------------------------------------------------
(* While its lease runs, a pending campaign keeps its token.               *)
LEMMA TokenStays ==
  ASSUME TypeOK, IdleSendsNothing, [Next]_vars, campaign.status = "pending", campaign.lease > now
  PROVE  campaign'.token = campaign.token
<1>1. CASE CampaignRests
  BY <1>1 DEF CampaignRests
<1>2. ASSUME NEW r \in Runs, CampaignIsServed(r) PROVE campaign'.token = campaign.token
  <2>1. CampaignDisposition = "in_progress"
    BY DEF CampaignDisposition
  <2>2. ServeCampaign(r) => campaign' = campaign
    BY <2>1 DEF ServeCampaign
  <2>3. ServeFinalize(r) => campaign'.token = campaign.token
    BY DEF ServeFinalize
  <2> QED
    BY <1>2, <2>2, <2>3 DEF CampaignIsServed
<1> QED
  BY <1>1, <1>2, CampaignMoves

(* A stale run, or its late request, neither takes a leased campaign over  *)
(* nor closes it in its own name.                                          *)
THEOREM LeaseHolds == Spec => LeaseIsExclusive
<1>1. PushInv /\ [Next]_vars =>
        [campaign.status = "pending" /\ campaign.lease > now
           => campaign'.token = campaign.token]_vars
  BY TokenStays DEF PushInv, ClosedInv
<1> QED
  BY <1>1, PushInvariant, PTL DEF Spec, LeaseIsExclusive

------------------------------------------------------------------------------
(* What the finished campaign answers for, as PushPromise sees it: nothing  *)
(* until it is closed as "sent", then its audience for good.               *)
Covered == IF campaign.status = "sent" THEN audience[campaign.token] ELSE {}
Completes ==
  /\ Covered = {} /\ Covered' \subseteq Subscriptions
  /\ \A s \in Covered' : StateOf(ledger[s]) = "delivered"
  /\ UNCHANGED <<ledger, accepted, misreported>>

LEMMA CoveredMoves ==
  ASSUME PushInv, [Next]_vars
  PROVE  Covered' = Covered \/ Completes
<1> USE DEF PushInv, ClosedInv
<1>1. Onward
  BY RunsMoveOn
<1>2. CASE CampaignRests
  <2>1. campaign.status = "sent" => campaign.token \in Runs /\ phase[campaign.token] # "idle"
    BY CampaignRecord DEF TokenIsKnown
  <2>2. campaign.status = "sent" => audience'[campaign.token] = audience[campaign.token]
    BY <1>1, <2>1 DEF Onward
  <2> QED
    BY <1>2, <2>2 DEF Covered, CampaignRests
<1>3. ASSUME NEW r \in Runs, CampaignIsServed(r) PROVE Covered' = Covered \/ Completes
  <2>1. UNCHANGED <<ledger, audience, accepted, misreported>>
    BY <1>3 DEF CampaignIsServed, Still, plan
  <2>2. CASE campaign' = campaign
    BY <2>1, <2>2 DEF Covered
  <2>3. ASSUME campaign.status # "sent", campaign'.status = "pending" PROVE Covered' = Covered
    BY <2>3 DEF Covered
  <2>4. ASSUME campaign.status = "pending",
               campaign' = [status |-> OperationStatus(r), token |-> r, lease |-> 0]
        PROVE  Covered' = Covered \/ Completes
    <3>1. campaign'.status = OperationStatus(r) /\ campaign'.token = r
      BY <2>4
    <3>2. CASE OperationStatus(r) # "sent"
      BY <2>4, <3>1, <3>2 DEF Covered
    <3>3. CASE OperationStatus(r) = "sent"
      <4>1. Covered = {} /\ Covered' = audience[r]
        BY <2>1, <2>4, <3>1, <3>3 DEF Covered
      <4>2. audience[r] \subseteq Subscriptions
        BY DEF TypeOK
      <4>3. \A s \in audience[r] : StateOf(ledger[s]) = "delivered"
        BY <3>3, <4>2, SentCoversAll DEF StateOf, DeliveryInv, RowShape
      <4> QED
        BY <2>1, <4>1, <4>2, <4>3 DEF Completes
    <3> QED
      BY <3>2, <3>3
  <2>5. CASE ServeCampaign(r)
    <3>1. CampaignDisposition \in {"claimed", "resumed"} => campaign.status # "sent"
      BY DEF CampaignDisposition
    <3> QED
      BY <2>2, <2>3, <2>5, <3>1 DEF ServeCampaign
  <2>6. CASE ServeFinalize(r)
    BY <2>2, <2>4, <2>6 DEF ServeFinalize
  <2> QED
    BY <1>3, <2>5, <2>6 DEF CampaignIsServed
<1> QED
  BY <1>2, <1>3, CampaignMoves

(* The two agree on what a row means and what a campaign covers, and each  *)
(* step of the delivery is a step of the promise or none.                  *)
PromiseState == [s \in Subscriptions |-> StateOf(ledger[s])]

LEMMA PromiseStep ==
  ASSUME PushInv, [Next]_vars
  PROVE  [Promise!Next]_(Promise!vars)
<1>1. PromiseState' = [s \in Subscriptions |-> StateOf(ledger'[s])]
  BY DEF PromiseState
<1>2. CASE Completes
  <2>1. Promise!Complete(Covered')
    BY <1>2 DEF Completes, Promise!Complete, Covered
  <2>2. Covered' \in SUBSET Subscriptions
    BY <1>2 DEF Completes
  <2> QED
    BY <2>1, <2>2 DEF Promise!Next
<1>3. ASSUME Covered' = Covered, NEW s \in Subscriptions, RowMoves(s), PushesRest
      PROVE  [Promise!Next]_(Promise!vars)
  <2>1. PromiseState' = [PromiseState EXCEPT ![s] = StateOf(ledger'[s])]
    BY <1>1, <1>3 DEF RowMoves, PromiseState
  <2>2. CASE StateOf(ledger'[s]) = StateOf(ledger[s])
    <3>1. PromiseState' = PromiseState
      BY <2>1, <2>2 DEF PromiseState
    <3> QED
      BY <1>3, <3>1 DEF Promise!vars, PromiseState, Covered, PushesRest
  <2>3. CASE StateOf(ledger[s]) = "owed" /\ StateOf(ledger'[s]) = "trying"
    <3>1. Promise!Try(s)
      BY <1>3, <2>1, <2>3 DEF Promise!Try, PromiseState, Covered, PushesRest
    <3> QED
      BY <3>1 DEF Promise!Next
  <2>4. CASE StateOf(ledger[s]) = "trying" /\ StateOf(ledger'[s]) = "owed" /\ ~Holds(s)
    <3>1. Promise!Refuse(s)
      BY <1>3, <2>1, <2>4 DEF Promise!Refuse, Promise!Holds, Holds, PromiseState, Covered, PushesRest
    <3> QED
      BY <3>1 DEF Promise!Next
  <2>5. CASE StateOf(ledger[s]) = "trying" /\ StateOf(ledger'[s]) = "delivered" /\ Holds(s)
    <3>1. Promise!Confirm(s)
      BY <1>3, <2>1, <2>5 DEF Promise!Confirm, Promise!Holds, Holds, PromiseState, Covered, PushesRest
    <3> QED
      BY <3>1 DEF Promise!Next
  <2>6. CASE StateOf(ledger[s]) \in {"owed", "trying"} /\ StateOf(ledger'[s]) = "unknown"
    <3>1. Promise!GiveUp(s)
      BY <1>3, <2>1, <2>6 DEF Promise!GiveUp, PromiseState, Covered, PushesRest
    <3> QED
      BY <3>1 DEF Promise!Next
  <2> QED
    BY <1>3, <2>2, <2>3, <2>4, <2>5, <2>6 DEF RowMoves, Turns
<1>4. ASSUME Covered' = Covered, UNCHANGED ledger, PushesRest
      PROVE  [Promise!Next]_(Promise!vars)
  BY <1>4 DEF Promise!vars, Covered, PushesRest
<1>5. ASSUME Covered' = Covered, NEW s \in Subscriptions, PushTaken(s)
      PROVE  [Promise!Next]_(Promise!vars)
  <2>1. Promise!Accept(s)
    BY <1>5 DEF Promise!Accept, Promise!Holds, Holds, PushTaken, Covered
  <2> QED
    BY <2>1 DEF Promise!Next
<1>6. ASSUME Covered' = Covered, NEW s \in Subscriptions, PushDisowned(s)
      PROVE  [Promise!Next]_(Promise!vars)
  <2>1. Promise!Misreport(s)
    BY <1>6 DEF Promise!Misreport, Promise!Holds, Holds, PushDisowned, Covered
  <2> QED
    BY <2>1 DEF Promise!Next
<1> QED
  BY <1>2, <1>3, <1>4, <1>5, <1>6, CoveredMoves, LedgerMoves DEF PushInv, LedgerMove

(* The ledger and the campaign row implement PushPromise: a subscription   *)
(* is tried, confirmed, refused or given up as promised, and a campaign    *)
(* closes once, over subscriptions that all got their push.                *)
THEOREM PushKeepsPromise == Spec => KeepsPromise
<1>1. Init => Promise!Init
  BY DEF Init, Promise!Init, Row, StateOf
<1>2. PushInv /\ [Next]_vars => [Promise!Next]_(Promise!vars)
  BY PromiseStep
<1> QED
  BY <1>1, <1>2, PushInvariant, PTL DEF Spec, KeepsPromise, Promise!Spec
=============================================================================
