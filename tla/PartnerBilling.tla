---------------------------- MODULE PartnerBilling ----------------------------
(***************************************************************************)
(* Changing the plan of a partner: a request with its invoice, confirmed,  *)
(* approved, cancelled or rejected, changes made by administrators, and    *)
(* the sweep of unpaid invoices.  Each is one database transaction that    *)
(* locks rows as it goes; a step of this module takes one lock.  Nothing   *)
(* is seen of a transaction before its last step, which commits.           *)
(*                                                                         *)
(* The payment and the tax document of an invoice are locked and changed   *)
(* under its lock and follow its status.  The partners here are brands of  *)
(* one account with one billing profile.  Whoever updates a partner's row  *)
(* also holds, from the trigger on, the one row that counts the versions   *)
(* of the public partner pages.                                            *)
(***************************************************************************)
EXTENDS Naturals, FiniteSets

CONSTANTS Partners, Requests, Companies,
          Backends,         \* connections that run the transactions
          Tiers, Basic,     \* plan tiers and the one a sweep leaves
          MaxEdits,         \* bound: changes of partners by administrators
          None

ASSUME TiersAssumption == Basic \in Tiers
ASSUME BoundsAssumption == MaxEdits \in Nat
ASSUME NoneAssumption == None \notin Backends /\ None \notin Partners \cup Requests

VARIABLES plan,             \* partners: tier, plan_updated_at, company_id
          request,          \* partner_plan_upgrade_requests
          invoice,          \* partner_billing_invoices, one to a request
          tx,               \* what each connection is doing
          owner,            \* who holds each row's lock
          edits

vars == <<plan, request, invoice, tx, owner, edits>>

Partner(p) == <<"partner", p>>
Request(r) == <<"request", r>>
Invoice(r) == <<"invoice", r>>
Account == <<"account", None>>
Profile == <<"profile", None>>
Cache == <<"public_cache_versions", None>>
Locks == {Account, Profile, Cache} \cup {Partner(p) : p \in Partners}
           \cup {Request(r) : r \in Requests} \cup {Invoice(r) : r \in Requests}

Plans == [tier : Tiers, version : Nat, company : Companies]

Idle == [op |-> "idle", step |-> "begin", partner |-> None, request |-> None,
         saw |-> None, left |-> {}, late |-> {}, done |-> {}]
NoRequest == [status |-> "none", partner |-> None, from |-> Basic, to |-> Basic,
              priced |-> Basic, company |-> None]

TypeOK ==
  /\ plan \in [Partners -> Plans]
  /\ DOMAIN request = Requests
  /\ \A r \in Requests :
       \/ request[r] = NoRequest
       \/ request[r] \in [status : {"pending", "approved", "rejected", "cancelled"},
            partner : Partners, from : Tiers, to : Tiers, priced : Tiers, company : Companies]
  /\ invoice \in [Requests -> {"none", "pending_payment", "paid", "overdue", "cancelled"}]
  /\ tx \in [Backends -> [
       op : {"idle", "create", "confirm", "cancel", "approve", "update", "edit",
             "profile", "sweep"},
       step : {"begin", "request", "invoice", "partner", "cache", "profile", "account"},
       partner : Partners \cup {None}, request : Requests \cup {None},
       saw : Plans \cup {None}, left : SUBSET Requests, late : SUBSET Requests,
       done : SUBSET Requests]]
  /\ owner \in [Locks -> Backends \cup {None}]
  /\ edits \in 0..MaxEdits

Init ==
  /\ \E tier \in [Partners -> Tiers], c \in Companies :
       plan = [p \in Partners |-> [tier |-> tier[p], version |-> 0, company |-> c]]
  /\ request = [r \in Requests |-> NoRequest]
  /\ invoice = [r \in Requests |-> "none"]
  /\ tx = [b \in Backends |-> Idle]
  /\ owner = [l \in Locks |-> None]
  /\ edits = 0

------------------------------------------------------------------------------
Free(b, l) == owner[l] \in {None, b}
Hold(b, ls) == owner' = [l \in Locks |-> IF l \in ls THEN b ELSE owner[l]]
Pending(r) == request[r].status = "pending"
InForce(p) == {r \in Requests : Pending(r) /\ request[r].partner = p}
At(b, op, step) == tx[b].op = op /\ tx[b].step = step
Begin(b, fields) == tx' = [tx EXCEPT ![b] = fields]
Goto(b, step) == tx' = [tx EXCEPT ![b].step = step]
(* Commit or roll back: the locks of the connection are let go.            *)
End(b) ==
  /\ tx' = [tx EXCEPT ![b] = Idle]
  /\ owner' = [l \in Locks |-> IF owner[l] = b THEN None ELSE owner[l]]

Rows == <<plan, request, invoice, edits>>
RollBack(b) == End(b) /\ UNCHANGED Rows

(* A failed check, a lost connection, a timeout or the deadlock detector.  *)
Abort(b) == tx[b].op # "idle" /\ RollBack(b)

------------------------------------------------------------------------------
(* createPartnerPlanUpgradeRequest prices the change on the plan it reads, *)
(* then create_partner_plan_upgrade_billing locks the partner, the billing *)
(* profile and, by the foreign key of the new row, the account.            *)
BeginCreate(b, p) ==
  /\ tx[b] = Idle
  /\ Begin(b, [Idle EXCEPT !.op = "create", !.step = "partner", !.partner = p,
                           !.saw = plan[p]])
  /\ UNCHANGED <<Rows, owner>>

CreateChecksM(b) ==         \* mutant: neither the tier nor plan_updated_at is compared
  plan[tx[b].partner].company = tx[b].saw.company

CreateChecks(b) == plan[tx[b].partner] = tx[b].saw

CreateLocksPartner(b) ==
  /\ At(b, "create", "partner") /\ Free(b, Partner(tx[b].partner)) /\ CreateChecks(b)
  /\ Hold(b, {Partner(tx[b].partner)}) /\ Goto(b, "profile")
  /\ UNCHANGED Rows

CreateLocksProfile(b) ==
  /\ At(b, "create", "profile") /\ Free(b, Profile)
  /\ Hold(b, {Profile}) /\ Goto(b, "account")
  /\ UNCHANGED Rows

InsertRequest(b, r, to) ==
  LET p == tx[b].partner IN
  /\ At(b, "create", "account") /\ Free(b, Account)
  /\ request[r].status = "none" /\ InForce(p) = {} /\ to # plan[p].tier
  /\ request' = [request EXCEPT ![r] =
       [status |-> "pending", partner |-> p, from |-> plan[p].tier, to |-> to,
        priced |-> tx[b].saw.tier, company |-> tx[b].saw.company]]
  /\ invoice' = [invoice EXCEPT ![r] = "pending_payment"]
  /\ End(b) /\ UNCHANGED <<plan, edits>>

------------------------------------------------------------------------------
(* Confirmation, cancellation or rejection, and approval: the request is   *)
(* locked, then the invoice, then, for an approval, the partner.           *)
BeginDecisionM(b, op, r) == \* mutant: an approval locks the partner first
  /\ tx[b] = Idle /\ Pending(r) /\ Free(b, Partner(request[r].partner))
  /\ Begin(b, [Idle EXCEPT !.op = op, !.step = "request", !.request = r])
  /\ Hold(b, IF op = "approve" THEN {Partner(request[r].partner)} ELSE {})
  /\ UNCHANGED Rows

BeginDecision(b, op, r) ==
  /\ tx[b] = Idle /\ Pending(r)
  /\ Begin(b, [Idle EXCEPT !.op = op, !.step = "request", !.request = r])
  /\ UNCHANGED <<Rows, owner>>

(* A cancelled or rejected request takes an open invoice with it.          *)
WithdrawM(r) ==             \* mutant: the payment's word for it
  invoice' = [invoice EXCEPT ![r] = IF @ = "pending_payment" THEN "failed" ELSE @]

Withdraw(r) ==
  invoice' = [invoice EXCEPT ![r] = IF @ = "pending_payment" THEN "cancelled" ELSE @]

Decisions == {"confirm", "cancel", "approve"}

DecisionLocksRequest(b) ==
  LET r == tx[b].request IN
  /\ tx[b].op \in Decisions /\ tx[b].step = "request"
  /\ Free(b, Request(r)) /\ Pending(r)
  /\ Hold(b, {Request(r)}) /\ Goto(b, "invoice")
  /\ UNCHANGED Rows

Confirm(b) ==
  LET r == tx[b].request IN
  /\ At(b, "confirm", "invoice") /\ Free(b, Invoice(r)) /\ invoice[r] # "cancelled"
  /\ invoice' = [invoice EXCEPT ![r] = "paid"]
  /\ End(b) /\ UNCHANGED <<plan, request, edits>>

CancelM(b, status) ==       \* mutant: a paid request can be cancelled
  LET r == tx[b].request IN
  /\ At(b, "cancel", "invoice") /\ Free(b, Invoice(r))
  /\ request' = [request EXCEPT ![r].status = status]
  /\ Withdraw(r)
  /\ End(b) /\ UNCHANGED <<plan, edits>>

Cancel(b, status) ==
  LET r == tx[b].request IN
  /\ At(b, "cancel", "invoice") /\ Free(b, Invoice(r)) /\ invoice[r] # "paid"
  /\ request' = [request EXCEPT ![r].status = status]
  /\ Withdraw(r)
  /\ End(b) /\ UNCHANGED <<plan, edits>>

ApprovalLocksInvoice(b) ==
  LET r == tx[b].request IN
  /\ At(b, "approve", "invoice") /\ Free(b, Invoice(r)) /\ invoice[r] = "paid"
  /\ Hold(b, {Invoice(r)}) /\ Goto(b, "partner")
  /\ UNCHANGED Rows

(* The trigger writes plan_updated_at whoever changes the plan.            *)
Replan(p, tier) == [plan[p] EXCEPT !.tier = tier, !.version = @ + 1]

ApprovalLocksPartner(b) ==
  LET r == tx[b].request  p == request[r].partner IN
  /\ At(b, "approve", "partner") /\ Free(b, Partner(p))
  /\ plan[p].company = request[r].company /\ plan[p].tier = request[r].from
  /\ Hold(b, {Partner(p)}) /\ Goto(b, "cache")
  /\ UNCHANGED Rows

Approve(b) ==
  LET r == tx[b].request  p == request[r].partner IN
  /\ At(b, "approve", "cache") /\ Free(b, Cache)
  /\ request' = [request EXCEPT ![r].status = "approved"]
  /\ plan' = [plan EXCEPT ![p] = Replan(p, request[r].to)]
  /\ End(b) /\ UNCHANGED <<invoice, edits>>

------------------------------------------------------------------------------
(* Administrators: updatePartnerBrandPlanByAdmin gives a partner another   *)
(* plan, update_partner_with_benefits_atomic saves the edited partner and  *)
(* may give it to another company.  The page was read before; what either  *)
(* compares (tier and plan_updated_at, or updated_at) has changed if       *)
(* anything of the plan has.                                               *)
BeginChange(b, op, p) ==
  /\ tx[b] = Idle /\ edits < MaxEdits
  /\ Begin(b, [Idle EXCEPT !.op = op, !.step = "partner", !.partner = p,
                           !.saw = plan[p]])
  /\ UNCHANGED <<Rows, owner>>

ChangeLocksPartner(b) ==
  LET p == tx[b].partner IN
  /\ tx[b].op \in {"update", "edit"} /\ tx[b].step = "partner"
  /\ Free(b, Partner(p)) /\ plan[p] = tx[b].saw
  /\ tx[b].op = "update" => InForce(p) = {}
  /\ Hold(b, {Partner(p)}) /\ Goto(b, "cache")
  /\ UNCHANGED Rows

UpdatePlan(b, tier) ==
  LET p == tx[b].partner IN
  /\ At(b, "update", "cache") /\ Free(b, Cache)
  /\ edits < MaxEdits /\ edits' = edits + 1
  /\ plan' = [plan EXCEPT ![p] = Replan(p, tier)]
  /\ End(b) /\ UNCHANGED <<request, invoice>>

EditPartner(b, company) ==
  LET p == tx[b].partner IN
  /\ At(b, "edit", "cache") /\ Free(b, Cache)
  /\ edits < MaxEdits /\ edits' = edits + 1
  /\ plan' = [plan EXCEPT ![p] = [Replan(p, @.tier) EXCEPT !.company = company]]
  /\ End(b) /\ UNCHANGED <<request, invoice>>

------------------------------------------------------------------------------
(* Saving a billing profile or choosing the default one locks the account, *)
(* then the profile.                                                       *)
BeginProfile(b) ==
  /\ tx[b] = Idle /\ Free(b, Account)
  /\ Begin(b, [Idle EXCEPT !.op = "profile", !.step = "profile"])
  /\ Hold(b, {Account}) /\ UNCHANGED Rows

SaveProfile(b) == At(b, "profile", "profile") /\ Free(b, Profile) /\ RollBack(b)

------------------------------------------------------------------------------
(* process_partner_billing_overdue_downgrades.  Which unpaid invoices are  *)
(* due, and which of those that ask for a paid plan are so for seven days, *)
(* is up to the clock.                                                     *)
BeginSweep(b) ==
  /\ tx[b] = Idle
  /\ \E due \in (SUBSET {r \in Requests : invoice[r] = "pending_payment"}) \ {{}} :
       \E late \in SUBSET {r \in due : request[r].to # Basic} :
         Begin(b, [Idle EXCEPT !.op = "sweep", !.left = due, !.late = late])
  /\ UNCHANGED <<Rows, owner>>

SweepableM(b, r) == Free(b, Request(r)) /\ Pending(r)  \* mutant: the invoice as scanned
Sweepable(b, r) ==
  /\ Free(b, Request(r)) /\ Pending(r)
  /\ Free(b, Invoice(r)) /\ invoice[r] = "pending_payment"

(* SKIP LOCKED: a row that someone holds is passed over.  A pair of rows   *)
(* stays locked whether or not its time is over.                           *)
SweepNext(b, r) ==
  LET rest == [tx[b] EXCEPT !.left = @ \ {r}, !.late = @ \ {r}] IN
  /\ At(b, "sweep", "begin") /\ r \in tx[b].left
  /\ \/ /\ ~Sweepable(b, r)
        /\ Hold(b, IF Free(b, Request(r)) THEN {Request(r)} ELSE {})
        /\ tx' = [tx EXCEPT ![b] = rest]
     \/ /\ Sweepable(b, r)
        /\ Hold(b, {Request(r), Invoice(r)})
        /\ tx' = [tx EXCEPT ![b] = IF r \in tx[b].late
             THEN [rest EXCEPT !.request = r, !.step = "partner"] ELSE rest]
  /\ UNCHANGED Rows

(* An unpaid change from the partner's present plan takes the plan back.   *)
TakesBack(r) ==
  LET now == plan[request[r].partner].tier IN now # Basic /\ now = request[r].from

SweepLocksPartner(b) ==
  LET r == tx[b].request  p == request[r].partner IN
  /\ At(b, "sweep", "partner") /\ Free(b, Partner(p))
  /\ IF plan[p].company = request[r].company
     THEN /\ Hold(b, {Partner(p)})
          /\ tx' = [tx EXCEPT ![b].step = IF TakesBack(r) THEN "cache" ELSE "begin",
                              ![b].request = None, ![b].done = @ \cup {r}]
     ELSE /\ tx' = [tx EXCEPT ![b].step = "begin", ![b].request = None]
          /\ UNCHANGED owner
  /\ UNCHANGED Rows

(* The downgrade fires the trigger; its row is held for the other invoices.*)
SweepLocksCache(b) ==
  /\ At(b, "sweep", "cache") /\ Free(b, Cache)
  /\ Hold(b, {Cache}) /\ Goto(b, "begin")
  /\ UNCHANGED Rows

EndSweep(b) ==
  /\ At(b, "sweep", "begin") /\ tx[b].left = {}
  /\ invoice' = [r \in Requests |-> IF r \in tx[b].done
                                    THEN "overdue" ELSE invoice[r]]
  /\ request' = [r \in Requests |->
       IF r \in tx[b].done THEN [request[r] EXCEPT !.status = "cancelled"] ELSE request[r]]
  /\ plan' = [p \in Partners |->
       IF \E r \in tx[b].done : request[r].partner = p /\ TakesBack(r)
       THEN Replan(p, Basic) ELSE plan[p]]
  /\ End(b) /\ UNCHANGED edits

------------------------------------------------------------------------------
Next ==
  \/ \E b \in Backends :
       \/ \E p \in Partners : BeginCreate(b, p) \/ BeginChange(b, "update", p)
                                                \/ BeginChange(b, "edit", p)
       \/ CreateLocksPartner(b) \/ CreateLocksProfile(b)
       \/ \E r \in Requests, to \in Tiers : InsertRequest(b, r, to)
       \/ \E r \in Requests, op \in Decisions : BeginDecision(b, op, r)
       \/ DecisionLocksRequest(b) \/ Confirm(b)
       \/ \E status \in {"cancelled", "rejected"} : Cancel(b, status)
       \/ ApprovalLocksInvoice(b) \/ ApprovalLocksPartner(b) \/ Approve(b)
       \/ ChangeLocksPartner(b) \/ \E tier \in Tiers : UpdatePlan(b, tier)
       \/ \E company \in Companies : EditPartner(b, company)
       \/ BeginProfile(b) \/ SaveProfile(b)
       \/ BeginSweep(b) \/ SweepLocksPartner(b) \/ SweepLocksCache(b) \/ EndSweep(b)
       \/ \E r \in Requests : SweepNext(b, r)
       \/ Abort(b)

Spec == Init /\ [][Next]_vars
==============================================================================
