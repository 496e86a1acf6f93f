-------------------------- MODULE PartnerBillingProps --------------------------
(* What partners and administrators may rely on in plan changes.           *)
EXTENDS PartnerBilling

(* While a request is pending, the partner keeps the tier the request was  *)
(* priced from and asks to leave: no administrator's change, no concurrent *)
(* request, approval or sweep replaces it, whatever page or price was read *)
(* before.  (A save of the partner may still give it another company.)     *)
PricedOnPlan ==
  \A r \in Requests : Pending(r) =>
    LET tier == plan[request[r].partner].tier IN
    tier = request[r].priced /\ tier = request[r].from

(* An open invoice has a request that can still be decided, and what has   *)
(* become of an invoice and of its request agree.                          *)
InvoicesFollowRequests ==
  \A r \in Requests :
    /\ invoice[r] = "paid" => request[r].status \in {"pending", "approved"}
    /\ invoice[r] = "pending_payment" => Pending(r)
    /\ invoice[r] = "overdue" => request[r].status = "cancelled"
    /\ request[r].status = "approved" => invoice[r] = "paid"

(* Money received is not lost: from the confirmation on, neither a         *)
(* cancellation nor a sweep that had already read the invoice as unpaid    *)
(* undoes it, and the only decision left is the approval.                  *)
MoneyIsKept ==
  [][\A r \in Requests : invoice[r] = "paid" =>
       /\ invoice'[r] = "paid"
       /\ request'[r].status \in {request[r].status, "approved"}]_vars

(* The lock a transaction waits for.                                       *)
Wants(b) ==
  CASE tx[b].step = "partner" /\ tx[b].op \in {"create", "update", "edit"} -> Partner(tx[b].partner)
    [] tx[b].step = "partner" /\ tx[b].op \in {"approve", "sweep"} ->
         Partner(request[tx[b].request].partner)
    [] tx[b].step = "request" -> Request(tx[b].request)
    [] tx[b].step = "invoice" -> Invoice(tx[b].request)
    [] tx[b].step = "profile" -> Profile
    [] tx[b].step = "cache" -> Cache
    [] OTHER -> Account
Waits(b, c) == c # b /\ tx[b].step # "begin" /\ owner[Wants(b)] = c

(* Transactions wait for each other in a circle in two ways only.  One     *)
(* saves a billing profile while the other creates a request.  Or a sweep, *)
(* which holds the cache version since it took one plan back, waits for a  *)
(* second partner whose edit is being saved and needs the cache version.   *)
(* Requests, decisions, plan changes and sweeps alone never deadlock.      *)
DecisionsDoNotDeadlock ==
  \A S \in (SUBSET Backends) \ {{}} :
    (\A b \in S : \E c \in S : Waits(b, c)) =>
      \E b, c \in S :
        /\ Waits(b, c) /\ Waits(c, b)
        /\ \/ tx[b].op = "profile" /\ tx[c].op = "create"
           \/ tx[b].op = "sweep" /\ tx[c].op = "edit"

================================================================================
