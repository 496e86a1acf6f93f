------------------------- MODULE PartnerBilling_proofs -------------------------
(***************************************************************************)
(* For any number of partners, requests, connections and plan tiers: money *)
(* received is kept, a pending request stays priced on the partner's tier, *)
(* invoices and requests agree, and deadlocks are of two kinds.  The       *)
(* reason is one: a transaction owns the rows it will act on, and what it  *)
(* read of them under their locks is still so.                             *)
(***************************************************************************)
EXTENDS PartnerBillingProps, TLAPS

Steps == {"begin", "request", "invoice", "partner", "cache", "profile", "account"}
TxType == [op : {"idle", "create", "confirm", "cancel", "approve", "update", "edit",
                 "profile", "sweep"},
           step : Steps, partner : Partners \cup {None}, request : Requests \cup {None},
           saw : Plans \cup {None}, left : SUBSET Requests, late : SUBSET Requests,
           done : SUBSET Requests]
RequestType == [status : {"pending", "approved", "rejected", "cancelled"},
                partner : Partners, from : Tiers, to : Tiers, priced : Tiers,
                company : Companies]
InvoiceType == {"none", "pending_payment", "paid", "overdue", "cancelled"}

------------------------------------------------------------------------------
(* Locks: distinct rows have distinct locks.                               *)
LEMMA LocksDiffer ==
  /\ \A p, q \in Partners : Partner(p) = Partner(q) => p = q
  /\ \A r, s \in Requests : Request(r) = Request(s) => r = s
  /\ \A r, s \in Requests : Invoice(r) = Invoice(s) => r = s
  /\ \A p \in Partners :
       Partner(p) # Account /\ Partner(p) # Profile /\ Partner(p) # Cache
  /\ \A r \in Requests :
       /\ Request(r) # Account /\ Request(r) # Profile
       /\ Invoice(r) # Account /\ Invoice(r) # Profile
       /\ Request(r) # Cache /\ Invoice(r) # Cache
  /\ \A p \in Partners, r \in Requests : Partner(p) # Request(r) /\ Partner(p) # Invoice(r)
  /\ \A r, s \in Requests : Request(r) # Invoice(s)
  /\ Account # Profile /\ Account # Cache /\ Profile # Cache
  BY DEF Partner, Request, Invoice, Account, Profile, Cache

LEMMA LocksAre ==
  /\ Account \in Locks /\ Profile \in Locks /\ Cache \in Locks
  /\ \A p \in Partners : Partner(p) \in Locks
  /\ \A r \in Requests : Request(r) \in Locks /\ Invoice(r) \in Locks
  BY DEF Locks

------------------------------------------------------------------------------
(* Every row and every transaction keeps its type.                         *)
LEMMA IdleType == Idle \in TxType
  BY DEF Idle, TxType, Steps

LEMMA EndType ==
  ASSUME TypeOK, NEW b \in Backends, End(b)
  PROVE  tx' \in [Backends -> TxType] /\ owner' \in [Locks -> Backends \cup {None}]
  BY IdleType DEF TypeOK, TxType, Steps, End

LEMMA HoldType ==
  ASSUME TypeOK, NEW b \in Backends, NEW ls, Hold(b, ls)
  PROVE  owner' \in [Locks -> Backends \cup {None}]
  BY DEF TypeOK, Hold

LEMMA GotoType ==
  ASSUME TypeOK, NEW b \in Backends,
         NEW s \in Steps, Goto(b, s)
  PROVE  tx' \in [Backends -> TxType]
<1>1. tx \in [Backends -> TxType]
  BY DEF TypeOK, TxType, Steps
<1>2. ASSUME NEW x \in TxType PROVE [x EXCEPT !.step = s] \in TxType
  BY DEF TxType, Steps
<1>3. tx' = [tx EXCEPT ![b] = [@ EXCEPT !.step = s]]
  BY DEF Goto
<1> QED
  BY <1>1, <1>2, <1>3

LEMMA BeginType ==
  ASSUME TypeOK, NEW b \in Backends, NEW x \in TxType, Begin(b, x)
  PROVE  tx' \in [Backends -> TxType]
  BY DEF TypeOK, TxType, Steps, Begin

LEMMA FreshTypes ==
  /\ \A p \in Partners, s \in Plans, op \in {"create", "update", "edit"} :
       [Idle EXCEPT !.op = op, !.step = "partner", !.partner = p, !.saw = s] \in TxType
  /\ \A r \in Requests, op \in Decisions :
       [Idle EXCEPT !.op = op, !.step = "request", !.request = r] \in TxType
  /\ [Idle EXCEPT !.op = "profile", !.step = "profile"] \in TxType
  /\ \A due \in SUBSET Requests, late \in SUBSET Requests :
       [Idle EXCEPT !.op = "sweep", !.left = due, !.late = late] \in TxType
<1>1. \A p \in Partners, s \in Plans :
        [Idle EXCEPT !.op = "create", !.step = "partner", !.partner = p, !.saw = s] \in TxType
  BY DEF Idle, TxType, Steps
<1>2. \A p \in Partners, s \in Plans :
        [Idle EXCEPT !.op = "update", !.step = "partner", !.partner = p, !.saw = s] \in TxType
  BY DEF Idle, TxType, Steps
<1>6. \A p \in Partners, s \in Plans :
        [Idle EXCEPT !.op = "edit", !.step = "partner", !.partner = p, !.saw = s] \in TxType
  BY DEF Idle, TxType, Steps
<1>3. \A r \in Requests, op \in Decisions :
        [Idle EXCEPT !.op = op, !.step = "request", !.request = r] \in TxType
  BY DEF Idle, TxType, Steps, Decisions
<1>4. [Idle EXCEPT !.op = "profile", !.step = "profile"] \in TxType
  BY DEF Idle, TxType, Steps
<1>5. \A due \in SUBSET Requests, late \in SUBSET Requests :
        [Idle EXCEPT !.op = "sweep", !.left = due, !.late = late] \in TxType
  BY DEF Idle, TxType, Steps
<1> QED
  BY <1>1, <1>2, <1>3, <1>4, <1>5, <1>6

Replanned(x, tier, v) == [x EXCEPT !.tier = tier, !.version = v]

LEMMA ReplanType ==
  ASSUME TypeOK, NEW p \in Partners, NEW tier \in Tiers
  PROVE  /\ Replan(p, tier) \in Plans
         /\ Replan(p, tier).tier = tier /\ Replan(p, tier).version = plan[p].version + 1
         /\ Replan(p, tier).company = plan[p].company
<1>1. ASSUME NEW x \in Plans, NEW v \in Nat
      PROVE  /\ Replanned(x, tier, v) \in Plans /\ Replanned(x, tier, v).tier = tier
             /\ Replanned(x, tier, v).version = v /\ Replanned(x, tier, v).company = x.company
  <2>1. Replanned(x, tier, v) \in Plans
    BY DEF Plans, Replanned
  <2>2. Replanned(x, tier, v).tier = tier
    BY DEF Plans, Replanned
  <2>3. Replanned(x, tier, v).version = v
    BY DEF Plans, Replanned
  <2>4. Replanned(x, tier, v).company = x.company
    BY DEF Plans, Replanned
  <2> QED
    BY <2>1, <2>2, <2>3, <2>4
<1>2. plan[p] \in Plans /\ plan[p].version + 1 \in Nat
  BY DEF TypeOK, Plans
<1>3. Replan(p, tier) = Replanned(plan[p], tier, plan[p].version + 1)
  BY DEF Replan, Replanned
<1> DEFINE v == plan[p].version + 1
           y == Replanned(plan[p], tier, v)
<1>4. y \in Plans /\ y.tier = tier /\ y.version = v /\ y.company = plan[p].company
  <2> HIDE DEF v
  <2> QED
    BY <1>1, <1>2 DEF v
<1> QED
  BY <1>3, <1>4

(* A saved partner: the tier stays, the version grows, the company may     *)
(* be another.                                                             *)
Edited(p, company) == [Replan(p, plan[p].tier) EXCEPT !.company = company]

LEMMA EditType ==
  ASSUME TypeOK, NEW p \in Partners, NEW company \in Companies
  PROVE  Edited(p, company) \in Plans /\ Edited(p, company).tier = plan[p].tier
<1> DEFINE y == Replan(p, plan[p].tier)
<1>1. plan[p].tier \in Tiers
  BY DEF TypeOK, Plans
<1>2. y \in Plans /\ y.tier = plan[p].tier
  BY <1>1, ReplanType
<1> HIDE DEF y
<1>3. [y EXCEPT !.company = company] \in Plans /\ [y EXCEPT !.company = company].tier = y.tier
  BY <1>2 DEF Plans
<1> QED
  BY <1>2, <1>3 DEF Edited, y

LEMMA EditedPlan ==
  ASSUME TypeOK, NEW b \in Backends, NEW company \in Companies, EditPartner(b, company)
  PROVE  plan' = [plan EXCEPT ![tx[b].partner] = Edited(tx[b].partner, company)]
  BY DEF EditPartner, Edited

(* A sweep passes over a request, takes it up, is done with its partner    *)
(* (and goes on to the cache version or not), or finds that it has moved.  *)
Passed(x, r) == [x EXCEPT !.left = @ \ {r}, !.late = @ \ {r}]
TakenUp(x, r) == [Passed(x, r) EXCEPT !.request = r, !.step = "partner"]
Joined(x, r, s) == [x EXCEPT !.step = s, !.request = None, !.done = @ \cup {r}]
Dropped(x) == [x EXCEPT !.step = "begin", !.request = None]

LEMMA SweepType ==
  ASSUME NEW x \in TxType, NEW r \in Requests
  PROVE  /\ Passed(x, r) \in TxType /\ Passed(x, r).op = x.op /\ Passed(x, r).step = x.step
         /\ Passed(x, r).request = x.request /\ Passed(x, r).done = x.done
         /\ Dropped(x) \in TxType /\ Dropped(x).op = x.op /\ Dropped(x).step = "begin"
         /\ Dropped(x).request = None /\ Dropped(x).done = x.done
<1>1. /\ Passed(x, r) \in TxType /\ Passed(x, r).op = x.op /\ Passed(x, r).step = x.step
      /\ Passed(x, r).request = x.request /\ Passed(x, r).done = x.done
  BY DEF TxType, Steps, Passed
<1>2. /\ Dropped(x) \in TxType /\ Dropped(x).op = x.op /\ Dropped(x).step = "begin"
      /\ Dropped(x).request = None /\ Dropped(x).done = x.done
  BY DEF TxType, Steps, Dropped
<1> QED
  BY <1>1, <1>2

LEMMA JoinedType ==
  ASSUME NEW x \in TxType, NEW r \in Requests, NEW s \in {"begin", "cache"}
  PROVE  /\ Joined(x, r, s) \in TxType /\ Joined(x, r, s).op = x.op
         /\ Joined(x, r, s).step = s /\ Joined(x, r, s).request = None
         /\ Joined(x, r, s).done = x.done \cup {r}
<1>1. x.done \cup {r} \in SUBSET Requests
  BY DEF TxType, Steps
<1>2. Joined(x, r, s) \in TxType
  BY <1>1 DEF TxType, Steps, Joined
<1>3. /\ Joined(x, r, s).op = x.op /\ Joined(x, r, s).step = s
      /\ Joined(x, r, s).request = None /\ Joined(x, r, s).done = x.done \cup {r}
  BY DEF TxType, Steps, Joined
<1> QED
  BY <1>2, <1>3

LEMMA TakenUpType ==
  ASSUME NEW x \in TxType, NEW r \in Requests
  PROVE  /\ TakenUp(x, r) \in TxType /\ TakenUp(x, r).op = x.op
         /\ TakenUp(x, r).step = "partner" /\ TakenUp(x, r).request = r
         /\ TakenUp(x, r).done = x.done
<1> DEFINE y == Passed(x, r)
<1>1. y \in TxType /\ y.op = x.op /\ y.done = x.done
  BY SweepType
<1>2. TakenUp(x, r) = [y EXCEPT !.request = r, !.step = "partner"]
  BY DEF TakenUp
<1> HIDE DEF y
<1>3. TakenUp(x, r) \in TxType
  BY <1>1, <1>2 DEF TxType, Steps
<1>4. /\ TakenUp(x, r).op = x.op /\ TakenUp(x, r).step = "partner"
      /\ TakenUp(x, r).request = r /\ TakenUp(x, r).done = x.done
  BY <1>1, <1>2 DEF TxType, Steps
<1> QED
  BY <1>3, <1>4

(* The transaction of b moves on to y.                                     *)
Moves(b, y) == tx' = [tx EXCEPT ![b] = y]

LEMMA MovesType ==
  ASSUME TypeOK, NEW b \in Backends, NEW y \in TxType, Moves(b, y)
  PROVE  tx' \in [Backends -> TxType] /\ tx'[b] = y /\ \A c \in Backends \ {b} : tx'[c] = tx[c]
  BY DEF TypeOK, TxType, Steps, Moves

LEMMA NextMoves ==
  ASSUME TypeOK, NEW b \in Backends, NEW r \in Requests, SweepNext(b, r)
  PROVE  \/ Moves(b, Passed(tx[b], r))
         \/ Sweepable(b, r) /\ Moves(b, TakenUp(tx[b], r))
<1>1. CASE ~Sweepable(b, r)
  BY <1>1 DEF SweepNext, Moves, Passed
<1>2. CASE Sweepable(b, r)
  BY <1>2 DEF SweepNext, Moves, Passed, TakenUp
<1> QED
  BY <1>1, <1>2

LEMMA PartnerMoves ==
  ASSUME TypeOK, NEW b \in Backends, SweepLocksPartner(b)
  PROVE  LET r == tx[b].request  p == request[r].partner IN
         \/ /\ plan[p].company = request[r].company
            /\ \E s \in {"begin", "cache"} : Moves(b, Joined(tx[b], r, s))
         \/ plan[p].company # request[r].company /\ Moves(b, Dropped(tx[b]))
<1> DEFINE r == tx[b].request
<1>1. CASE plan[request[r].partner].company = request[r].company
  <2>1. PICK s \in {"begin", "cache"} :
          tx' = [tx EXCEPT ![b].step = s, ![b].request = None, ![b].done = @ \cup {r}]
    BY <1>1 DEF SweepLocksPartner
  <2>2. Moves(b, Joined(tx[b], r, s))
    BY <2>1 DEF TypeOK, TxType, Steps, Moves, Joined
  <2> QED
    BY <1>1, <2>2
<1>2. CASE plan[request[r].partner].company # request[r].company
  <2>1. tx' = [tx EXCEPT ![b].step = "begin", ![b].request = None]
    BY <1>2 DEF SweepLocksPartner
  <2>2. Moves(b, Dropped(tx[b]))
    BY <2>1 DEF TypeOK, TxType, Steps, Moves, Dropped
  <2> QED
    BY <1>2, <2>2
<1> QED
  BY <1>1, <1>2

(* What a transaction has at hand at each of its steps.                    *)
Shape(b) ==
  /\ tx[b].op = "idle" => tx[b].step = "begin"
  /\ tx[b].op = "create" => tx[b].step \in {"partner", "profile", "account"}
  /\ tx[b].op \in {"create", "update", "edit"} =>
       tx[b].partner \in Partners /\ tx[b].saw \in Plans
  /\ tx[b].op \in {"update", "edit"} => tx[b].step \in {"partner", "cache"}
  /\ tx[b].op = "profile" => tx[b].step = "profile"
  /\ tx[b].op \in Decisions =>
       /\ tx[b].request \in Requests
       /\ \/ tx[b].step \in {"request", "invoice"}
          \/ tx[b].op = "approve" /\ tx[b].step \in {"partner", "cache"}
       /\ request[tx[b].request].status # "none"
  /\ tx[b].op = "sweep" =>
       \/ tx[b].step \in {"begin", "cache"}
       \/ tx[b].step = "partner" /\ tx[b].request \in Requests
  /\ tx[b].op # "sweep" => tx[b].done = {}

(* What a transaction has read under its locks is still so.                *)
CreateOK(b) ==
  tx[b].op = "create" /\ tx[b].step # "partner" =>
    /\ owner[Partner(tx[b].partner)] = b /\ plan[tx[b].partner] = tx[b].saw
    /\ tx[b].step = "account" => owner[Profile] = b
ChangeOK(b) ==
  tx[b].op \in {"update", "edit"} /\ tx[b].step = "cache" =>
    /\ owner[Partner(tx[b].partner)] = b
    /\ tx[b].op = "update" => InForce(tx[b].partner) = {}
DecisionOK(b) ==
  tx[b].op \in Decisions /\ tx[b].step # "request" =>
    owner[Request(tx[b].request)] = b /\ Pending(tx[b].request)
ApprovalOK(b) ==
  tx[b].op = "approve" /\ tx[b].step \in {"partner", "cache"} =>
    /\ owner[Invoice(tx[b].request)] = b /\ invoice[tx[b].request] = "paid"
    /\ tx[b].step = "cache" => owner[Partner(request[tx[b].request].partner)] = b
Taken(b, r) ==
  /\ owner[Request(r)] = b /\ owner[Invoice(r)] = b
  /\ Pending(r) /\ invoice[r] = "pending_payment"
SweepOK(b) ==
  /\ At(b, "sweep", "partner") => Taken(b, tx[b].request)
  /\ \A r \in tx[b].done : Taken(b, r) /\ owner[Partner(request[r].partner)] = b

(* A partner has one pending request at most.                              *)
OnePending ==
  \A r, s \in Requests :
    Pending(r) /\ Pending(s) /\ request[r].partner = request[s].partner => r = s

BackendOK(b) ==
  Shape(b) /\ CreateOK(b) /\ ChangeOK(b) /\ DecisionOK(b) /\ ApprovalOK(b) /\ SweepOK(b)
RowsOK == OnePending /\ PricedOnPlan /\ InvoicesFollowRequests
BillingInv == TypeOK /\ (\A b \in Backends : BackendOK(b)) /\ RowsOK

(* Which transactions may own a row.                                       *)
HoldsPartner(b, p) ==
  \/ tx[b].op = "create" /\ tx[b].step # "partner" /\ tx[b].partner = p
  \/ tx[b].op \in {"update", "edit"} /\ tx[b].step = "cache" /\ tx[b].partner = p
  \/ At(b, "approve", "cache") /\ request[tx[b].request].partner = p
  \/ \E r \in tx[b].done : request[r].partner = p
HoldsRequest(b, r) ==
  \/ tx[b].op = "sweep"
  \/ tx[b].op \in Decisions /\ tx[b].step # "request" /\ tx[b].request = r
HoldersOf(b) ==
  /\ owner[Account] = b => tx[b].op = "profile"
  /\ owner[Profile] = b => At(b, "create", "account")
  /\ owner[Cache] = b => tx[b].op = "sweep"
  /\ \A p \in Partners : owner[Partner(p)] = b => HoldsPartner(b, p)
  /\ \A r \in Requests : owner[Request(r)] = b => HoldsRequest(b, r)
  /\ \A r \in Requests : owner[Invoice(r)] = b => owner[Request(r)] = b
HoldersKnown == \A b \in Backends : HoldersOf(b)

LEMMA BillingInit == Init => BillingInv /\ HoldersKnown
<1> SUFFICES ASSUME Init PROVE BillingInv /\ HoldersKnown
  OBVIOUS
<1>1. tx \in [Backends -> TxType]
  BY IdleType DEF Init
<1>2. plan \in [Partners -> Plans]
  BY TiersAssumption DEF Init, Plans
<1>3. TypeOK
  BY <1>1, <1>2, BoundsAssumption DEF Init, TypeOK, TxType, Steps
<1>4. \A b \in Backends : BackendOK(b)
  BY DEF Init, Idle, BackendOK, Shape, CreateOK, ChangeOK, DecisionOK, ApprovalOK, SweepOK,
         Decisions, At
<1>5. RowsOK
  BY DEF Init, NoRequest, RowsOK, OnePending, PricedOnPlan, InvoicesFollowRequests, Pending
<1>6. HoldersKnown
  BY LocksAre, NoneAssumption DEF Init, HoldersKnown, HoldersOf
<1> QED
  BY <1>3, <1>4, <1>5, <1>6 DEF BillingInv

(* A request once made stays one, of the same type.                        *)
LEMMA RequestKinds ==
  ASSUME TypeOK, NEW r \in Requests, request[r].status # "none"
  PROVE  request[r] \in RequestType
  BY DEF TypeOK, RequestType, NoRequest

(* The steps of a transaction: it begins, takes a lock and goes on, goes   *)
(* on with a sweep, or ends.                                               *)
Begins(b) ==
  \/ \E p \in Partners : BeginCreate(b, p)
  \/ \E p \in Partners, op \in {"update", "edit"} : BeginChange(b, op, p)
  \/ \E r \in Requests, op \in Decisions : BeginDecision(b, op, r)
  \/ BeginProfile(b) \/ BeginSweep(b)
GoesOn(b) ==
  \/ CreateLocksPartner(b) \/ CreateLocksProfile(b) \/ ChangeLocksPartner(b)
  \/ DecisionLocksRequest(b) \/ ApprovalLocksInvoice(b) \/ ApprovalLocksPartner(b)
Sweeps(b) ==
  \/ SweepLocksPartner(b) \/ SweepLocksCache(b) \/ \E r \in Requests : SweepNext(b, r)
Changes(b) ==
  \/ \E tier \in Tiers : UpdatePlan(b, tier)
  \/ \E company \in Companies : EditPartner(b, company)
Ends(b) ==
  \/ \E r \in Requests, to \in Tiers : InsertRequest(b, r, to)
  \/ Confirm(b) \/ (\E status \in {"cancelled", "rejected"} : Cancel(b, status))
  \/ Approve(b) \/ Changes(b) \/ SaveProfile(b) \/ EndSweep(b) \/ Abort(b)

LEMMA StepKinds == Next => \E b \in Backends : Begins(b) \/ GoesOn(b) \/ Sweeps(b) \/ Ends(b)
  BY DEF Next, Begins, GoesOn, Sweeps, Ends, Changes

LEMMA TypeStep == BillingInv /\ [Next]_vars => TypeOK'
<1> SUFFICES ASSUME TypeOK, \A b \in Backends : Shape(b) /\ SweepOK(b), [Next]_vars
             PROVE  TypeOK'
  BY DEF BillingInv, BackendOK
<1>r. ASSUME UNCHANGED Rows, tx' \in [Backends -> TxType],
             owner' \in [Locks -> Backends \cup {None}]
      PROVE  TypeOK'
  BY <1>r DEF TypeOK, Rows, TxType, Steps
<1>1. ASSUME NEW b \in Backends, NEW p \in Partners, BeginCreate(b, p) PROVE TypeOK'
  <2>1. plan[p] \in Plans
    BY DEF TypeOK
  <2>2. tx' \in [Backends -> TxType]
    BY <1>1, <2>1, FreshTypes, BeginType DEF BeginCreate
  <2> QED
    BY <1>1, <1>r, <2>2 DEF BeginCreate, TypeOK
<1>3. ASSUME NEW b \in Backends, NEW p \in Partners, NEW op \in {"update", "edit"},
             BeginChange(b, op, p)
      PROVE  TypeOK'
  <2>1. plan[p] \in Plans
    BY DEF TypeOK
  <2>2. tx' \in [Backends -> TxType]
    BY <1>3, <2>1, FreshTypes, BeginType DEF BeginChange
  <2> QED
    BY <1>3, <1>r, <2>2 DEF BeginChange, TypeOK
<1>4. ASSUME NEW b \in Backends, GoesOn(b) \/ SweepLocksCache(b) PROVE TypeOK'
  <2>1. PICK s \in Steps : Goto(b, s)
    BY <1>4 DEF GoesOn, CreateLocksPartner, CreateLocksProfile, ChangeLocksPartner, Steps,
                DecisionLocksRequest, ApprovalLocksInvoice, ApprovalLocksPartner, SweepLocksCache
  <2>2. PICK ls : Hold(b, ls)
    BY <1>4 DEF GoesOn, CreateLocksPartner, CreateLocksProfile, ChangeLocksPartner,
                DecisionLocksRequest, ApprovalLocksInvoice, ApprovalLocksPartner, SweepLocksCache
  <2>3. UNCHANGED Rows
    BY <1>4 DEF GoesOn, CreateLocksPartner, CreateLocksProfile, ChangeLocksPartner,
                DecisionLocksRequest, ApprovalLocksInvoice, ApprovalLocksPartner, SweepLocksCache
  <2> QED
    BY <1>r, <2>1, <2>2, <2>3, GotoType, HoldType
<1>5. ASSUME NEW b \in Backends, NEW r \in Requests, NEW to \in Tiers, InsertRequest(b, r, to)
      PROVE  TypeOK'
  <2>1. tx[b].partner \in Partners /\ tx[b].saw \in Plans
    BY <1>5 DEF InsertRequest, At, Shape
  <2> DEFINE new == [status |-> "pending", partner |-> tx[b].partner,
                     from |-> plan[tx[b].partner].tier, to |-> to,
                     priced |-> tx[b].saw.tier, company |-> tx[b].saw.company]
  <2>2. new \in RequestType
    BY <2>1 DEF RequestType, TypeOK, Plans
  <2>3. request' = [request EXCEPT ![r] = new]
    BY <1>5 DEF InsertRequest
  <2>4. DOMAIN request' = Requests /\ \A s \in Requests : request'[s] = NoRequest \/ request'[s] \in RequestType
    BY <2>2, <2>3 DEF TypeOK, RequestType
  <2>5. invoice' \in [Requests -> InvoiceType]
    BY <1>5 DEF InsertRequest, TypeOK, InvoiceType
  <2>6. tx' \in [Backends -> TxType] /\ owner' \in [Locks -> Backends \cup {None}]
    BY <1>5, EndType DEF InsertRequest
  <2> QED
    BY <1>5, <2>4, <2>5, <2>6 DEF InsertRequest, TypeOK, RequestType, InvoiceType, TxType, Steps
<1>6. ASSUME NEW b \in Backends, NEW r \in Requests, NEW op \in Decisions, BeginDecision(b, op, r)
      PROVE  TypeOK'
  <2>1. tx' \in [Backends -> TxType]
    BY <1>6, FreshTypes, BeginType DEF BeginDecision
  <2> QED
    BY <1>6, <1>r, <2>1 DEF BeginDecision, TypeOK
<1>7. ASSUME NEW b \in Backends, Confirm(b) PROVE TypeOK'
  <2>1. tx' \in [Backends -> TxType] /\ owner' \in [Locks -> Backends \cup {None}]
    BY <1>7, EndType DEF Confirm
  <2>2. invoice' \in [Requests -> InvoiceType]
    BY <1>7 DEF Confirm, TypeOK, InvoiceType
  <2> QED
    BY <1>7, <2>1, <2>2 DEF Confirm, TypeOK, InvoiceType, TxType, Steps
<1>8. ASSUME NEW b \in Backends, NEW status \in {"cancelled", "rejected"}, Cancel(b, status)
      PROVE  TypeOK'
  <2>1. tx' \in [Backends -> TxType] /\ owner' \in [Locks -> Backends \cup {None}]
    BY <1>8, EndType DEF Cancel
  <2>2. invoice' \in [Requests -> InvoiceType]
    BY <1>8 DEF Cancel, Withdraw, TypeOK, InvoiceType
  <2>3. tx[b].request \in Requests /\ request[tx[b].request].status # "none"
    BY <1>8 DEF Cancel, At, Shape, Decisions
  <2>4. request[tx[b].request] \in RequestType
    BY <2>3, RequestKinds
  <2>5. [request[tx[b].request] EXCEPT !.status = status] \in RequestType
    BY <2>4 DEF RequestType
  <2>6. request' = [request EXCEPT ![tx[b].request] = [@ EXCEPT !.status = status]]
    BY <1>8 DEF Cancel
  <2>7. DOMAIN request' = Requests
        /\ \A s \in Requests : request'[s] = NoRequest \/ request'[s] \in RequestType
    BY <2>5, <2>6 DEF TypeOK, RequestType
  <2> QED
    BY <1>8, <2>1, <2>2, <2>7 DEF Cancel, TypeOK, RequestType, InvoiceType, TxType, Steps
<1>9. ASSUME NEW b \in Backends, Approve(b) PROVE TypeOK'
  <2> DEFINE r == tx[b].request
             p == request[r].partner
  <2>1. tx' \in [Backends -> TxType] /\ owner' \in [Locks -> Backends \cup {None}]
    BY <1>9, EndType DEF Approve
  <2>2. r \in Requests /\ request[r].status # "none"
    BY <1>9 DEF Approve, At, Shape, Decisions
  <2>3. request[r] \in RequestType
    BY <2>2, RequestKinds
  <2>4. [request[r] EXCEPT !.status = "approved"] \in RequestType
    BY <2>3 DEF RequestType
  <2>5. request' = [request EXCEPT ![r] = [@ EXCEPT !.status = "approved"]]
    BY <1>9 DEF Approve
  <2>6. DOMAIN request' = Requests
        /\ \A s \in Requests : request'[s] = NoRequest \/ request'[s] \in RequestType
    BY <2>4, <2>5 DEF TypeOK, RequestType
  <2>7. Replan(p, request[r].to) \in Plans
    BY <2>3, ReplanType DEF RequestType
  <2>8. plan' \in [Partners -> Plans]
    BY <1>9, <2>7 DEF Approve, TypeOK
  <2> QED
    BY <1>9, <2>1, <2>6, <2>8 DEF Approve, TypeOK, RequestType, TxType, Steps
<1>10. ASSUME NEW b \in Backends, NEW tier \in Tiers, UpdatePlan(b, tier) PROVE TypeOK'
  <2>1. tx' \in [Backends -> TxType] /\ owner' \in [Locks -> Backends \cup {None}]
    BY <1>10, EndType DEF UpdatePlan
  <2>2. tx[b].partner \in Partners
    BY <1>10 DEF UpdatePlan, At, Shape
  <2>3. Replan(tx[b].partner, tier) \in Plans
    BY <2>2, ReplanType
  <2>4. plan' \in [Partners -> Plans]
    BY <1>10, <2>3 DEF UpdatePlan, TypeOK
  <2>5. edits' \in 0..MaxEdits
    BY <1>10, BoundsAssumption DEF UpdatePlan, TypeOK
  <2> QED
    BY <1>10, <2>1, <2>4, <2>5 DEF UpdatePlan, TypeOK, TxType, Steps
<1>18. ASSUME NEW b \in Backends, NEW company \in Companies, EditPartner(b, company)
       PROVE  TypeOK'
  <2>1. tx' \in [Backends -> TxType] /\ owner' \in [Locks -> Backends \cup {None}]
    BY <1>18, EndType DEF EditPartner
  <2>2. tx[b].partner \in Partners
    BY <1>18 DEF EditPartner, At, Shape
  <2>3. Edited(tx[b].partner, company) \in Plans
    BY <2>2, EditType
  <2>4. plan' \in [Partners -> Plans]
    BY <1>18, <2>3, EditedPlan DEF TypeOK
  <2>5. edits' \in 0..MaxEdits
    BY <1>18, BoundsAssumption DEF EditPartner, TypeOK
  <2> QED
    BY <1>18, <2>1, <2>4, <2>5 DEF EditPartner, TypeOK, TxType, Steps
<1>11. ASSUME NEW b \in Backends, BeginProfile(b) PROVE TypeOK'
  <2>1. tx' \in [Backends -> TxType]
    BY <1>11, FreshTypes, BeginType DEF BeginProfile
  <2>2. owner' \in [Locks -> Backends \cup {None}]
    BY <1>11, HoldType DEF BeginProfile
  <2> QED
    BY <1>11, <1>r, <2>1, <2>2 DEF BeginProfile
<1>12. ASSUME NEW b \in Backends, SaveProfile(b) \/ Abort(b) PROVE TypeOK'
  BY <1>12, <1>r, EndType DEF SaveProfile, Abort, RollBack
<1>13. ASSUME NEW b \in Backends, BeginSweep(b) PROVE TypeOK'
  <2>1. PICK due \in SUBSET Requests, late \in SUBSET Requests :
          Begin(b, [Idle EXCEPT !.op = "sweep", !.left = due, !.late = late])
    BY <1>13 DEF BeginSweep
  <2>2. tx' \in [Backends -> TxType]
    BY <2>1, FreshTypes, BeginType
  <2> QED
    BY <1>13, <1>r, <2>2 DEF BeginSweep, TypeOK
<1>14. ASSUME NEW b \in Backends, SweepLocksPartner(b) PROVE TypeOK'
  <2>1. tx[b].request \in Requests
    BY <1>14 DEF SweepLocksPartner, At, Shape
  <2>2. owner' \in [Locks -> Backends \cup {None}]
    BY <1>14, HoldType DEF SweepLocksPartner, TypeOK
  <2>3. tx' \in [Backends -> TxType]
    <3>1. tx[b] \in TxType
      BY DEF TypeOK, TxType, Steps
    <3> QED
      BY <1>14, <2>1, <3>1, PartnerMoves, SweepType, JoinedType, MovesType
  <2> QED
    BY <1>14, <1>r, <2>2, <2>3 DEF SweepLocksPartner
<1>15. ASSUME NEW b \in Backends, NEW r \in Requests, SweepNext(b, r) PROVE TypeOK'
  <2>1. owner' \in [Locks -> Backends \cup {None}]
    BY <1>15, HoldType DEF SweepNext
  <2>2. tx' \in [Backends -> TxType]
    <3>1. tx[b] \in TxType
      BY DEF TypeOK, TxType, Steps
    <3> QED
      BY <1>15, <3>1, NextMoves, SweepType, TakenUpType, MovesType
  <2> QED
    BY <1>15, <1>r, <2>1, <2>2 DEF SweepNext
<1>16. ASSUME NEW b \in Backends, EndSweep(b) PROVE TypeOK'
  <2>1. tx' \in [Backends -> TxType] /\ owner' \in [Locks -> Backends \cup {None}]
    BY <1>16, EndType DEF EndSweep
  <2>2. invoice' \in [Requests -> InvoiceType]
    BY <1>16 DEF EndSweep, TypeOK, InvoiceType
  <2>3. plan' \in [Partners -> Plans]
    BY <1>16, ReplanType, TiersAssumption DEF EndSweep, TypeOK
  <2>4. \A r \in tx[b].done : [request[r] EXCEPT !.status = "cancelled"] \in RequestType
    BY RequestKinds DEF SweepOK, Taken, Pending, TypeOK, TxType, Steps, RequestType
  <2>5. DOMAIN request' = Requests
        /\ \A s \in Requests : request'[s] = NoRequest \/ request'[s] \in RequestType
    BY <1>16, <2>4 DEF EndSweep, TypeOK, RequestType
  <2> QED
    BY <1>16, <2>1, <2>2, <2>3, <2>5 DEF EndSweep, TypeOK, RequestType, InvoiceType, TxType, Steps
<1>17. CASE UNCHANGED vars
  BY <1>17, <1>r DEF vars, Rows, TypeOK, TxType, Steps
<1> QED
  BY <1>1, <1>3, <1>4, <1>5, <1>6, <1>7, <1>8, <1>9, <1>10, <1>11, <1>12, <1>13, <1>14,
     <1>15, <1>16, <1>17, <1>18, StepKinds DEF Begins, Sweeps, Ends, Changes

------------------------------------------------------------------------------
(* What a step of one connection leaves to another: its transaction, its   *)
(* locks, and the rows under them.                                         *)
KeepsTx(c) == tx'[c] = tx[c] /\ \A l \in Locks : owner'[l] = c <=> owner[l] = c
KeepsRows(c) ==
  /\ \A p \in Partners : owner[Partner(p)] = c =>
       plan'[p] = plan[p] /\ InForce(p)' \subseteq InForce(p)
  /\ \A r \in Requests : owner[Request(r)] = c /\ Pending(r) =>
       request'[r] = request[r] /\ invoice'[r] = invoice[r]
RequestsStay ==
  \A r \in Requests : request[r].status # "none" =>
    request'[r].status # "none" /\ request'[r].partner = request[r].partner

LEMMA EndKeeps ==
  ASSUME TypeOK, NEW b \in Backends, End(b)
  PROVE  /\ \A c \in Backends \ {b} : KeepsTx(c)
         /\ tx'[b] = Idle /\ \A l \in Locks : owner'[l] # b
  BY NoneAssumption DEF TypeOK, End, KeepsTx

LEMMA HoldKeeps ==
  ASSUME TypeOK, NEW b \in Backends, NEW ls, \A l \in ls : Free(b, l), Hold(b, ls)
  PROVE  /\ \A c \in Backends \ {b}, l \in Locks : owner'[l] = c <=> owner[l] = c
         /\ \A l \in Locks : owner'[l] = b <=> owner[l] = b \/ l \in ls
  BY NoneAssumption DEF TypeOK, Hold, Free

LEMMA GotoKeeps ==
  ASSUME TypeOK, NEW b \in Backends,
         NEW s \in Steps, Goto(b, s)
  PROVE  /\ \A c \in Backends \ {b} : tx'[c] = tx[c]
         /\ tx'[b].step = s /\ tx'[b].op = tx[b].op /\ tx'[b].partner = tx[b].partner
         /\ tx'[b].request = tx[b].request /\ tx'[b].saw = tx[b].saw
         /\ tx'[b].done = tx[b].done
  BY DEF TypeOK, Goto

LEMMA BeginKeeps ==
  ASSUME TypeOK, NEW b \in Backends, NEW x, Begin(b, x)
  PROVE  tx'[b] = x /\ \A c \in Backends \ {b} : tx'[c] = tx[c]
  BY DEF TypeOK, Begin

(* The invariant of a transaction survives what keeps its rows.            *)
LEMMA KeptOK ==
  ASSUME TypeOK, NEW c \in Backends, BackendOK(c), HoldersOf(c),
         KeepsTx(c), KeepsRows(c), RequestsStay
  PROVE  BackendOK(c)' /\ HoldersOf(c)'
<1>1. Shape(c)'
  BY DEF BackendOK, Shape, KeepsTx, RequestsStay
<1>2. CreateOK(c)'
  BY LocksAre DEF BackendOK, Shape, CreateOK, KeepsTx, KeepsRows
<1>10. ChangeOK(c)'
  BY LocksAre DEF BackendOK, Shape, ChangeOK, KeepsTx, KeepsRows
<1>3. DecisionOK(c)'
  BY LocksAre DEF BackendOK, Shape, DecisionOK, KeepsTx, KeepsRows, Pending
<1>4. ApprovalOK(c)'
  <2> DEFINE r == tx[c].request
  <2>1. SUFFICES ASSUME tx[c].op = "approve", tx[c].step \in {"partner", "cache"}
                 PROVE  ApprovalOK(c)'
    BY DEF ApprovalOK, KeepsTx
  <2>2. r \in Requests /\ Pending(r) /\ owner[Request(r)] = c
    BY <2>1 DEF BackendOK, Shape, DecisionOK, Decisions
  <2>3. request[r].partner \in Partners
    BY <2>2, RequestKinds DEF Pending, RequestType
  <2>4. request'[r] = request[r] /\ invoice'[r] = invoice[r] /\ tx'[c] = tx[c]
    BY <2>2 DEF KeepsRows, KeepsTx
  <2> QED
    BY <2>1, <2>2, <2>3, <2>4, LocksAre DEF BackendOK, ApprovalOK, KeepsTx
<1>5. \A r \in Requests : Taken(c, r) => Taken(c, r)' /\ request'[r] = request[r]
  BY LocksAre DEF Taken, KeepsTx, KeepsRows, Pending
<1>6. \A r \in tx[c].done : r \in Requests /\ request[r].partner \in Partners
  <2>1. \A r \in tx[c].done : r \in Requests /\ request[r].status # "none"
    BY DEF BackendOK, SweepOK, Taken, Pending, TypeOK
  <2> QED
    BY <2>1, RequestKinds DEF RequestType
<1>7. SweepOK(c)'
  BY <1>5, <1>6, LocksAre DEF BackendOK, Shape, SweepOK, At, KeepsTx
<1>8. \A r \in tx[c].done : request'[r].partner = request[r].partner
  BY <1>5, <1>6 DEF BackendOK, SweepOK
<1>11. At(c, "approve", "cache") => request'[tx[c].request].partner = request[tx[c].request].partner
  BY DEF BackendOK, Shape, At, Decisions, RequestsStay
<1>9. HoldersOf(c)'
  BY <1>8, <1>11, LocksAre DEF HoldersOf, HoldsPartner, HoldsRequest, KeepsTx, At
<1> QED
  BY <1>1, <1>2, <1>3, <1>4, <1>7, <1>9, <1>10 DEF BackendOK

(* A connection with no transaction owns nothing.                          *)
LEMMA IdleOK ==
  ASSUME NEW b \in Backends, tx'[b] = Idle, \A l \in Locks : owner'[l] # b
  PROVE  BackendOK(b)' /\ HoldersOf(b)'
<1>1. BackendOK(b)'
  BY DEF Idle, BackendOK, Shape, CreateOK, ChangeOK, DecisionOK, ApprovalOK, SweepOK,
         Decisions, At
<1>2. HoldersOf(b)'
  BY LocksAre DEF HoldersOf
<1> QED
  BY <1>1, <1>2

LEMMA RowsKept ==
  ASSUME UNCHANGED Rows
  PROVE  RequestsStay /\ \A c : KeepsRows(c)
  BY DEF Rows, RequestsStay, KeepsRows, InForce, Pending

(* A transaction that ends has changed only rows whose locks it had, or    *)
(* took as its last one.                                                   *)
LEMMA InsertKeeps ==
  ASSUME BillingInv, NEW b \in Backends, NEW r \in Requests, NEW to \in Tiers,
         InsertRequest(b, r, to)
  PROVE  RequestsStay /\ \A c \in Backends \ {b} : KeepsRows(c)
<1>1. /\ request[r].status = "none" /\ plan' = plan
      /\ \A s \in Requests \ {r} : request'[s] = request[s] /\ invoice'[s] = invoice[s]
  BY DEF InsertRequest, BillingInv, TypeOK
<1>2. tx[b].partner \in Partners /\ owner[Partner(tx[b].partner)] = b
  BY DEF InsertRequest, BillingInv, BackendOK, Shape, CreateOK, At
<1>3. request'[r].partner = tx[b].partner
  BY DEF InsertRequest, BillingInv, TypeOK
<1>4. ASSUME NEW p \in Partners \ {tx[b].partner} PROVE InForce(p)' \subseteq InForce(p)
  BY <1>1, <1>3 DEF InForce, Pending
<1> QED
  BY <1>1, <1>2, <1>4 DEF RequestsStay, KeepsRows, Pending

LEMMA DecisionKeeps ==
  ASSUME BillingInv, NEW b \in Backends,
         Confirm(b) \/ (\E status \in {"cancelled", "rejected"} : Cancel(b, status)) \/ Approve(b)
  PROVE  RequestsStay /\ \A c \in Backends \ {b} : KeepsRows(c)
<1> DEFINE r == tx[b].request
           p == request[r].partner
<1>1. tx[b].op \in Decisions /\ tx[b].step # "request"
  BY DEF Confirm, Cancel, Approve, At, Decisions
<1>2. r \in Requests /\ owner[Request(r)] = b /\ Pending(r)
  BY <1>1 DEF BillingInv, BackendOK, Shape, DecisionOK
<1>3. request[r] \in RequestType
  BY <1>2, RequestKinds DEF BillingInv, Pending
<1>4. \A s \in Requests \ {r} : request'[s] = request[s] /\ invoice'[s] = invoice[s]
  <2>1. CASE Confirm(b)
    BY <2>1 DEF Confirm, BillingInv, TypeOK
  <2>2. CASE \E status \in {"cancelled", "rejected"} : Cancel(b, status)
    BY <2>2 DEF Cancel, Withdraw, BillingInv, TypeOK
  <2>3. CASE Approve(b)
    BY <2>3 DEF Approve, BillingInv, TypeOK
  <2> QED
    BY <2>1, <2>2, <2>3
<1>5. request'[r].status # "none" /\ request'[r].partner = p
  <2>1. CASE Confirm(b)
    BY <2>1, <1>2 DEF Confirm, Pending
  <2>2. ASSUME NEW status \in {"cancelled", "rejected"}, Cancel(b, status)
        PROVE  request'[r].status # "none" /\ request'[r].partner = p
    <3>1. request'[r] = [request[r] EXCEPT !.status = status]
      BY <2>2, <1>2 DEF Cancel, BillingInv, TypeOK
    <3> QED
      BY <3>1, <1>3 DEF RequestType
  <2>3. CASE Approve(b)
    <3>1. request'[r] = [request[r] EXCEPT !.status = "approved"]
      BY <2>3, <1>2 DEF Approve, BillingInv, TypeOK
    <3> QED
      BY <3>1, <1>3 DEF RequestType
  <2> QED
    BY <2>1, <2>2, <2>3
<1>6. \A q \in Partners, c \in Backends \ {b} : owner[Partner(q)] = c => plan'[q] = plan[q]
  <2>1. CASE Approve(b)
    <3>1. \A q \in Partners \ {p} : plan'[q] = plan[q]
      BY <2>1 DEF Approve, BillingInv, TypeOK
    <3>2. owner[Partner(p)] = b
      BY <2>1 DEF Approve, At, BillingInv, BackendOK, ApprovalOK
    <3> QED
      BY <3>1, <3>2
  <2> QED
    BY <2>1 DEF Confirm, Cancel
<1>7. RequestsStay
  BY <1>4, <1>5 DEF RequestsStay
<1>9. ASSUME NEW q \in Partners PROVE InForce(q)' \subseteq InForce(q)
  BY <1>2, <1>4, <1>5 DEF InForce, Pending
<1>8. ASSUME NEW c \in Backends \ {b} PROVE KeepsRows(c)
  BY <1>2, <1>4, <1>6, <1>9 DEF KeepsRows
<1> QED
  BY <1>7, <1>8

LEMMA ChangeKeeps ==
  ASSUME BillingInv, NEW b \in Backends, Changes(b)
  PROVE  RequestsStay /\ \A c \in Backends \ {b} : KeepsRows(c)
<1>1. /\ tx[b].op \in {"update", "edit"} /\ tx[b].step = "cache"
      /\ request' = request /\ invoice' = invoice
  BY DEF Changes, UpdatePlan, EditPartner, At
<1>2. \A q \in Partners \ {tx[b].partner} : plan'[q] = plan[q]
  BY DEF Changes, UpdatePlan, EditPartner, BillingInv, TypeOK
<1>3. owner[Partner(tx[b].partner)] = b
  BY <1>1 DEF BillingInv, BackendOK, ChangeOK
<1> QED
  BY <1>1, <1>2, <1>3 DEF RequestsStay, KeepsRows, InForce, Pending

LEMMA SweepKeeps ==
  ASSUME BillingInv, NEW b \in Backends, EndSweep(b)
  PROVE  RequestsStay /\ \A c \in Backends \ {b} : KeepsRows(c)
<1>1. \A r \in tx[b].done : Taken(b, r) /\ owner[Partner(request[r].partner)] = b
  BY DEF BillingInv, BackendOK, SweepOK
<1>2. \A r \in Requests \ tx[b].done : request'[r] = request[r] /\ invoice'[r] = invoice[r]
  BY DEF EndSweep
<1>3. ASSUME NEW p \in Partners, plan'[p] # plan[p] PROVE owner[Partner(p)] = b
  BY <1>1, <1>3 DEF EndSweep
<1>4. ASSUME NEW r \in tx[b].done
      PROVE  request'[r].status # "none" /\ request'[r].partner = request[r].partner
  <2>1. r \in Requests /\ request[r] \in RequestType
    BY <1>1, RequestKinds DEF BillingInv, TypeOK, Taken, Pending
  <2>2. request'[r] = [request[r] EXCEPT !.status = "cancelled"]
    BY <2>1 DEF EndSweep
  <2> QED
    BY <2>1, <2>2 DEF RequestType
<1>5. RequestsStay
  BY <1>2, <1>4 DEF RequestsStay
<1>7. \A r \in tx[b].done : Pending(r)
  BY <1>1 DEF Taken
<1>8. ASSUME NEW q \in Partners PROVE InForce(q)' \subseteq InForce(q)
  BY <1>2, <1>4, <1>7 DEF InForce, Pending
<1>6. ASSUME NEW c \in Backends \ {b} PROVE KeepsRows(c)
  BY <1>1, <1>2, <1>3, <1>8 DEF KeepsRows, Taken
<1> QED
  BY <1>5, <1>6

------------------------------------------------------------------------------
(* Steps that begin a transaction.                                         *)
LEMMA BegunOK ==
  ASSUME BillingInv, NEW b \in Backends, HoldersOf(b), tx[b] = Idle,
         UNCHANGED request,
         tx'[b].done = {},
         \A l \in Locks \ {Account} : owner'[l] = b <=> owner[l] = b,
         owner'[Account] = b => tx'[b].op = "profile",
         \/ /\ tx'[b].op \in {"create", "update", "edit"} /\ tx'[b].step = "partner"
            /\ tx'[b].partner \in Partners /\ tx'[b].saw \in Plans
         \/ /\ tx'[b].op \in Decisions /\ tx'[b].step = "request"
            /\ tx'[b].request \in Requests /\ Pending(tx'[b].request)
         \/ tx'[b].op = "profile" /\ tx'[b].step = "profile"
         \/ tx'[b].op = "sweep" /\ tx'[b].step = "begin"
  PROVE  BackendOK(b)' /\ HoldersOf(b)'
<1>1. Shape(b)'
  BY DEF Shape, Decisions, Pending
<1>2. CreateOK(b)' /\ ChangeOK(b)' /\ DecisionOK(b)' /\ ApprovalOK(b)' /\ SweepOK(b)'
  BY DEF CreateOK, ChangeOK, DecisionOK, ApprovalOK, SweepOK, Decisions, At
<1>3. \A l \in Locks \ {Account} : owner'[l] # b
  <2>1. tx[b].op = "idle" /\ tx[b].done = {}
    BY DEF Idle
  <2>2. ASSUME NEW l \in Locks \ {Account} PROVE owner[l] # b
    <3>1. CASE l = Profile
      BY <2>1, <3>1 DEF HoldersOf, At
    <3>4. CASE l = Cache
      BY <2>1, <3>4 DEF HoldersOf
    <3>2. CASE \E p \in Partners : l = Partner(p)
      BY <2>1, <3>2 DEF HoldersOf, HoldsPartner, At
    <3>3. CASE \E r \in Requests : l = Request(r) \/ l = Invoice(r)
      BY <2>1, <3>3 DEF HoldersOf, HoldsRequest, Decisions
    <3> QED
      BY <3>1, <3>2, <3>3, <3>4 DEF Locks
  <2> QED
    BY <2>2
<1>4. HoldersOf(b)'
  <2>1. owner'[Profile] # b /\ owner'[Cache] # b
    BY <1>3, LocksAre, LocksDiffer
  <2>2. \A p \in Partners : owner'[Partner(p)] # b
    BY <1>3, LocksAre, LocksDiffer
  <2>3. \A r \in Requests : owner'[Request(r)] # b /\ owner'[Invoice(r)] # b
    BY <1>3, LocksAre, LocksDiffer
  <2> QED
    BY <2>1, <2>2, <2>3 DEF HoldersOf
<1> QED
  BY <1>1, <1>2, <1>4 DEF BackendOK

LEMMA BeginStep ==
  ASSUME BillingInv, HoldersKnown, NEW b \in Backends, Begins(b)
  PROVE  /\ BackendOK(b)' /\ HoldersOf(b)' /\ UNCHANGED Rows
         /\ \A c \in Backends \ {b} : KeepsTx(c)
<1>0. TypeOK /\ HoldersOf(b)
  BY DEF BillingInv, HoldersKnown
<1>1. ASSUME NEW p \in Partners, BeginCreate(b, p)
      PROVE  /\ BackendOK(b)' /\ HoldersOf(b)' /\ UNCHANGED Rows
             /\ \A c \in Backends \ {b} : KeepsTx(c)
  <2>1. /\ tx'[b] = [Idle EXCEPT !.op = "create", !.step = "partner", !.partner = p,
                                 !.saw = plan[p]]
        /\ \A c \in Backends \ {b} : tx'[c] = tx[c]
    BY <1>0, <1>1, BeginKeeps DEF BeginCreate
  <2>2. /\ tx'[b].op = "create" /\ tx'[b].step = "partner" /\ tx'[b].partner = p
        /\ tx'[b].saw = plan[p] /\ tx'[b].done = {}
    BY <2>1 DEF Idle
  <2>3. UNCHANGED <<Rows, owner>> /\ tx[b] = Idle /\ plan[p] \in Plans
    BY <1>0, <1>1 DEF BeginCreate, TypeOK
  <2>4. owner'[Account] # b
    BY <1>0, <2>3 DEF HoldersOf, Idle
  <2>5. BackendOK(b)' /\ HoldersOf(b)'
    BY <1>0, <2>2, <2>3, <2>4, BegunOK DEF Rows
  <2> QED
    BY <2>1, <2>3, <2>5 DEF KeepsTx
<1>2. ASSUME NEW p \in Partners, NEW op \in {"update", "edit"}, BeginChange(b, op, p)
      PROVE  /\ BackendOK(b)' /\ HoldersOf(b)' /\ UNCHANGED Rows
             /\ \A c \in Backends \ {b} : KeepsTx(c)
  <2>1. /\ tx'[b] = [Idle EXCEPT !.op = op, !.step = "partner", !.partner = p,
                                 !.saw = plan[p]]
        /\ \A c \in Backends \ {b} : tx'[c] = tx[c]
    BY <1>0, <1>2, BeginKeeps DEF BeginChange
  <2>2. /\ tx'[b].op = op /\ tx'[b].step = "partner" /\ tx'[b].partner = p
        /\ tx'[b].saw = plan[p] /\ tx'[b].done = {}
    BY <2>1 DEF Idle
  <2>3. UNCHANGED <<Rows, owner>> /\ tx[b] = Idle /\ plan[p] \in Plans
    BY <1>0, <1>2 DEF BeginChange, TypeOK
  <2>4. owner'[Account] # b
    BY <1>0, <2>3 DEF HoldersOf, Idle
  <2>5. BackendOK(b)' /\ HoldersOf(b)'
    BY <1>0, <2>2, <2>3, <2>4, BegunOK DEF Rows
  <2> QED
    BY <2>1, <2>3, <2>5 DEF KeepsTx
<1>3. ASSUME NEW r \in Requests, NEW op \in Decisions, BeginDecision(b, op, r)
      PROVE  /\ BackendOK(b)' /\ HoldersOf(b)' /\ UNCHANGED Rows
             /\ \A c \in Backends \ {b} : KeepsTx(c)
  <2>1. /\ tx'[b] = [Idle EXCEPT !.op = op, !.step = "request", !.request = r]
        /\ \A c \in Backends \ {b} : tx'[c] = tx[c]
    BY <1>0, <1>3, BeginKeeps DEF BeginDecision
  <2>2. tx'[b].op = op /\ tx'[b].step = "request" /\ tx'[b].request = r /\ tx'[b].done = {}
    BY <2>1 DEF Idle
  <2>3. UNCHANGED <<Rows, owner>> /\ tx[b] = Idle /\ Pending(r)
    BY <1>3 DEF BeginDecision
  <2>4. owner'[Account] # b
    BY <1>0, <2>3 DEF HoldersOf, Idle
  <2>5. BackendOK(b)' /\ HoldersOf(b)'
    BY <1>0, <2>2, <2>3, <2>4, BegunOK DEF Rows
  <2> QED
    BY <2>1, <2>3, <2>5 DEF KeepsTx
<1>4. CASE BeginProfile(b)
  <2>1. /\ tx'[b] = [Idle EXCEPT !.op = "profile", !.step = "profile"]
        /\ \A c \in Backends \ {b} : tx'[c] = tx[c]
    BY <1>0, <1>4, BeginKeeps DEF BeginProfile
  <2>2. tx'[b].op = "profile" /\ tx'[b].step = "profile" /\ tx'[b].done = {}
    BY <2>1 DEF Idle
  <2>3. UNCHANGED Rows /\ tx[b] = Idle /\ Free(b, Account) /\ Hold(b, {Account})
    BY <1>4 DEF BeginProfile
  <2>4. /\ \A c \in Backends \ {b}, l \in Locks : owner'[l] = c <=> owner[l] = c
        /\ \A l \in Locks : owner'[l] = b <=> owner[l] = b \/ l \in {Account}
    BY <1>0, <2>3, HoldKeeps
  <2>5. BackendOK(b)' /\ HoldersOf(b)'
    BY <1>0, <2>2, <2>3, <2>4, BegunOK DEF Rows
  <2> QED
    BY <2>1, <2>3, <2>4, <2>5 DEF KeepsTx
<1>5. CASE BeginSweep(b)
  <2>1. PICK due, late : Begin(b, [Idle EXCEPT !.op = "sweep", !.left = due, !.late = late])
    BY <1>5 DEF BeginSweep
  <2>2. /\ tx'[b] = [Idle EXCEPT !.op = "sweep", !.left = due, !.late = late]
        /\ \A c \in Backends \ {b} : tx'[c] = tx[c]
    BY <1>0, <2>1, BeginKeeps
  <2>3. tx'[b].op = "sweep" /\ tx'[b].step = "begin" /\ tx'[b].done = {}
    BY <2>2 DEF Idle
  <2>4. UNCHANGED <<Rows, owner>> /\ tx[b] = Idle
    BY <1>5 DEF BeginSweep
  <2>5. owner'[Account] # b
    BY <1>0, <2>4 DEF HoldersOf, Idle
  <2>6. BackendOK(b)' /\ HoldersOf(b)'
    BY <1>0, <2>3, <2>4, <2>5, BegunOK DEF Rows
  <2> QED
    BY <2>2, <2>4, <2>6 DEF KeepsTx
<1> QED
  BY <1>1, <1>2, <1>3, <1>4, <1>5 DEF Begins

------------------------------------------------------------------------------
(* Steps that take locks.                                                  *)
LEMMA HoldersStep ==
  ASSUME NEW b \in Backends, HoldersOf(b), NEW ls,
         \A l \in Locks : owner'[l] = b <=> owner[l] = b \/ l \in ls,
         request' = request, tx'[b].op = tx[b].op, tx[b].done \subseteq tx'[b].done,
         tx[b].op = "create" => tx'[b].step # "partner" /\ tx'[b].partner = tx[b].partner,
         tx[b].op \in Decisions => tx'[b].step # "request" /\ tx'[b].request = tx[b].request,
         tx[b].step = "cache" => tx[b].op = "sweep",
         At(b, "create", "account") => At(b, "create", "account")',
         Account \notin ls, Cache \in ls => tx[b].op = "sweep",
         Profile \in ls => At(b, "create", "account")',
         \A p \in Partners : Partner(p) \in ls => HoldsPartner(b, p)',
         \A r \in Requests : Request(r) \in ls => HoldsRequest(b, r)',
         \A r \in Requests : Invoice(r) \in ls => owner'[Request(r)] = b
  PROVE  HoldersOf(b)'
<1>1. owner'[Account] = b => tx'[b].op = "profile"
  BY LocksAre DEF HoldersOf
<1>2. owner'[Profile] = b => At(b, "create", "account")'
  BY LocksAre DEF HoldersOf
<1>6. owner'[Cache] = b => tx'[b].op = "sweep"
  BY LocksAre DEF HoldersOf
<1>3. ASSUME NEW p \in Partners, owner'[Partner(p)] = b PROVE HoldsPartner(b, p)'
  <2>1. CASE Partner(p) \in ls
    BY <2>1
  <2>2. CASE owner[Partner(p)] = b
    BY <2>2 DEF HoldersOf, HoldsPartner, At
  <2> QED
    BY <1>3, <2>1, <2>2, LocksAre
<1>4. ASSUME NEW r \in Requests, owner'[Request(r)] = b PROVE HoldsRequest(b, r)'
  <2>1. CASE Request(r) \in ls
    BY <2>1
  <2>2. CASE owner[Request(r)] = b
    BY <2>2 DEF HoldersOf, HoldsRequest
  <2> QED
    BY <1>4, <2>1, <2>2, LocksAre
<1>5. ASSUME NEW r \in Requests, owner'[Invoice(r)] = b PROVE owner'[Request(r)] = b
  BY <1>5, LocksAre DEF HoldersOf
<1> QED
  BY <1>1, <1>2, <1>3, <1>4, <1>5, <1>6 DEF HoldersOf

LEMMA LockStep ==
  ASSUME BillingInv, HoldersKnown, NEW b \in Backends, GoesOn(b)
  PROVE  /\ BackendOK(b)' /\ HoldersOf(b)' /\ UNCHANGED Rows
         /\ \A c \in Backends \ {b} : KeepsTx(c)
<1>0. TypeOK /\ HoldersOf(b) /\ BackendOK(b)
  BY DEF BillingInv, HoldersKnown
<1> DEFINE Ok == BackendOK(b)' /\ HoldersOf(b)'
           Kept == /\ UNCHANGED Rows
                   /\ \A c \in Backends \ {b} : KeepsTx(c)
<1>1. ASSUME CreateLocksPartner(b) PROVE Ok /\ Kept
  <2> DEFINE p == tx[b].partner
  <2>1. p \in Partners /\ tx[b].op = "create" /\ tx[b].step = "partner" /\ plan[p] = tx[b].saw
    BY <1>0, <1>1 DEF BackendOK, Shape, CreateLocksPartner, CreateChecks, At
  <2>2. UNCHANGED Rows /\ Free(b, Partner(p)) /\ Hold(b, {Partner(p)}) /\ Goto(b, "profile")
    BY <1>1 DEF CreateLocksPartner
  <2>3. /\ \A c \in Backends \ {b}, l \in Locks : owner'[l] = c <=> owner[l] = c
        /\ \A l \in Locks : owner'[l] = b <=> owner[l] = b \/ l \in {Partner(p)}
    BY <1>0, <2>2, HoldKeeps
  <2>4. /\ \A c \in Backends \ {b} : tx'[c] = tx[c]
        /\ tx'[b].step = "profile" /\ tx'[b].op = tx[b].op /\ tx'[b].partner = p
        /\ tx'[b].saw = tx[b].saw /\ tx'[b].done = tx[b].done
    BY <1>0, <2>2, GotoKeeps DEF Steps
  <2>5. BackendOK(b)'
    BY <1>0, <2>1, <2>2, <2>3, <2>4, LocksAre
       DEF BackendOK, Shape, CreateOK, ChangeOK, DecisionOK, ApprovalOK, SweepOK, At,
           Decisions, Rows
  <2>6. HoldersOf(b)'
    <3>2. \A q \in Partners : Partner(q) \in {Partner(p)} => HoldsPartner(b, q)'
      BY <2>1, <2>4, LocksDiffer DEF HoldsPartner
    <3>3. /\ Account \notin {Partner(p)} /\ Profile \notin {Partner(p)} /\ Cache \notin {Partner(p)}
          /\ \A r \in Requests : Request(r) \notin {Partner(p)} /\ Invoice(r) \notin {Partner(p)}
      BY <2>1, LocksDiffer
    <3>4. /\ request' = request /\ tx[b].done \subseteq tx'[b].done /\ tx'[b].op = tx[b].op
          /\ tx[b].op = "create" => tx'[b].step # "partner" /\ tx'[b].partner = tx[b].partner
          /\ tx[b].op \in Decisions =>
               tx'[b].step # "request" /\ tx'[b].request = tx[b].request
          /\ At(b, "create", "account") => At(b, "create", "account")'
          /\ tx[b].step # "cache"
      BY <2>1, <2>2, <2>4 DEF At, Decisions, Rows
    <3> HIDE DEF p
    <3> QED
      BY <1>0, <2>3, <3>2, <3>3, <3>4, HoldersStep
  <2> QED
    BY <2>2, <2>3, <2>4, <2>5, <2>6 DEF KeepsTx
<1>2. ASSUME CreateLocksProfile(b) PROVE Ok /\ Kept
  <2> DEFINE p == tx[b].partner
  <2>1. p \in Partners /\ tx[b].op = "create" /\ tx[b].step = "profile"
    BY <1>0, <1>2 DEF BackendOK, Shape, CreateLocksProfile, At
  <2>2. UNCHANGED Rows /\ Free(b, Profile) /\ Hold(b, {Profile}) /\ Goto(b, "account")
    BY <1>2 DEF CreateLocksProfile
  <2>3. /\ \A c \in Backends \ {b}, l \in Locks : owner'[l] = c <=> owner[l] = c
        /\ \A l \in Locks : owner'[l] = b <=> owner[l] = b \/ l \in {Profile}
    BY <1>0, <2>2, HoldKeeps
  <2>4. /\ \A c \in Backends \ {b} : tx'[c] = tx[c]
        /\ tx'[b].step = "account" /\ tx'[b].op = tx[b].op /\ tx'[b].partner = p
        /\ tx'[b].saw = tx[b].saw /\ tx'[b].done = tx[b].done
    BY <1>0, <2>2, GotoKeeps DEF Steps
  <2>5. BackendOK(b)'
    BY <1>0, <2>1, <2>2, <2>3, <2>4, LocksAre
       DEF BackendOK, Shape, CreateOK, ChangeOK, DecisionOK, ApprovalOK, SweepOK, At,
           Decisions, Rows
  <2>6. HoldersOf(b)'
    <3>1. At(b, "create", "account")'
      BY <2>1, <2>4 DEF At
    <3>2. /\ Account \notin {Profile} /\ Cache \notin {Profile}
          /\ \A q \in Partners : Partner(q) \notin {Profile}
          /\ \A r \in Requests : Request(r) \notin {Profile} /\ Invoice(r) \notin {Profile}
      BY LocksDiffer
    <3> QED
      BY <1>0, <2>1, <2>2, <2>3, <2>4, <3>1, <3>2, HoldersStep DEF Decisions, Rows
  <2> QED
    BY <2>2, <2>3, <2>4, <2>5, <2>6 DEF KeepsTx
<1>3. ASSUME DecisionLocksRequest(b) PROVE Ok /\ Kept
  <2> DEFINE r == tx[b].request
  <2>1. r \in Requests /\ tx[b].op \in Decisions /\ tx[b].step = "request" /\ Pending(r)
    BY <1>0, <1>3 DEF BackendOK, Shape, DecisionLocksRequest
  <2>2. UNCHANGED Rows /\ Free(b, Request(r)) /\ Hold(b, {Request(r)}) /\ Goto(b, "invoice")
    BY <1>3 DEF DecisionLocksRequest
  <2>3. /\ \A c \in Backends \ {b}, l \in Locks : owner'[l] = c <=> owner[l] = c
        /\ \A l \in Locks : owner'[l] = b <=> owner[l] = b \/ l \in {Request(r)}
    BY <1>0, <2>2, HoldKeeps
  <2>4. /\ \A c \in Backends \ {b} : tx'[c] = tx[c]
        /\ tx'[b].step = "invoice" /\ tx'[b].op = tx[b].op /\ tx'[b].request = r
        /\ tx'[b].done = tx[b].done
    BY <1>0, <2>2, GotoKeeps DEF Steps
  <2>5. BackendOK(b)'
    BY <1>0, <2>1, <2>2, <2>3, <2>4, LocksAre
       DEF BackendOK, Shape, CreateOK, ChangeOK, DecisionOK, ApprovalOK, SweepOK, At,
           Decisions, Rows, Pending
  <2>6. HoldersOf(b)'
    <3>2. \A q \in Requests : Request(q) \in {Request(r)} => HoldsRequest(b, q)'
      BY <2>1, <2>4, LocksDiffer DEF HoldsRequest
    <3>3. /\ Account \notin {Request(r)} /\ Profile \notin {Request(r)} /\ Cache \notin {Request(r)}
          /\ \A q \in Partners : Partner(q) \notin {Request(r)}
          /\ \A q \in Requests : Invoice(q) \notin {Request(r)}
      BY <2>1, LocksDiffer
    <3>4. /\ request' = request /\ tx[b].done \subseteq tx'[b].done /\ tx'[b].op = tx[b].op
          /\ tx[b].op = "create" => tx'[b].step # "partner" /\ tx'[b].partner = tx[b].partner
          /\ tx[b].op \in Decisions =>
               tx'[b].step # "request" /\ tx'[b].request = tx[b].request
          /\ At(b, "create", "account") => At(b, "create", "account")'
          /\ tx[b].step # "cache"
      BY <2>1, <2>2, <2>4 DEF At, Decisions, Rows
    <3> HIDE DEF r
    <3> QED
      BY <1>0, <2>3, <3>2, <3>3, <3>4, HoldersStep
  <2> QED
    BY <2>2, <2>3, <2>4, <2>5, <2>6 DEF KeepsTx
<1>4. ASSUME ApprovalLocksInvoice(b) PROVE Ok /\ Kept
  <2> DEFINE r == tx[b].request
  <2>1. /\ r \in Requests /\ tx[b].op = "approve" /\ tx[b].step = "invoice" /\ Pending(r)
        /\ owner[Request(r)] = b /\ invoice[r] = "paid"
    BY <1>0, <1>4 DEF BackendOK, Shape, DecisionOK, ApprovalLocksInvoice, At, Decisions
  <2>2. UNCHANGED Rows /\ Free(b, Invoice(r)) /\ Hold(b, {Invoice(r)}) /\ Goto(b, "partner")
    BY <1>4 DEF ApprovalLocksInvoice
  <2>3. /\ \A c \in Backends \ {b}, l \in Locks : owner'[l] = c <=> owner[l] = c
        /\ \A l \in Locks : owner'[l] = b <=> owner[l] = b \/ l \in {Invoice(r)}
    BY <1>0, <2>2, HoldKeeps
  <2>4. /\ \A c \in Backends \ {b} : tx'[c] = tx[c]
        /\ tx'[b].step = "partner" /\ tx'[b].op = tx[b].op /\ tx'[b].request = r
        /\ tx'[b].done = tx[b].done
    BY <1>0, <2>2, GotoKeeps DEF Steps
  <2>5. BackendOK(b)'
    BY <1>0, <2>1, <2>2, <2>3, <2>4, LocksAre
       DEF BackendOK, Shape, CreateOK, ChangeOK, DecisionOK, ApprovalOK, SweepOK, At,
           Decisions, Rows, Pending
  <2>6. HoldersOf(b)'
    <3>1. owner'[Request(r)] = b
      BY <2>1, <2>3, LocksAre
    <3>2. \A q \in Requests : Invoice(q) \in {Invoice(r)} => owner'[Request(q)] = b
      BY <2>1, <3>1, LocksDiffer
    <3>3. /\ Account \notin {Invoice(r)} /\ Profile \notin {Invoice(r)} /\ Cache \notin {Invoice(r)}
          /\ \A q \in Partners : Partner(q) \notin {Invoice(r)}
          /\ \A q \in Requests : Request(q) \notin {Invoice(r)}
      BY <2>1, LocksDiffer
    <3>4. /\ request' = request /\ tx[b].done \subseteq tx'[b].done /\ tx'[b].op = tx[b].op
          /\ tx[b].op = "create" => tx'[b].step # "partner" /\ tx'[b].partner = tx[b].partner
          /\ tx[b].op \in Decisions =>
               tx'[b].step # "request" /\ tx'[b].request = tx[b].request
          /\ At(b, "create", "account") => At(b, "create", "account")'
          /\ tx[b].step # "cache"
      BY <2>1, <2>2, <2>4 DEF At, Decisions, Rows
    <3> HIDE DEF r
    <3> QED
      BY <1>0, <2>3, <3>2, <3>3, <3>4, HoldersStep
  <2> QED
    BY <2>2, <2>3, <2>4, <2>5, <2>6 DEF KeepsTx
<1>5. ASSUME ApprovalLocksPartner(b) PROVE Ok /\ Kept
  <2> DEFINE r == tx[b].request
             p == request[r].partner
  <2>1. /\ r \in Requests /\ tx[b].op = "approve" /\ tx[b].step = "partner" /\ Pending(r)
        /\ owner[Request(r)] = b /\ owner[Invoice(r)] = b /\ invoice[r] = "paid"
    BY <1>0, <1>5 DEF BackendOK, Shape, DecisionOK, ApprovalOK, ApprovalLocksPartner, At,
                      Decisions
  <2>2. UNCHANGED Rows /\ Free(b, Partner(p)) /\ Hold(b, {Partner(p)}) /\ Goto(b, "cache")
    BY <1>5 DEF ApprovalLocksPartner
  <2>3. /\ \A c \in Backends \ {b}, l \in Locks : owner'[l] = c <=> owner[l] = c
        /\ \A l \in Locks : owner'[l] = b <=> owner[l] = b \/ l \in {Partner(p)}
    BY <1>0, <2>2, HoldKeeps
  <2>4. /\ \A c \in Backends \ {b} : tx'[c] = tx[c]
        /\ tx'[b].step = "cache" /\ tx'[b].op = tx[b].op /\ tx'[b].request = r
        /\ tx'[b].done = tx[b].done
    BY <1>0, <2>2, GotoKeeps DEF Steps
  <2>7. p \in Partners
    BY <1>0, <2>1, RequestKinds DEF Pending, RequestType
  <2>5. BackendOK(b)'
    BY <1>0, <2>1, <2>2, <2>3, <2>4, <2>7, LocksAre
       DEF BackendOK, Shape, CreateOK, ChangeOK, DecisionOK, ApprovalOK, SweepOK, At,
           Decisions, Rows, Pending
  <2>6. HoldersOf(b)'
    <3>2. \A q \in Partners : Partner(q) \in {Partner(p)} => HoldsPartner(b, q)'
      BY <2>1, <2>2, <2>4, <2>7, LocksDiffer DEF HoldsPartner, At, Rows
    <3>3. /\ Account \notin {Partner(p)} /\ Profile \notin {Partner(p)} /\ Cache \notin {Partner(p)}
          /\ \A q \in Requests : Request(q) \notin {Partner(p)} /\ Invoice(q) \notin {Partner(p)}
      BY <2>7, LocksDiffer
    <3>4. /\ request' = request /\ tx[b].done \subseteq tx'[b].done /\ tx'[b].op = tx[b].op
          /\ tx[b].op = "create" => tx'[b].step # "partner" /\ tx'[b].partner = tx[b].partner
          /\ tx[b].op \in Decisions =>
               tx'[b].step # "request" /\ tx'[b].request = tx[b].request
          /\ At(b, "create", "account") => At(b, "create", "account")'
          /\ tx[b].step # "cache"
      BY <2>1, <2>2, <2>4 DEF At, Decisions, Rows
    <3> HIDE DEF r, p
    <3> QED
      BY <1>0, <2>3, <3>2, <3>3, <3>4, HoldersStep
  <2> QED
    BY <2>2, <2>3, <2>4, <2>5, <2>6 DEF KeepsTx
<1>6. ASSUME ChangeLocksPartner(b) PROVE Ok /\ Kept
  <2> DEFINE p == tx[b].partner
  <2>1. /\ p \in Partners /\ tx[b].op \in {"update", "edit"} /\ tx[b].step = "partner"
        /\ tx[b].op = "update" => InForce(p) = {}
    BY <1>0, <1>6 DEF BackendOK, Shape, ChangeLocksPartner
  <2>2. UNCHANGED Rows /\ Free(b, Partner(p)) /\ Hold(b, {Partner(p)}) /\ Goto(b, "cache")
    BY <1>6 DEF ChangeLocksPartner
  <2>3. /\ \A c \in Backends \ {b}, l \in Locks : owner'[l] = c <=> owner[l] = c
        /\ \A l \in Locks : owner'[l] = b <=> owner[l] = b \/ l \in {Partner(p)}
    BY <1>0, <2>2, HoldKeeps
  <2>4. /\ \A c \in Backends \ {b} : tx'[c] = tx[c]
        /\ tx'[b].step = "cache" /\ tx'[b].op = tx[b].op /\ tx'[b].partner = p
        /\ tx'[b].saw = tx[b].saw /\ tx'[b].done = tx[b].done
    BY <1>0, <2>2, GotoKeeps DEF Steps
  <2>7. InForce(p)' = InForce(p)
    BY <2>2, <2>4 DEF InForce, Pending, Rows
  <2>5. BackendOK(b)'
    BY <1>0, <2>1, <2>2, <2>3, <2>4, <2>7, LocksAre
       DEF BackendOK, Shape, CreateOK, ChangeOK, DecisionOK, ApprovalOK, SweepOK, At,
           Decisions, Rows
  <2>6. HoldersOf(b)'
    <3>2. \A q \in Partners : Partner(q) \in {Partner(p)} => HoldsPartner(b, q)'
      BY <2>1, <2>4, LocksDiffer DEF HoldsPartner
    <3>3. /\ Account \notin {Partner(p)} /\ Profile \notin {Partner(p)} /\ Cache \notin {Partner(p)}
          /\ \A q \in Requests : Request(q) \notin {Partner(p)} /\ Invoice(q) \notin {Partner(p)}
      BY <2>1, LocksDiffer
    <3>4. /\ request' = request /\ tx[b].done \subseteq tx'[b].done /\ tx'[b].op = tx[b].op
          /\ tx[b].op = "create" => tx'[b].step # "partner" /\ tx'[b].partner = tx[b].partner
          /\ tx[b].op \in Decisions =>
               tx'[b].step # "request" /\ tx'[b].request = tx[b].request
          /\ At(b, "create", "account") => At(b, "create", "account")'
          /\ tx[b].step # "cache"
      BY <2>1, <2>2, <2>4 DEF At, Decisions, Rows
    <3> HIDE DEF p
    <3> QED
      BY <1>0, <2>3, <3>2, <3>3, <3>4, HoldersStep
  <2> QED
    BY <2>2, <2>3, <2>4, <2>5, <2>6 DEF KeepsTx
<1> QED
  BY <1>1, <1>2, <1>3, <1>4, <1>5, <1>6 DEF GoesOn

(* A sweep that goes on with its transaction.                              *)
LEMMA SweepOn ==
  ASSUME BillingInv, NEW b \in Backends, HoldersOf(b), tx[b].op = "sweep", UNCHANGED Rows,
         NEW y \in TxType, Moves(b, y), y.op = "sweep",
         NEW ls, \A l \in ls : Free(b, l), Hold(b, ls),
         Account \notin ls, Profile \notin ls,
         \A p \in Partners : Partner(p) \in ls => \E r \in y.done : request[r].partner = p,
         \A r \in Requests : Invoice(r) \in ls => owner'[Request(r)] = b,
         \/ y.step \in {"begin", "cache"}
         \/ y.step = "partner" /\ y.request \in Requests /\ Taken(b, y.request)',
         tx[b].done \subseteq y.done, y.done \subseteq Requests,
         \A r \in y.done \ tx[b].done :
           Taken(b, r)' /\ owner'[Partner(request[r].partner)] = b
  PROVE  /\ BackendOK(b)' /\ HoldersOf(b)' /\ UNCHANGED Rows
         /\ \A c \in Backends \ {b} : KeepsTx(c)
<1>0. TypeOK /\ BackendOK(b)
  BY DEF BillingInv
<1>1. tx'[b] = y /\ \A c \in Backends \ {b} : tx'[c] = tx[c]
  BY <1>0, MovesType
<1>2. /\ \A c \in Backends \ {b}, l \in Locks : owner'[l] = c <=> owner[l] = c
      /\ \A l \in Locks : owner'[l] = b <=> owner[l] = b \/ l \in ls
  BY <1>0, HoldKeeps
<1>3. Shape(b)' /\ CreateOK(b)' /\ ChangeOK(b)' /\ DecisionOK(b)' /\ ApprovalOK(b)'
  BY <1>1 DEF Shape, CreateOK, ChangeOK, DecisionOK, ApprovalOK, At, Decisions
<1>4. ASSUME NEW r \in tx[b].done
      PROVE  Taken(b, r)' /\ owner'[Partner(request[r].partner)] = b
  <2>1. Taken(b, r) /\ owner[Partner(request[r].partner)] = b /\ r \in Requests
    BY <1>0 DEF BackendOK, SweepOK, TypeOK
  <2>2. request[r].partner \in Partners
    BY <1>0, <2>1, RequestKinds DEF Taken, Pending, RequestType
  <2> QED
    BY <1>2, <2>1, <2>2, LocksAre DEF Taken, Pending, Rows
<1>5. SweepOK(b)'
  <2>1. At(b, "sweep", "partner")' => Taken(b, tx[b].request)'
    BY <1>1 DEF At, Taken, Pending
  <2>2. \A r \in y.done : Taken(b, r)' /\ owner'[Partner(request[r].partner)] = b
    BY <1>4
  <2> QED
    BY <1>1, <2>1, <2>2 DEF SweepOK, Rows, Taken, Pending
<1>6. HoldersOf(b)'
  <2>1. \A p \in Partners : Partner(p) \in ls => HoldsPartner(b, p)'
    BY <1>1 DEF HoldsPartner, Rows
  <2>2. \A r \in Requests : Request(r) \in ls => HoldsRequest(b, r)'
    BY <1>1 DEF HoldsRequest
  <2>3. /\ request' = request /\ tx'[b].op = tx[b].op /\ tx[b].done \subseteq tx'[b].done
        /\ tx[b].op # "create" /\ tx[b].op \notin Decisions /\ ~At(b, "create", "account")
    BY <1>1 DEF Rows, Decisions, At
  <2> QED
    BY <1>2, <2>1, <2>2, <2>3, HoldersStep
<1> QED
  BY <1>1, <1>2, <1>3, <1>5, <1>6 DEF BackendOK, KeepsTx

LEMMA SweepNextStep ==
  ASSUME BillingInv, HoldersKnown, NEW b \in Backends, NEW r \in Requests, SweepNext(b, r)
  PROVE  /\ BackendOK(b)' /\ HoldersOf(b)' /\ UNCHANGED Rows
         /\ \A c \in Backends \ {b} : KeepsTx(c)
<1>0. /\ TypeOK /\ HoldersOf(b) /\ BackendOK(b) /\ tx[b] \in TxType
      /\ tx[b].op = "sweep" /\ tx[b].step = "begin" /\ UNCHANGED Rows
      /\ tx[b].done \subseteq Requests
  BY DEF BillingInv, HoldersKnown, TypeOK, TxType, Steps, SweepNext, At
<1> DEFINE ls == IF Sweepable(b, r) THEN {Request(r), Invoice(r)}
                 ELSE IF Free(b, Request(r)) THEN {Request(r)} ELSE {}
<1>1. Hold(b, ls) /\ \A l \in ls : Free(b, l)
  BY DEF SweepNext, Sweepable
<1>2. /\ Account \notin ls /\ Profile \notin ls /\ \A p \in Partners : Partner(p) \notin ls
      /\ \A t \in Requests : Invoice(t) \in ls => t = r /\ Sweepable(b, r)
  BY LocksDiffer
<1>3. Sweepable(b, r) => Taken(b, r)'
  <2>1. Sweepable(b, r) => owner'[Request(r)] = b /\ owner'[Invoice(r)] = b
    BY <1>0, <1>1, HoldKeeps, LocksAre
  <2> QED
    BY <1>0, <2>1 DEF Sweepable, Taken, Pending, Rows
<1>4. \A t \in Requests : Invoice(t) \in ls => owner'[Request(t)] = b
  BY <1>2, <1>3 DEF Taken
<1>5. CASE Moves(b, Passed(tx[b], r))
  <2> DEFINE y == Passed(tx[b], r)
  <2>1. y \in TxType /\ y.op = "sweep" /\ y.step = "begin" /\ y.done = tx[b].done
    BY <1>0, SweepType
  <2> HIDE DEF ls, y
  <2> QED
    BY <1>0, <1>1, <1>2, <1>4, <1>5, <2>1, SweepOn DEF y
<1>6. CASE Sweepable(b, r) /\ Moves(b, TakenUp(tx[b], r))
  <2> DEFINE y == TakenUp(tx[b], r)
  <2>1. y \in TxType /\ y.op = "sweep" /\ y.step = "partner" /\ y.request = r /\ y.done = tx[b].done
    BY <1>0, TakenUpType
  <2> HIDE DEF ls, y
  <2> QED
    BY <1>0, <1>1, <1>2, <1>3, <1>4, <1>6, <2>1, SweepOn DEF y
<1> QED
  BY <1>0, <1>5, <1>6, NextMoves

LEMMA SweepCacheStep ==
  ASSUME BillingInv, HoldersKnown, NEW b \in Backends, SweepLocksCache(b)
  PROVE  /\ BackendOK(b)' /\ HoldersOf(b)' /\ UNCHANGED Rows
         /\ \A c \in Backends \ {b} : KeepsTx(c)
<1> DEFINE y == [tx[b] EXCEPT !.step = "begin"]
<1>1. /\ TypeOK /\ HoldersOf(b) /\ tx[b] \in TxType /\ tx[b].op = "sweep" /\ UNCHANGED Rows
      /\ Free(b, Cache) /\ Hold(b, {Cache}) /\ tx[b].done \subseteq Requests
  BY DEF BillingInv, HoldersKnown, TypeOK, TxType, Steps, SweepLocksCache, At
<1>2. Moves(b, y)
  BY DEF SweepLocksCache, Goto, Moves
<1>3. y \in TxType /\ y.op = "sweep" /\ y.step = "begin" /\ y.done = tx[b].done
  BY <1>1 DEF TxType, Steps
<1>4. /\ Account \notin {Cache} /\ Profile \notin {Cache}
      /\ \A p \in Partners : Partner(p) \notin {Cache}
      /\ \A r \in Requests : Invoice(r) \notin {Cache}
  BY LocksDiffer
<1> HIDE DEF y
<1> QED
  BY <1>1, <1>2, <1>3, <1>4, SweepOn

LEMMA SweepPartnerStep ==
  ASSUME BillingInv, HoldersKnown, NEW b \in Backends, SweepLocksPartner(b)
  PROVE  /\ BackendOK(b)' /\ HoldersOf(b)' /\ UNCHANGED Rows
         /\ \A c \in Backends \ {b} : KeepsTx(c)
<1> DEFINE r == tx[b].request
           p == request[r].partner
<1>0. /\ TypeOK /\ HoldersOf(b) /\ BackendOK(b) /\ tx[b] \in TxType
      /\ tx[b].op = "sweep" /\ UNCHANGED Rows /\ Free(b, Partner(p))
      /\ tx[b].done \subseteq Requests
  BY DEF BillingInv, HoldersKnown, TypeOK, TxType, Steps, SweepLocksPartner, At
<1>1. r \in Requests /\ Taken(b, r)
  BY <1>0 DEF SweepLocksPartner, BackendOK, Shape, SweepOK, At
<1>2. p \in Partners
  BY <1>0, <1>1, RequestKinds DEF Taken, Pending, RequestType
<1>3. CASE plan[p].company = request[r].company
  <2>9. PICK s \in {"begin", "cache"} : Moves(b, Joined(tx[b], r, s))
    BY <1>0, <1>3, PartnerMoves
  <2> DEFINE ls == {Partner(p)}
             y == Joined(tx[b], r, s)
  <2>1. Moves(b, y)
    BY <2>9
  <2>2. Hold(b, ls) /\ \A l \in ls : Free(b, l)
    BY <1>0, <1>3 DEF SweepLocksPartner
  <2>3. y \in TxType /\ y.op = "sweep" /\ y.step = s /\ y.done = tx[b].done \cup {r}
    BY <1>0, <1>1, JoinedType
  <2>4. /\ Account \notin ls /\ Profile \notin ls
        /\ \A q \in Partners : Partner(q) \in ls => q = p
        /\ \A t \in Requests : Invoice(t) \notin ls
    BY <1>2, LocksDiffer
  <2>5. /\ \A l \in Locks : owner'[l] = b <=> owner[l] = b \/ l \in ls
        /\ owner'[Partner(p)] = b
    BY <1>0, <1>2, <2>2, HoldKeeps, LocksAre
  <2>6. \A t \in y.done \ tx[b].done : Taken(b, t)' /\ owner'[Partner(request[t].partner)] = b
    BY <1>0, <1>1, <2>3, <2>5, LocksAre DEF Taken, Pending, Rows
  <2>7. \A q \in Partners : Partner(q) \in ls => \E t \in y.done : request[t].partner = q
    BY <2>3, <2>4
  <2>8. tx[b].done \subseteq y.done /\ y.done \subseteq Requests
    BY <1>0, <1>1, <2>3
  <2> HIDE DEF ls, y
  <2> QED
    BY <1>0, <2>1, <2>2, <2>3, <2>4, <2>6, <2>7, <2>8, SweepOn
<1>4. CASE plan[p].company # request[r].company
  <2> DEFINE y == Dropped(tx[b])
  <2>1. Moves(b, y)
    BY <1>0, <1>4, PartnerMoves
  <2>2. Hold(b, {})
    <3>1. owner' = owner
      BY <1>4 DEF SweepLocksPartner
    <3>2. owner = [l \in Locks |-> owner[l]]
      BY <1>0 DEF TypeOK
    <3> QED
      BY <3>1, <3>2 DEF Hold
  <2>3. y \in TxType /\ y.op = "sweep" /\ y.step = "begin" /\ y.done = tx[b].done
    BY <1>0, <1>1, SweepType
  <2> HIDE DEF y
  <2> QED
    BY <1>0, <2>1, <2>2, <2>3, SweepOn
<1> QED
  BY <1>3, <1>4

------------------------------------------------------------------------------
(* Every step keeps what the transactions know and own.                    *)
LEMMA EndStep ==
  ASSUME BillingInv, NEW b \in Backends, Ends(b)
  PROVE  /\ BackendOK(b)' /\ HoldersOf(b)' /\ RequestsStay
         /\ \A c \in Backends \ {b} : KeepsTx(c) /\ KeepsRows(c)
<1>1. End(b)
  BY DEF Ends, Changes, InsertRequest, Confirm, Cancel, Approve, UpdatePlan, EditPartner,
         SaveProfile, EndSweep, Abort, RollBack
<1>2. /\ \A c \in Backends \ {b} : KeepsTx(c)
      /\ tx'[b] = Idle /\ \A l \in Locks : owner'[l] # b
  BY <1>1, EndKeeps DEF BillingInv
<1>3. BackendOK(b)' /\ HoldersOf(b)'
  BY <1>2, IdleOK
<1>4. RequestsStay /\ \A c \in Backends \ {b} : KeepsRows(c)
  <2>1. CASE SaveProfile(b) \/ Abort(b)
    BY <2>1, RowsKept DEF SaveProfile, Abort, RollBack
  <2>2. CASE \E r \in Requests, to \in Tiers : InsertRequest(b, r, to)
    BY <2>2, InsertKeeps
  <2>3. CASE Confirm(b) \/ (\E status \in {"cancelled", "rejected"} : Cancel(b, status)) \/ Approve(b)
    BY <2>3, DecisionKeeps
  <2>4. CASE Changes(b)
    BY <2>4, ChangeKeeps
  <2>5. CASE EndSweep(b)
    BY <2>5, SweepKeeps
  <2> QED
    BY <2>1, <2>2, <2>3, <2>4, <2>5 DEF Ends
<1> QED
  BY <1>2, <1>3, <1>4

LEMMA BackendsStep ==
  ASSUME BillingInv, HoldersKnown, Next
  PROVE  (\A b \in Backends : BackendOK(b)') /\ HoldersKnown'
<1> SUFFICES ASSUME NEW c \in Backends PROVE BackendOK(c)' /\ HoldersOf(c)'
  BY DEF HoldersKnown
<1>0. TypeOK /\ BackendOK(c) /\ HoldersOf(c)
  BY DEF BillingInv, HoldersKnown
<1>1. PICK b \in Backends : Begins(b) \/ GoesOn(b) \/ Sweeps(b) \/ Ends(b)
  BY StepKinds
<1>2. ASSUME UNCHANGED Rows, BackendOK(b)' /\ HoldersOf(b)', \A d \in Backends \ {b} : KeepsTx(d)
      PROVE  BackendOK(c)' /\ HoldersOf(c)'
  BY <1>0, <1>2, RowsKept, KeptOK
<1>3. CASE Begins(b)
  BY <1>2, <1>3, BeginStep
<1>4. CASE GoesOn(b)
  BY <1>2, <1>4, LockStep
<1>5. CASE Sweeps(b)
  BY <1>2, <1>5, SweepNextStep, SweepPartnerStep, SweepCacheStep DEF Sweeps
<1>6. CASE Ends(b)
  BY <1>0, <1>6, EndStep, KeptOK
<1> QED
  BY <1>1, <1>3, <1>4, <1>5, <1>6

------------------------------------------------------------------------------
(* The rows: prices and invoices.                                          *)
LEMMA RowsUnchanged ==
  ASSUME RowsOK, UNCHANGED <<plan, request, invoice>>
  PROVE  RowsOK'
  BY DEF RowsOK, OnePending, PricedOnPlan, InvoicesFollowRequests, Pending

LEMMA InsertRows ==
  ASSUME BillingInv, NEW b \in Backends, NEW r \in Requests, NEW to \in Tiers,
         InsertRequest(b, r, to)
  PROVE  RowsOK'
<1> DEFINE p == tx[b].partner
<1>1. /\ p \in Partners /\ plan[p] = tx[b].saw /\ plan' = plan
      /\ request[r].status = "none" /\ InForce(p) = {}
  BY DEF InsertRequest, BillingInv, BackendOK, Shape, CreateOK, At
<1>2. /\ request'[r] = [status |-> "pending", partner |-> p, from |-> plan[p].tier, to |-> to,
                        priced |-> tx[b].saw.tier, company |-> tx[b].saw.company]
      /\ \A s \in Requests \ {r} : request'[s] = request[s] /\ invoice'[s] = invoice[s]
      /\ invoice'[r] = "pending_payment"
  BY DEF InsertRequest, BillingInv, TypeOK
<1>3. /\ request'[r].status = "pending" /\ request'[r].partner = p
      /\ request'[r].from = plan[p].tier /\ request'[r].priced = plan[p].tier
  BY <1>1, <1>2
<1>4. OnePending'
  BY <1>1, <1>2, <1>3 DEF BillingInv, RowsOK, OnePending, Pending, InForce
<1>5. PricedOnPlan'
  BY <1>1, <1>2, <1>3 DEF BillingInv, RowsOK, PricedOnPlan, Pending
<1>6. InvoicesFollowRequests'
  BY <1>1, <1>2, <1>3 DEF BillingInv, RowsOK, InvoicesFollowRequests, Pending
<1> QED
  BY <1>4, <1>5, <1>6 DEF RowsOK

LEMMA DecisionRows ==
  ASSUME BillingInv, NEW b \in Backends,
         Confirm(b) \/ (\E status \in {"cancelled", "rejected"} : Cancel(b, status))
  PROVE  RowsOK'
<1> DEFINE r == tx[b].request
<1>1. r \in Requests /\ Pending(r) /\ request[r] \in RequestType
  <2>1. r \in Requests /\ Pending(r)
    BY DEF BillingInv, BackendOK, Shape, DecisionOK, Confirm, Cancel, At, Decisions
  <2> QED
    BY <2>1, RequestKinds DEF BillingInv, Pending
<1>2. plan' = plan /\ \A s \in Requests \ {r} : request'[s] = request[s] /\ invoice'[s] = invoice[s]
  BY DEF Confirm, Cancel, Withdraw, BillingInv, TypeOK
<1>3. CASE Confirm(b)
  <2>1. request' = request /\ invoice'[r] = "paid"
    BY <1>1, <1>3 DEF Confirm, BillingInv, TypeOK
  <2>2. OnePending' /\ PricedOnPlan'
    BY <1>2, <2>1 DEF BillingInv, RowsOK, OnePending, PricedOnPlan, Pending
  <2>3. InvoicesFollowRequests'
    BY <1>1, <1>2, <2>1 DEF BillingInv, RowsOK, InvoicesFollowRequests, Pending
  <2> QED
    BY <2>2, <2>3 DEF RowsOK
<1>4. ASSUME NEW status \in {"cancelled", "rejected"}, Cancel(b, status) PROVE RowsOK'
  <2>1. request'[r] = [request[r] EXCEPT !.status = status]
    BY <1>1, <1>4 DEF Cancel, BillingInv, TypeOK
  <2>2. request'[r].status = status
    BY <1>1, <2>1 DEF RequestType
  <2>3. /\ invoice[r] # "paid"
        /\ invoice'[r] = IF invoice[r] = "pending_payment"
                                THEN "cancelled" ELSE invoice[r]
    BY <1>1, <1>4 DEF Cancel, Withdraw, BillingInv, TypeOK
  <2>4. OnePending' /\ PricedOnPlan'
    BY <1>2, <2>2 DEF BillingInv, RowsOK, OnePending, PricedOnPlan, Pending
  <2>5. InvoicesFollowRequests'
    BY <1>1, <1>2, <2>2, <2>3 DEF BillingInv, RowsOK, InvoicesFollowRequests, Pending
  <2> QED
    BY <2>4, <2>5 DEF RowsOK
<1> QED
  BY <1>3, <1>4

LEMMA ApproveRows ==
  ASSUME BillingInv, NEW b \in Backends, Approve(b)
  PROVE  RowsOK'
<1> DEFINE r == tx[b].request
           p == request[r].partner
<1>1. r \in Requests /\ Pending(r) /\ request[r] \in RequestType /\ invoice[r] = "paid"
  <2>1. r \in Requests /\ Pending(r) /\ invoice[r] = "paid"
    BY DEF BillingInv, BackendOK, Shape, DecisionOK, ApprovalOK, Approve, At, Decisions
  <2> QED
    BY <2>1, RequestKinds DEF BillingInv, Pending
<1>2. request'[r] = [request[r] EXCEPT !.status = "approved"]
  BY <1>1 DEF Approve, BillingInv, TypeOK
<1>3. request'[r].status = "approved"
  BY <1>1, <1>2 DEF RequestType
<1>4. /\ \A s \in Requests \ {r} : request'[s] = request[s]
      /\ \A q \in Partners \ {p} : plan'[q] = plan[q]
      /\ invoice' = invoice
  BY DEF Approve, BillingInv, TypeOK
<1>5. \A s \in Requests \ {r} : Pending(s) => request[s].partner \in Partners \ {p}
  <2>1. \A s \in Requests : Pending(s) => request[s].partner \in Partners
    BY RequestKinds DEF BillingInv, Pending, RequestType
  <2> QED
    BY <1>1, <2>1 DEF BillingInv, RowsOK, OnePending
<1>6. OnePending'
  BY <1>3, <1>4 DEF BillingInv, RowsOK, OnePending, Pending
<1>7. PricedOnPlan'
  BY <1>3, <1>4, <1>5 DEF BillingInv, RowsOK, PricedOnPlan, Pending
<1>8. InvoicesFollowRequests'
  BY <1>1, <1>3, <1>4 DEF BillingInv, RowsOK, InvoicesFollowRequests, Pending
<1> QED
  BY <1>6, <1>7, <1>8 DEF RowsOK

LEMMA PlanRows ==
  ASSUME BillingInv, UNCHANGED <<request, invoice>>,
         \A r \in Requests : Pending(r) =>
           plan'[request[r].partner].tier = plan[request[r].partner].tier
  PROVE  RowsOK'
  BY DEF BillingInv, RowsOK, OnePending, PricedOnPlan, InvoicesFollowRequests, Pending

LEMMA SweepRows ==
  ASSUME BillingInv, NEW b \in Backends, EndSweep(b)
  PROVE  RowsOK'
<1>1. \A r \in tx[b].done : r \in Requests /\ Taken(b, r) /\ request[r] \in RequestType
  <2>1. \A r \in tx[b].done : r \in Requests /\ Taken(b, r)
    BY DEF BillingInv, BackendOK, SweepOK, TypeOK
  <2> QED
    BY <2>1, RequestKinds DEF BillingInv, Taken, Pending
<1>2. \A r \in Requests \ tx[b].done : request'[r] = request[r] /\ invoice'[r] = invoice[r]
  BY DEF EndSweep
<1>3. ASSUME NEW r \in tx[b].done
      PROVE  request'[r].status = "cancelled" /\ invoice'[r] = "overdue"
  <2>1. request'[r] = [request[r] EXCEPT !.status = "cancelled"]
    BY <1>1 DEF EndSweep
  <2>2. invoice'[r] = "overdue"
    BY <1>1 DEF EndSweep
  <2> QED
    BY <1>1, <2>1, <2>2 DEF RequestType
<1>4. ASSUME NEW r \in Requests \ tx[b].done, Pending(r)
      PROVE  plan'[request[r].partner] = plan[request[r].partner]
  <2>1. request[r].partner \in Partners
    BY <1>4, RequestKinds DEF BillingInv, Pending, RequestType
  <2>2. \A s \in tx[b].done : request[s].partner # request[r].partner
    BY <1>1, <1>4 DEF Taken, BillingInv, RowsOK, OnePending
  <2> QED
    BY <2>1, <2>2 DEF EndSweep
<1>5. OnePending'
  BY <1>2, <1>3 DEF BillingInv, RowsOK, OnePending, Pending
<1>6. PricedOnPlan'
  BY <1>2, <1>3, <1>4 DEF BillingInv, RowsOK, PricedOnPlan, Pending
<1>7. InvoicesFollowRequests'
  BY <1>2, <1>3 DEF BillingInv, RowsOK, InvoicesFollowRequests, Pending
<1> QED
  BY <1>5, <1>6, <1>7 DEF RowsOK

LEMMA ChangeRows ==
  ASSUME BillingInv, NEW b \in Backends, Changes(b)
  PROVE  RowsOK'
<1>0. TypeOK /\ \A r \in Requests : Pending(r) => request[r].partner \in Partners
  BY RequestKinds DEF BillingInv, Pending, RequestType
<1>1. ASSUME NEW tier \in Tiers, UpdatePlan(b, tier) PROVE RowsOK'
  <2>1. /\ UNCHANGED <<request, invoice>> /\ InForce(tx[b].partner) = {}
        /\ \A q \in Partners \ {tx[b].partner} : plan'[q] = plan[q]
    BY <1>1 DEF UpdatePlan, At, BillingInv, BackendOK, ChangeOK, TypeOK
  <2>2. \A r \in Requests : Pending(r) => request[r].partner \in Partners \ {tx[b].partner}
    BY <1>0, <2>1 DEF InForce
  <2> QED
    BY <2>1, <2>2, PlanRows
<1>2. ASSUME NEW company \in Companies, EditPartner(b, company) PROVE RowsOK'
  <2> DEFINE p == tx[b].partner
  <2>1. UNCHANGED <<request, invoice>> /\ p \in Partners
    BY <1>2 DEF EditPartner, At, BillingInv, BackendOK, Shape
  <2>2. plan' = [plan EXCEPT ![p] = Edited(p, company)] /\ Edited(p, company).tier = plan[p].tier
    BY <1>0, <1>2, <2>1, EditedPlan, EditType
  <2>3. \A q \in Partners : plan'[q].tier = plan[q].tier
    BY <1>0, <2>2 DEF TypeOK
  <2> QED
    BY <1>0, <2>1, <2>3, PlanRows
<1> QED
  BY <1>1, <1>2 DEF Changes

LEMMA RowsStep ==
  ASSUME BillingInv, HoldersKnown, Next
  PROVE  RowsOK'
<1>1. PICK b \in Backends : Begins(b) \/ GoesOn(b) \/ Sweeps(b) \/ Ends(b)
  BY StepKinds
<1>2. ASSUME UNCHANGED Rows PROVE RowsOK'
  BY <1>2, RowsUnchanged DEF Rows, BillingInv
<1>3. CASE Begins(b)
  BY <1>2, <1>3, BeginStep
<1>4. CASE GoesOn(b)
  BY <1>2, <1>4, LockStep
<1>5. CASE Sweeps(b)
  BY <1>2, <1>5, SweepNextStep, SweepPartnerStep, SweepCacheStep DEF Sweeps
<1>6. CASE SaveProfile(b) \/ Abort(b)
  BY <1>2, <1>6 DEF SaveProfile, Abort, RollBack
<1>7. CASE Ends(b) /\ ~(SaveProfile(b) \/ Abort(b))
  BY <1>7, InsertRows, DecisionRows, ApproveRows, ChangeRows, SweepRows DEF Ends
<1> QED
  BY <1>1, <1>3, <1>4, <1>5, <1>6, <1>7

------------------------------------------------------------------------------
LEMMA BillingStep == BillingInv /\ HoldersKnown /\ [Next]_vars => BillingInv' /\ HoldersKnown'
<1> SUFFICES ASSUME BillingInv, HoldersKnown, [Next]_vars PROVE BillingInv' /\ HoldersKnown'
  OBVIOUS
<1>1. TypeOK'
  BY TypeStep
<1>2. CASE Next
  BY <1>1, <1>2, BackendsStep, RowsStep DEF BillingInv
<1>3. CASE UNCHANGED vars
  <2>1. UNCHANGED Rows /\ UNCHANGED <<tx, owner>> /\ UNCHANGED <<plan, request, invoice>>
    BY <1>3 DEF vars, Rows
  <2>2. RequestsStay /\ \A c \in Backends : KeepsTx(c) /\ KeepsRows(c)
    BY <2>1, RowsKept DEF KeepsTx
  <2>3. \A c \in Backends : BackendOK(c)' /\ HoldersOf(c)'
    BY <2>2, KeptOK DEF BillingInv, HoldersKnown
  <2>4. RowsOK'
    BY <2>1, RowsUnchanged DEF BillingInv
  <2> QED
    BY <1>1, <2>3, <2>4 DEF BillingInv, HoldersKnown
<1> QED
  BY <1>2, <1>3 DEF vars

LEMMA BillingInvariant == Spec => [](BillingInv /\ HoldersKnown)
  BY BillingInit, BillingStep, PTL DEF Spec

(* The rows and transactions have their types, for any bounds.             *)
THEOREM TypeCorrect == Spec => []TypeOK
<1>1. BillingInv => TypeOK
  BY DEF BillingInv
<1> QED
  BY <1>1, BillingInvariant, PTL

(* While a request is pending, no administrator's change, concurrent       *)
(* request, approval or sweep replaces the tier it was priced from, for    *)
(* any number of transactions and whatever plan each of them had read.     *)
THEOREM PriceHolds == Spec => []PricedOnPlan
<1>1. BillingInv => PricedOnPlan
  BY DEF BillingInv, RowsOK
<1> QED
  BY <1>1, BillingInvariant, PTL

(* Whatever commits between the steps of a transaction, an invoice and its *)
(* request agree on what has become of them.                               *)
THEOREM InvoicesAgree == Spec => []InvoicesFollowRequests
<1>1. BillingInv => InvoicesFollowRequests
  BY DEF BillingInv, RowsOK
<1> QED
  BY <1>1, BillingInvariant, PTL

------------------------------------------------------------------------------
(* Money received is not lost, whichever transactions are under way when   *)
(* it is confirmed.                                                        *)
LEMMA PaidStaysPaid ==
  ASSUME BillingInv, HoldersKnown, [Next]_vars, NEW r \in Requests, invoice[r] = "paid"
  PROVE  invoice'[r] = "paid" /\ request'[r].status \in {request[r].status, "approved"}
<1> DEFINE Kept == invoice'[r] = "paid" /\ request'[r].status \in {request[r].status, "approved"}
<1>0. request[r].status \in {"pending", "approved"}
  BY DEF BillingInv, RowsOK, InvoicesFollowRequests
<1>1. ASSUME UNCHANGED <<request, invoice>> PROVE Kept
  BY <1>1
<1>3. ASSUME NEW b \in Backends, NEW s \in Requests, NEW to \in Tiers, InsertRequest(b, s, to)
      PROVE  Kept
  BY <1>0, <1>3 DEF InsertRequest, BillingInv, TypeOK
<1>4. ASSUME NEW b \in Backends, Confirm(b) PROVE Kept
  BY <1>4 DEF Confirm, BillingInv, TypeOK
<1>5. ASSUME NEW b \in Backends, NEW status \in {"cancelled", "rejected"}, Cancel(b, status)
      PROVE  Kept
  <2>1. tx[b].request # r
    BY <1>5 DEF Cancel
  <2> QED
    BY <1>5, <2>1 DEF Cancel, Withdraw, BillingInv, TypeOK
<1>6. ASSUME NEW b \in Backends, Approve(b) PROVE Kept
  <2>1. CASE tx[b].request = r
    <3>1. request'[r] = [request[r] EXCEPT !.status = "approved"]
      BY <1>6, <2>1 DEF Approve, BillingInv, TypeOK
    <3>2. request[r] \in RequestType
      BY <1>0, RequestKinds DEF BillingInv
    <3>3. request'[r].status = "approved"
      BY <3>1, <3>2 DEF RequestType
    <3> QED
      BY <1>6, <3>3 DEF Approve
  <2>2. CASE tx[b].request # r
    BY <1>6, <2>2 DEF Approve, BillingInv, TypeOK
  <2> QED
    BY <2>1, <2>2
<1>7. ASSUME NEW b \in Backends, EndSweep(b) PROVE Kept
  <2>1. r \notin tx[b].done
    BY DEF BillingInv, BackendOK, SweepOK, Taken
  <2> QED
    BY <1>7, <2>1 DEF EndSweep
<1>8. ASSUME NEW b \in Backends, Begins(b) \/ GoesOn(b) \/ Sweeps(b) PROVE Kept
  BY <1>1, <1>8, BeginStep, LockStep, SweepNextStep, SweepPartnerStep, SweepCacheStep
     DEF Sweeps, Rows
<1>9. ASSUME NEW b \in Backends, SaveProfile(b) \/ Abort(b) PROVE Kept
  BY <1>1, <1>9 DEF SaveProfile, Abort, RollBack, Rows
<1>10. ASSUME NEW b \in Backends, Changes(b) PROVE Kept
  BY <1>1, <1>10 DEF Changes, UpdatePlan, EditPartner
<1>11. ASSUME NEW b \in Backends, Ends(b) PROVE Kept
  BY <1>3, <1>4, <1>5, <1>6, <1>7, <1>9, <1>10, <1>11 DEF Ends
<1>12. CASE UNCHANGED vars
  BY <1>1, <1>12 DEF vars
<1> QED
  BY <1>8, <1>11, <1>12, StepKinds

(* From the confirmation on, the invoice stays paid and the request can    *)
(* only be approved.                                                       *)
THEOREM PaymentsAreKept == Spec => MoneyIsKept
<1>1. BillingInv /\ HoldersKnown /\ [Next]_vars =>
        [\A r \in Requests : invoice[r] = "paid" =>
           /\ invoice'[r] = "paid"
           /\ request'[r].status \in {request[r].status, "approved"}]_vars
  BY PaidStaysPaid
<1> QED
  BY <1>1, BillingInvariant, PTL DEF Spec, MoneyIsKept

------------------------------------------------------------------------------
(* Deadlock: the locks are taken in an order, request, invoice, partner,   *)
(* cache version and, for a request, partner, profile, account.  Against   *)
(* it go the save of a profile, under the account, and a sweep that waits  *)
(* for its next partner under the cache version.  That partner is being    *)
(* edited: an approval, a change of plan or another sweep would have had   *)
(* to own, or to find absent, the request whose row the sweep owns.        *)
TwoKinds(b, c) ==
  \/ tx[b].op = "profile" /\ tx[c].op = "create"
  \/ tx[b].op = "sweep" /\ tx[c].op = "edit"

LEMMA NoCircle ==
  ASSUME BillingInv, HoldersKnown, NEW S \in SUBSET Backends,
         \A b \in S : \E c \in S : Waits(b, c),
         \A b, c \in S : Waits(b, c) /\ Waits(c, b) => ~TwoKinds(b, c)
  PROVE  S = {}
<1>1. \A b \in S : Shape(b) /\ BackendOK(b) /\ HoldersOf(b) /\ tx[b] \in TxType
  BY DEF BillingInv, BackendOK, HoldersKnown, TypeOK, TxType, Steps
<1>2. ASSUME NEW b \in S PROVE tx[b].step # "begin"
  BY DEF Waits
<1>3. ASSUME NEW b \in S, tx[b].step = "account" PROVE FALSE
  <2>1. Wants(b) = Account /\ tx[b].op = "create" /\ owner[Profile] = b
    BY <1>1, <1>3 DEF Wants, Shape, BackendOK, CreateOK, TxType, Decisions
  <2>2. PICK c \in S : c # b /\ owner[Account] = c
    BY <2>1 DEF Waits
  <2>3. tx[c].op = "profile" /\ tx[c].step = "profile"
    BY <1>1, <2>2 DEF HoldersOf, Shape
  <2>4. Waits(b, c) /\ Waits(c, b)
    BY <1>3, <2>1, <2>2, <2>3 DEF Waits, Wants
  <2> QED
    BY <2>1, <2>3, <2>4 DEF TwoKinds
<1>4. ASSUME NEW b \in S, tx[b].step = "profile" PROVE FALSE
  <2>1. Wants(b) = Profile
    BY <1>4 DEF Wants
  <2>2. PICK c \in S : owner[Profile] = c
    BY <2>1 DEF Waits
  <2>3. tx[c].step = "account"
    BY <1>1, <2>2 DEF HoldersOf, At
  <2> QED
    BY <1>3, <2>3
<1>5. ASSUME NEW c \in S, tx[c].op = "create" PROVE tx[c].step = "partner"
  BY <1>1, <1>3, <1>4, <1>5 DEF Shape
<1>6. ASSUME NEW b \in S, tx[b].step = "partner", tx[b].op \in {"approve", "sweep"}
      PROVE  \E c \in S : Waits(b, c) /\ At(c, "edit", "cache")
  <2> DEFINE r == tx[b].request
             p == request[r].partner
  <2>1. r \in Requests /\ Pending(r) /\ owner[Request(r)] = b
    BY <1>1, <1>6 DEF BackendOK, Shape, DecisionOK, SweepOK, Taken, At, Decisions
  <2>2. p \in Partners
    BY <2>1, RequestKinds DEF BillingInv, Pending, RequestType
  <2>3. Wants(b) = Partner(p)
    BY <1>6 DEF Wants
  <2>4. PICK c \in S : c # b /\ Waits(b, c) /\ owner[Partner(p)] = c
    BY <2>3 DEF Waits
  <2>5. HoldsPartner(c, p)
    BY <1>1, <2>2, <2>4 DEF HoldersOf
  <2>6. ASSUME NEW s \in Requests, Pending(s), request[s].partner = p PROVE owner[Request(s)] = b
    BY <2>1, <2>6 DEF BillingInv, RowsOK, OnePending
  <2>7. ~At(c, "approve", "cache")
    <3> SUFFICES ASSUME At(c, "approve", "cache") PROVE FALSE
      OBVIOUS
    <3>1. tx[c].request \in Requests /\ Pending(tx[c].request) /\ owner[Request(tx[c].request)] = c
      BY <1>1 DEF BackendOK, Shape, DecisionOK, At, Decisions
    <3>2. request[tx[c].request].partner = p
      BY <1>1, <2>2, <2>4, <2>5, <3>1 DEF HoldsPartner, At, BackendOK, Shape, Decisions
    <3> QED
      BY <2>4, <2>6, <3>1, <3>2
  <2>8. ASSUME NEW s \in tx[c].done, request[s].partner = p PROVE FALSE
    <3>1. s \in Requests /\ Pending(s) /\ owner[Request(s)] = c
      BY <1>1, <2>8 DEF BackendOK, SweepOK, Taken, TxType
    <3> QED
      BY <2>4, <2>6, <2>8, <3>1
  <2>9. tx[c].op \in {"update", "edit"} /\ tx[c].step = "cache" /\ tx[c].partner = p
    BY <1>5, <2>5, <2>7, <2>8 DEF HoldsPartner
  <2>10. tx[c].op # "update"
    BY <1>1, <2>1, <2>9 DEF BackendOK, ChangeOK, InForce
  <2> QED
    BY <2>4, <2>9, <2>10 DEF At
<1>7. ASSUME NEW b \in S, tx[b].step = "cache" PROVE FALSE
  <2>1. Wants(b) = Cache
    BY <1>7 DEF Wants
  <2>2. PICK d \in S : d # b /\ owner[Cache] = d
    BY <2>1 DEF Waits
  <2>3. tx[d].op = "sweep"
    BY <1>1, <2>2 DEF HoldersOf
  <2>4. tx[d].step # "cache"
    BY <2>2 DEF Waits, Wants
  <2>5. tx[d].step = "partner"
    BY <1>1, <1>2, <2>3, <2>4 DEF Shape
  <2>6. PICK e \in S : Waits(d, e) /\ At(e, "edit", "cache")
    BY <1>6, <2>3, <2>5
  <2>7. Waits(e, d)
    BY <2>2, <2>3, <2>6 DEF Waits, Wants, At
  <2> QED
    BY <2>3, <2>6, <2>7 DEF TwoKinds, At
<1>8. ASSUME NEW b \in S, tx[b].step = "partner", tx[b].op \in {"approve", "sweep"} PROVE FALSE
  BY <1>6, <1>7, <1>8 DEF At
<1>9. ASSUME NEW c \in S, tx[c].op = "sweep" PROVE FALSE
  BY <1>1, <1>2, <1>7, <1>8, <1>9 DEF Shape
<1>10. ASSUME NEW b \in S, tx[b].step = "invoice" PROVE FALSE
  <2> DEFINE r == tx[b].request
  <2>1. r \in Requests /\ owner[Request(r)] = b
    BY <1>1, <1>9, <1>10 DEF BackendOK, Shape, DecisionOK, TxType, Decisions
  <2>2. Wants(b) = Invoice(r)
    BY <1>10 DEF Wants
  <2>3. PICK c \in S : c # b /\ owner[Invoice(r)] = c
    BY <2>2 DEF Waits
  <2>4. owner[Request(r)] = c
    BY <1>1, <2>1, <2>3 DEF HoldersOf
  <2> QED
    BY <2>1, <2>3, <2>4
<1>11. ASSUME NEW c \in S PROVE tx[c].done = {}
  BY <1>1, <1>9 DEF Shape
<1>12. ASSUME NEW b \in S, tx[b].step = "partner" PROVE FALSE
  <2>1. tx[b].op \in {"create", "update", "edit"}
    BY <1>1, <1>8, <1>9, <1>12 DEF Shape, TxType, Decisions
  <2>2. Wants(b) = Partner(tx[b].partner) /\ tx[b].partner \in Partners
    BY <1>1, <1>12, <2>1 DEF Wants, Shape
  <2>3. PICK c \in S : owner[Partner(tx[b].partner)] = c
    BY <2>2 DEF Waits
  <2>4. HoldsPartner(c, tx[b].partner)
    BY <1>1, <2>2, <2>3 DEF HoldersOf
  <2> QED
    BY <1>5, <1>7, <1>11, <2>4 DEF HoldsPartner, At
<1>13. ASSUME NEW b \in S, tx[b].step = "request" PROVE FALSE
  <2>1. tx[b].request \in Requests /\ Wants(b) = Request(tx[b].request)
    BY <1>1, <1>9, <1>13 DEF Shape, TxType, Wants, Decisions
  <2>2. PICK c \in S : owner[Request(tx[b].request)] = c
    BY <2>1 DEF Waits
  <2>3. tx[c].op \in Decisions /\ tx[c].step # "request"
    BY <1>1, <1>9, <2>1, <2>2 DEF HoldersOf, HoldsRequest
  <2>4. tx[c].step \in {"invoice", "partner", "cache"}
    BY <1>1, <2>3 DEF Shape
  <2> QED
    BY <1>7, <1>10, <1>12, <2>4
<1> QED
  <2>1. ASSUME NEW b \in S PROVE FALSE
    BY <1>1, <1>2, <1>3, <1>4, <1>7, <1>10, <1>12, <1>13 DEF TxType, Steps
  <2> QED
    BY <2>1

(* Every circle of transactions that wait for each other holds two that    *)
(* block each other, a saved profile and a new request or a sweep and a    *)
(* saved partner, for any number of connections.                           *)
THEOREM DeadlocksAreOfTwoKinds == Spec => []DecisionsDoNotDeadlock
<1>1. BillingInv /\ HoldersKnown => DecisionsDoNotDeadlock
  <2> SUFFICES ASSUME BillingInv, HoldersKnown, NEW S \in (SUBSET Backends) \ {{}},
                      \A b \in S : \E c \in S : Waits(b, c),
                      \A b, c \in S : Waits(b, c) /\ Waits(c, b) => ~TwoKinds(b, c)
               PROVE  FALSE
    BY DEF DecisionsDoNotDeadlock, TwoKinds
  <2> QED
    BY NoCircle
<1> QED
  BY <1>1, BillingInvariant, PTL
=============================================================================
