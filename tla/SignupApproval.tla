---------------------------- MODULE SignupApproval ----------------------------
(***************************************************************************)
(* Signing up with one Mattermost account.  A submission of the form       *)
(* either registers a member at once or leaves a request that an           *)
(* administrator approves or rejects and the cron lets expire.  Each await *)
(* is a step, and one that fails may have taken effect.                    *)
(*                                                                         *)
(* The profile image is one upload, as UploadPromise has it (ImageUpload   *)
(* shows that the upload repository keeps to it): a call is a step, made   *)
(* at the moment its last update decides.  An upload belongs to one signed *)
(* sign-up session, so the submissions that carry it are of one kind.      *)
(***************************************************************************)
EXTENDS Naturals, FiniteSets

CONSTANTS Applies,          \* POSTs of a session in approval mode
          Directs,          \* POSTs of a session that registers directly
          Admins,           \* decisions of administrators, either way
          Crons,            \* runs of cleanup-image-uploads
          SessionLife,      \* life of a completed upload, in ticks
          ApprovalLife,     \* SIGNUP_APPROVAL_TTL_MS, in ticks
          MaxTime,          \* bound: ticks of the clock
          MaxFaults,        \* bound: errors and crashes
          None

ASSUME ActorsAssumption ==
  /\ Applies \cap (Directs \cup Admins \cup Crons) = {}
  /\ Directs \cap (Admins \cup Crons) = {} /\ Admins \cap Crons = {}
ASSUME LivesAssumption ==
  /\ SessionLife \in Nat /\ ApprovalLife \in Nat
  /\ MaxTime \in Nat /\ MaxFaults \in Nat

Submissions == Applies \cup Directs
Actors == Submissions \cup Admins \cup Crons

ASSUME NoneAssumption == None \notin Submissions

VARIABLES now, faults,
          state, asset,     \* the upload, and whom its asset is made for
          until,            \* when the upload's time is over
          request,          \* member_signup_approval_requests, by submission
          members,          \* rows of this account, by what created them
          ledger,           \* members with a row in member_profile_images
          consents,         \* members whose consents are recorded
          carries,          \* submissions that name the upload
          target,           \* the request an administrator acts on
          at,               \* where each actor is
          discarded,        \* ghost: some actor discarded the upload
          culprits,         \* ghost: submissions that did, their own member not made
          told,             \* ghost: direct submissions answered with success
          abandoned         \* ghost: members whose submission could not finish

cell == <<state, asset, discarded>>
upload == <<cell, until, culprits>>
rows == <<request, members, ledger, consents>>
ghosts == <<told, abandoned>>
vars == <<now, faults, upload, rows, carries, target, at, ghosts>>

Up == INSTANCE UploadPromise WITH Assets <- Submissions

TypeOK ==
  /\ now \in 0..MaxTime /\ faults \in 0..MaxFaults
  /\ state \in {"open", "attached", "closed"}
  /\ asset \in Submissions \cup {None} /\ discarded \in BOOLEAN /\ until \in Nat
  /\ request \in [Applies -> [status : {"none", "pending", "approved", "rejected"},
                              image : BOOLEAN, expires : Nat]]
  /\ members \subseteq Submissions /\ consents \subseteq Directs
  /\ ledger \subseteq Directs /\ told \subseteq Directs /\ abandoned \subseteq Directs
  /\ carries \subseteq Submissions /\ culprits \subseteq Submissions
  /\ target \in [Admins -> Applies \cup {None}]
  /\ at \in [Actors -> {"start", "find", "retain", "keep", "insert", "discard", "attach",
       "record", "undo", "rollback", "approve", "reject", "reject_blind", "sweep",
       "close", "end"}]

DecidedM(s, status) ==      \* mutant: a status the table's check does not know
  request' = [request EXCEPT ![s].status = IF status = "rejected" THEN "expired" ELSE status]
Decided(s, status) == request' = [request EXCEPT ![s].status = status]

NoRequest == [status |-> "none", image |-> FALSE, expires |-> 0]

(* The upload is complete when a submission can name it.                   *)
Init ==
  /\ now = 0 /\ faults = 0
  /\ Up!Init /\ until = SessionLife /\ culprits = {}
  /\ request = [s \in Applies |-> NoRequest]
  /\ members = {} /\ ledger = {} /\ consents = {}
  /\ carries \in (SUBSET Applies) \cup (SUBSET Directs)
  /\ target = [p \in Admins |-> None]
  /\ at = [x \in Actors |-> "start"]
  /\ told = {} /\ abandoned = {}

------------------------------------------------------------------------------
Fault == faults < MaxFaults /\ faults' = faults + 1
Goto(x, step) == at' = [at EXCEPT ![x] = step]
Carried(x, step, else) == IF x \in carries THEN step ELSE else

Pending(s) == request[s].status = "pending"
Expired(s) == request[s].expires <= now
Over == until <= now

(* The calls of the upload repository: what they do and what they answer.  *)
Attach(x, for, ok, failed) ==
  \/ /\ state = "open" /\ ~Over /\ Up!Attach(for)
     /\ Goto(x, ok) /\ UNCHANGED faults
  \/ /\ state = "open" /\ Over /\ Up!Close
     /\ Goto(x, failed) /\ UNCHANGED <<discarded, faults>>
  \/ /\ state # "open" /\ UNCHANGED <<cell, faults>>
     /\ Goto(x, IF state = "attached" /\ asset = for THEN ok ELSE failed)
  \/ /\ Up!Attach(for) \/ (Up!Close /\ UNCHANGED discarded) \/ UNCHANGED cell
     /\ Fault /\ Goto(x, failed)

Close == IF state = "closed" THEN UNCHANGED <<state, asset>>
         ELSE state' = "closed" /\ asset' = None

Discard(x, next) ==
  /\ discarded' = TRUE
  /\ culprits' = culprits \cup (IF at[x] = "discard" THEN {x} \cap Submissions ELSE {})
  /\ (Close /\ UNCHANGED faults) \/ ((Close \/ UNCHANGED <<state, asset>>) /\ Fault)
  /\ Goto(x, next)
  /\ UNCHANGED <<now, until, rows, carries, target, ghosts>>

------------------------------------------------------------------------------
(* POST /api/mm/signup: a completed generation or a member stops it.       *)
BeginSubmit(s) ==
  /\ at[s] = "start"
  /\ \/ Goto(s, Carried(s, "discard", "end")) /\ UNCHANGED faults
     \/ /\ members = {} /\ UNCHANGED faults
        /\ Goto(s, IF s \in Applies THEN "find" ELSE "insert")
     \/ Goto(s, "end") /\ Fault
  /\ UNCHANGED <<now, upload, rows, carries, target, ghosts>>

DiscardUpload(x) ==
  /\ at[x] = "discard" /\ Discard(x, IF x \in Crons THEN "sweep" ELSE "end")

(* createMattermostSignupApprovalRequest.  An upload is discarded unless   *)
(* it is seen to be the pending request's; a failed look sees nothing.     *)
FindPending(s) ==
  /\ at[s] = "find"
  /\ \/ /\ UNCHANGED faults /\ \A t \in Applies : ~Pending(t)
        /\ now + ApprovalLife <= MaxTime
        /\ request' = [request EXCEPT ![s].expires = now + ApprovalLife]
        /\ Goto(s, Carried(s, "retain", "insert"))
     \/ \E t \in Applies :
          /\ Pending(t) /\ UNCHANGED <<request, faults>>
          /\ Goto(s, IF request[t].image THEN "end" ELSE Carried(s, "discard", "end"))
     \/ /\ Fault /\ UNCHANGED request
        /\ \/ Goto(s, "end")
           \/ (\E t \in Applies : Pending(t)) /\ Goto(s, Carried(s, "discard", "end"))
  /\ UNCHANGED <<now, upload, members, ledger, consents, carries, target, ghosts>>

KeepUploadM(s) ==           \* mutant: the session keeps its own time
  /\ at[s] = "keep"
  /\ Goto(s, IF state = "open" THEN "insert" ELSE "end")
  /\ UNCHANGED <<now, faults, upload, rows, carries, target, ghosts>>

(* retainForApproval compares the time, and its update only the status.    *)
RetainUpload(s) ==
  /\ at[s] = "retain"
  /\ \/ Goto(s, IF state = "open" /\ ~Over THEN "keep" ELSE "end") /\ UNCHANGED faults
     \/ Goto(s, "end") /\ Fault
  /\ UNCHANGED <<now, upload, rows, carries, target, ghosts>>

KeepUpload(s) ==
  LET kept == state = "open" /\ until' = request[s].expires
  IN /\ at[s] = "keep"
     /\ \/ kept /\ Goto(s, "insert") /\ UNCHANGED faults
        \/ state # "open" /\ Goto(s, "end") /\ UNCHANGED <<until, faults>>
        \/ (kept \/ UNCHANGED until) /\ Goto(s, "end") /\ Fault
     /\ UNCHANGED <<now, cell, culprits, rows, carries, target, ghosts>>

(* The unique indexes of the table: one pending request, one per upload.   *)
Conflict(s) == \E t \in Applies :
  Pending(t) \/ (s \in carries /\ request[t].image)

(* A conflict is an error whatever is found pending then: all of them      *)
(* discard the upload, and so does an insert whose answer is lost.         *)
InsertRequest(s) ==
  LET inserted == ~Conflict(s) /\ request' = [request EXCEPT
                    ![s].status = "pending", ![s].image = s \in carries]
  IN /\ at[s] = "insert" /\ s \in Applies
     /\ \/ inserted /\ Goto(s, "end") /\ UNCHANGED faults
        \/ /\ Conflict(s) /\ UNCHANGED <<request, faults>>
           /\ Goto(s, Carried(s, "discard", "end"))
        \/ /\ inserted \/ UNCHANGED request
           /\ Fault /\ Goto(s, Carried(s, "discard", "end"))
     /\ UNCHANGED <<now, upload, members, ledger, consents, carries, target, ghosts>>

------------------------------------------------------------------------------
(* Direct registration.  members_mattermost_account_id_key admits one row. *)
MemberFreeM == Cardinality(members) < 2   \* mutant: the account is not unique
MemberFree == members = {}

InsertMemberM(d) ==         \* mutant: a lost insertion is cleaned up after
  /\ at[d] = "insert" /\ d \in Directs
  /\ \/ /\ MemberFree /\ members' = members \cup {d}
        /\ Goto(d, Carried(d, "attach", "record"))
     \/ ~MemberFree /\ Goto(d, "undo") /\ UNCHANGED members
  /\ UNCHANGED <<now, faults, upload, request, ledger, consents, carries, target, ghosts>>

InsertMember(d) ==
  /\ at[d] = "insert" /\ d \in Directs
  /\ \/ /\ MemberFree /\ members' = members \cup {d}
        /\ Goto(d, Carried(d, "attach", "record"))
        /\ UNCHANGED <<faults, abandoned>>
     \/ ~MemberFree /\ Goto(d, "end") /\ UNCHANGED <<members, faults, abandoned>>
     \/ /\ Fault /\ Goto(d, "end")
        /\ \/ UNCHANGED <<members, abandoned>>
           \/ /\ MemberFree
              /\ members' = members \cup {d} /\ abandoned' = abandoned \cup {d}
  /\ UNCHANGED <<now, upload, request, ledger, consents, carries, target, told>>

AttachImage(d) ==
  /\ at[d] = "attach" /\ d \in Directs
  /\ Attach(d, d, "record", "undo")
  /\ UNCHANGED <<now, until, culprits, rows, carries, target, ghosts>>

RecordMemberM(d) ==         \* mutant: a failure after the member is not undone
  /\ at[d] = "record"
  /\ \/ /\ ledger' = ledger \cup ({d} \cap carries) /\ consents' = consents \cup {d}
        /\ told' = told \cup {d} /\ UNCHANGED faults
     \/ UNCHANGED <<ledger, consents, told>> /\ Fault
  /\ Goto(d, "end")
  /\ UNCHANGED <<now, upload, request, members, carries, target, abandoned>>

(* The image's row, the consents and the session: rows that nothing reads  *)
(* in between.  All are written, or the catch undoes those that are.       *)
RecordMember(d) ==
  /\ at[d] = "record"
  /\ \/ /\ ledger' = ledger \cup ({d} \cap carries) /\ consents' = consents \cup {d}
        /\ told' = told \cup {d} /\ Goto(d, "end") /\ UNCHANGED faults
     \/ /\ ledger' \in {ledger, ledger \cup ({d} \cap carries)}
        /\ consents' \in {consents, consents \cup {d}}
        /\ UNCHANGED told /\ Goto(d, "undo") /\ Fault
  /\ UNCHANGED <<now, upload, request, members, carries, target, abandoned>>

UndoUpload(d) ==
  /\ at[d] = "undo"
  /\ \/ d \in carries /\ Discard(d, "rollback")
     \/ d \notin carries /\ Goto(d, "rollback")
          /\ UNCHANGED <<now, faults, upload, rows, carries, target, ghosts>>

(* Rows that refer to the member go with it.                               *)
RollbackMember(d) ==
  LET gone == /\ members' = members \ {d} /\ ledger' = ledger \ {d}
              /\ consents' = consents \ {d}
  IN /\ at[d] = "rollback" /\ Goto(d, "end")
     /\ \/ gone /\ UNCHANGED <<faults, abandoned>>
        \/ gone /\ Fault /\ UNCHANGED abandoned
        \/ Fault /\ abandoned' = abandoned \cup {d} /\ UNCHANGED <<members, ledger, consents>>
     /\ UNCHANGED <<now, upload, request, carries, target, told>>

------------------------------------------------------------------------------
(* The administrator's decision, after reading the request's context.      *)
Opens(p, t) ==
  /\ at[p] = "start" /\ request[t].status # "none"
  /\ target' = [target EXCEPT ![p] = t]

BeginApprove(p, t) ==
  /\ Opens(p, t)
  /\ \/ /\ UNCHANGED faults
        /\ Goto(p, IF ~Pending(t) \/ Expired(t) THEN "end"
                   ELSE IF request[t].image THEN "attach" ELSE "approve")
     \/ Fault /\ Goto(p, "end")
  /\ UNCHANGED <<now, upload, rows, carries, ghosts>>

AttachRequested(p) ==
  /\ at[p] = "attach" /\ p \in Admins
  /\ Attach(p, target[p], "approve", "end")
  /\ UNCHANGED <<now, until, culprits, rows, carries, target, ghosts>>

(* What approve_member_signup_approval_request checks under its row lock.  *)
Approvable(t) ==
  /\ Pending(t) /\ ~Expired(t) /\ MemberFree
  /\ request[t].image => state = "attached" /\ asset = t

(* With an image it goes on to update members.active_profile_image_id,     *)
(* a column the table has lost: an error that undoes the transaction.      *)
Approves(t) == Approvable(t) /\ ~request[t].image

ApproveRequest(p) ==
  LET t == target[p]
      approved == /\ Approves(t) /\ members' = members \cup {t}
                  /\ Decided(t, "approved")
  IN /\ at[p] = "approve" /\ Goto(p, "end")
     /\ \/ approved /\ UNCHANGED faults
        \/ ~Approves(t) /\ UNCHANGED <<request, members, faults>>
        \/ (approved \/ UNCHANGED <<request, members>>) /\ Fault
     /\ UNCHANGED <<now, upload, ledger, consents, carries, target, ghosts>>

BeginReject(p, t) ==
  /\ Opens(p, t)
  /\ \/ UNCHANGED faults /\ Goto(p, IF request[t].image THEN "reject" ELSE "reject_blind")
     \/ Fault /\ Goto(p, "reject_blind")
  /\ UNCHANGED <<now, upload, rows, carries, ghosts>>

RejectRequest(p) ==
  LET t == target[p]
      rejected == Pending(t) /\ Decided(t, "rejected")
  IN /\ at[p] \in {"reject", "reject_blind"}
     /\ \/ /\ rejected /\ UNCHANGED faults
           /\ Goto(p, IF at[p] = "reject" THEN "discard" ELSE "end")
        \/ ~Pending(t) /\ UNCHANGED <<request, faults>> /\ Goto(p, "end")
        \/ (rejected \/ UNCHANGED request) /\ Fault /\ Goto(p, "end")
     /\ UNCHANGED <<now, upload, members, ledger, consents, carries, target, ghosts>>

------------------------------------------------------------------------------
(* The cron: pending requests run out, their uploads are discarded, and    *)
(* expireStale follows unless the first part threw: it takes what is out   *)
(* of time, and closes it later.  A pass with nothing to do is no step.    *)
TimeoutsM == {s \in Applies : Pending(s) /\ Expired(s) /\ request[s].image}
                            \* mutant: an inner join with the upload's owner
Timeouts == {s \in Applies : Pending(s) /\ Expired(s)}
Stale == state = "open" /\ Over

ExpireRequests(k) ==
  LET expired == request' = [s \in Applies |->
        IF s \in Timeouts THEN [request[s] EXCEPT !.status = "rejected"] ELSE request[s]]
  IN /\ at[k] = "start" /\ (Timeouts # {} \/ Stale)
     /\ \/ /\ expired /\ UNCHANGED faults
           /\ Goto(k, IF \E s \in Timeouts : request[s].image THEN "discard" ELSE "sweep")
        \/ (expired \/ UNCHANGED request) /\ Fault /\ Goto(k, "start")
     /\ UNCHANGED <<now, upload, members, ledger, consents, carries, target, ghosts>>

Sweep(k) ==
  /\ \/ at[k] = "sweep" /\ Goto(k, IF Stale THEN "close" ELSE "start")
          /\ UNCHANGED <<faults, cell>>
     \/ /\ at[k] = "close" /\ Goto(k, "start")
        /\ \/ state = "open" /\ Up!Close /\ UNCHANGED <<discarded, faults>>
           \/ state # "open" /\ UNCHANGED <<cell, faults>>
           \/ Fault /\ UNCHANGED cell
  /\ UNCHANGED <<now, until, culprits, rows, carries, target, ghosts>>

------------------------------------------------------------------------------
(* The process of an actor dies.                                           *)
Crash(x) ==
  /\ at[x] \notin {"start", "end"} /\ Fault
  /\ Goto(x, IF x \in Crons THEN "start" ELSE "end")
  /\ abandoned' = abandoned \cup ({x} \cap members \cap Directs)
  /\ UNCHANGED <<now, upload, rows, carries, target, told>>

Tick ==
  /\ now < MaxTime /\ now' = now + 1
  /\ UNCHANGED <<faults, upload, rows, carries, target, at, ghosts>>

ApplyStep(s) ==
  \/ BeginSubmit(s) \/ FindPending(s) \/ RetainUpload(s) \/ KeepUpload(s)
  \/ InsertRequest(s)
DirectStep(d) ==
  \/ BeginSubmit(d) \/ InsertMember(d) \/ AttachImage(d) \/ RecordMember(d)
  \/ UndoUpload(d) \/ RollbackMember(d)
AdminStep(p) ==
  \/ \E t \in Applies : BeginApprove(p, t) \/ BeginReject(p, t)
  \/ AttachRequested(p) \/ ApproveRequest(p) \/ RejectRequest(p)
CronStep(k) == ExpireRequests(k) \/ DiscardUpload(k) \/ Sweep(k)

Next ==
  \/ \E s \in Applies : ApplyStep(s) \/ DiscardUpload(s)
  \/ \E d \in Directs : DirectStep(d) \/ DiscardUpload(d)
  \/ \E p \in Admins : AdminStep(p) \/ DiscardUpload(p)
  \/ \E k \in Crons : CronStep(k)
  \/ \E x \in Actors : Crash(x)
  \/ Tick

Spec == Init /\ [][Next]_vars

(* Time passes and the cron comes round.  Administrators need not act, and *)
(* a submission may hang.                                                  *)
FairSpec == Spec /\ WF_vars(Tick) /\ \A k \in Crons : WF_vars(CronStep(k))
=============================================================================
