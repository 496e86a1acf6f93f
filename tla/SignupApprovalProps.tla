-------------------------- MODULE SignupApprovalProps --------------------------
(* What signing up must guarantee.                                         *)
EXTENDS SignupApproval

(* However submissions, decisions and the cron overlap, an account gets at *)
(* most one member, and a request is approved exactly when its member is   *)
(* there (docs/product/screen-specs/admin.md: created atomically).         *)
OneMember ==
  /\ Cardinality(members) <= 1
  /\ \A s \in Applies : request[s].status = "approved" <=> s \in members

(* A direct sign-up that has ended left a member with consents and image,  *)
(* or none (rollbackCreatedSignupMember), unless its process died or the   *)
(* database did not answer the insertion or the deletion.                  *)
CompleteOrRolledBack ==
  /\ told \subseteq members
  /\ \A d \in Directs : at[d] = "end" /\ d \in members /\ d \notin abandoned =>
       d \in told /\ d \in consents /\ (d \in carries => d \in ledger)

(* A registered member keeps the image of the form: nothing takes it but   *)
(* another submission of the same form that finds the member and discards. *)
MemberKeepsImage ==
  \A d \in told \cap carries :
    (state = "attached" /\ asset = d) \/ culprits \ {d} # {}

(* For as long as a request can still be approved, its image is lost only  *)
(* to a submission that discards it, to a sweep already at work when it    *)
(* was retained, to a failed call, or to the shorter time for which an     *)
(* earlier submission of the form retained it after all: never to the      *)
(* time the upload was given for the sign-up session.                      *)
RequestKeepsImage ==
  [][\A s \in Applies :
       Pending(s) /\ ~Expired(s) /\ request[s].image /\ state # "closed" /\ state' = "closed"
         => \/ culprits' # {} \/ faults' # faults
            \/ \E k \in Crons : at[k] = "close"
            \/ \E t \in (Applies \cap carries) \ {s} : until = request[t].expires
            \/ request'[s].status # "pending"]_vars

(* Every request is decided in the end: the cron rejects what no           *)
(* administrator has decided (approval_timeout).                           *)
RequestsAreDecided == \A s \in Applies : Pending(s) ~> ~Pending(s)

(* docs/product/screen-specs/admin.md: an approval creates the member.     *)
(* An approving call that is answered, when all it checks holds, does.     *)
ApprovalMakesMember ==
  [][\A p \in Admins :
       at[p] = "approve" /\ at'[p] = "end" /\ faults' = faults /\ Approvable(target[p])
         => target[p] \in members']_vars
=============================================================================
