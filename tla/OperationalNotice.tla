-------------------------- MODULE OperationalNotice --------------------------
(***************************************************************************)
(* One operational notice (to admins, or to a partner's accounts) that     *)
(* several passes of the cron may create: createDedupedOperationalNotifi-  *)
(* cation reserves its dedupe key, creates the notice, and gives the key   *)
(* back if that failed for certain.                                        *)
(*                                                                         *)
(* The reservation, the notice, its recipients and the deliveries are      *)
(* separate statements, so each is a step; a statement that fails may      *)
(* still have taken effect, and the process may die between two of them.   *)
(***************************************************************************)

CONSTANT Passes             \* calls of createDedupedOperationalNotification

VARIABLES reserved,         \* the operational_notification_dedupes row exists
          notices,          \* passes whose notification row exists
          readers,          \* passes whose notice has recipient rows
          delivered,        \* passes that sent mails or pushes
          pc,               \* where each pass is
          broken            \* ghost: an error or a crash left the key reserved

vars == <<reserved, notices, readers, delivered, pc, broken>>

Working == {"insert", "recipients", "rollback", "deliver", "release"}

TypeOK ==
  /\ reserved \in BOOLEAN /\ broken \in BOOLEAN
  /\ notices \subseteq Passes /\ readers \subseteq Passes /\ delivered \subseteq Passes
  /\ pc \in [Passes -> {"idle", "done"} \cup Working]

Init ==
  /\ reserved = FALSE /\ broken = FALSE
  /\ notices = {} /\ readers = {} /\ delivered = {}
  /\ pc = [p \in Passes |-> "idle"]

Goto(p, next) == pc' = [pc EXCEPT ![p] = next]

(* claimOperationalNotificationDedupe: the key is unique.  An error other  *)
(* than the conflict ends the pass, even if the row was written.           *)
Claim(p) ==
  /\ pc[p] = "idle"
  /\ \/ ~reserved /\ reserved' = TRUE /\ Goto(p, "insert") /\ UNCHANGED broken
     \/ reserved /\ Goto(p, "done") /\ UNCHANGED <<reserved, broken>>
     \/ Goto(p, "done") /\ UNCHANGED <<reserved, broken>>
     \/ ~reserved /\ reserved' = TRUE /\ Goto(p, "done") /\ broken' = TRUE
  /\ UNCHANGED <<notices, readers, delivered>>

InsertNotice(p) ==
  /\ pc[p] = "insert"
  /\ \/ notices' = notices \cup {p} /\ Goto(p, "recipients")
     \/ (notices' = notices \cup {p} \/ UNCHANGED notices) /\ Goto(p, "release")
  /\ UNCHANGED <<reserved, readers, delivered, broken>>

(* Accounts, preferences and recipient rows.  Nobody may want the portal   *)
(* channel, and then there are no rows to insert.                          *)
InsertRecipients(p) ==
  /\ pc[p] = "recipients"
  /\ readers' = readers \cup {p} \/ UNCHANGED readers
  /\ Goto(p, "deliver") \/ Goto(p, "rollback")
  /\ UNCHANGED <<reserved, notices, delivered, broken>>

(* rollbackCreatedOperationalNotification: recipients go with their notice. *)
(* Its own failure is PersistenceUncertain, and the key stays reserved.    *)
RollbackM(p) ==             \* mutant: a failed rollback gives the key back
  /\ pc[p] = "rollback"
  /\ \/ notices' = notices \ {p} /\ readers' = readers \ {p}
     \/ UNCHANGED <<notices, readers>>
  /\ Goto(p, "release")
  /\ UNCHANGED <<reserved, delivered, broken>>

Rollback(p) ==
  /\ pc[p] = "rollback"
  /\ \/ /\ notices' = notices \ {p} /\ readers' = readers \ {p}
        /\ Goto(p, "release") /\ UNCHANGED broken
     \/ /\ \/ notices' = notices \ {p} /\ readers' = readers \ {p}
           \/ UNCHANGED <<notices, readers>>
        /\ Goto(p, "done") /\ broken' = TRUE
  /\ UNCHANGED <<reserved, delivered>>

(* Mails and pushes: their errors are recorded, never thrown.              *)
Deliver(p) ==
  /\ pc[p] = "deliver"
  /\ delivered' = delivered \cup {p} \/ UNCHANGED delivered
  /\ Goto(p, "done")
  /\ UNCHANGED <<reserved, notices, readers, broken>>

(* releaseOperationalNotificationDedupe.  A deletion whose answer is lost  *)
(* is one that succeeded: nothing depends on the answer any more.          *)
ReleaseM(p) ==              \* mutant: a failed pass keeps its key
  /\ pc[p] = "release"
  /\ Goto(p, "done")
  /\ UNCHANGED <<reserved, notices, readers, delivered, broken>>

Release(p) ==
  /\ pc[p] = "release"
  /\ Goto(p, "done")
  /\ \/ reserved' = FALSE /\ UNCHANGED broken
     \/ broken' = TRUE /\ UNCHANGED reserved
  /\ UNCHANGED <<notices, readers, delivered>>

(* A delivery cut short has reached some of its recipients.                *)
Crash(p) ==
  /\ pc[p] \in Working
  /\ Goto(p, "done") /\ broken' = TRUE
  /\ \/ pc[p] = "deliver" /\ delivered' = delivered \cup {p}
     \/ UNCHANGED delivered
  /\ UNCHANGED <<reserved, notices, readers>>

Next ==
  \E p \in Passes :
    \/ Claim(p) \/ InsertNotice(p) \/ InsertRecipients(p) \/ Rollback(p)
    \/ Deliver(p) \/ Release(p) \/ Crash(p)

Spec == Init /\ [][Next]_vars

------------------------------------------------------------------------------
(* However passes overlap, fail half-way and are retried, one of them at   *)
(* most has its notice in a portal or has sent mails and pushes for it:    *)
(* createDedupedOperationalNotification gives no key back after that.      *)
NoticedOnce == \A p, q \in readers \cup delivered : p = q

(* A key that is reserved with nobody working on it has its notice, unless *)
(* a crash or an error left it behind: there is no lease to take it over   *)
(* (releaseOperationalNotificationDedupe and the rollback before it).      *)
ReservedMeansNoticed ==
  reserved /\ (\A p \in Passes : pc[p] \notin Working) /\ ~broken => notices # {}
=============================================================================
