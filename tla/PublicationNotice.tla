-------------------------- MODULE PublicationNotice --------------------------
(***************************************************************************)
(* Announcing a partner that becomes public.  Every cron pass and every    *)
(* admin edit that publishes the partner calls                             *)
(* sendAndRecordCampusScopedNewPartnerNotification, which takes a lease on *)
(* the partner's state row, sends a campaign that carries no idempotency   *)
(* key, and records it.  The lease has no token: whoever records, clears   *)
(* or resets writes the row, whoever holds it.                             *)
(*                                                                         *)
(* Every query is a step of its own.  One that fails throws, and may have  *)
(* taken effect or not.  Times are ages: a lease grows old as the clock    *)
(* ticks, and each claim compares it with the instant the claim began.     *)
(***************************************************************************)
EXTENDS Integers, FiniteSets

CONSTANTS Crons,            \* passes of the push-expiring-partners cron
          Editors,          \* admins who create or edit the partner
          Lease,            \* PARTNER_PUBLICATION_NOTIFICATION_LEASE_MS, in ticks
          ClaimDelay,       \* bound: ticks one claim may last
          MaxEdits,         \* bound: edits and period changes
          MaxFaults,        \* bound: errors, crashes and overrun ticks
          None              \* no lease

ASSUME CallersAssumption == Crons \cap Editors = {}
ASSUME TimesAssumption ==
  /\ Lease \in Nat \ {0} /\ ClaimDelay \in Nat
  /\ MaxEdits \in Nat /\ MaxFaults \in Nat
ASSUME NoLeaseAssumption == None \notin Nat

VARIABLES partner,          \* visibility state of the partner
          reachable,        \* its campuses have members to tell
          row,              \* partner_publication_notification_states
          pc,               \* where each caller is
          since,            \* ticks since each caller's claim began
          edits, faults,    \* how much of the bounds is used
          allowance,        \* ghost: campaigns members may still get
          told,             \* ghost: they got one since it last became public
          overtaken,        \* ghost: who has yet to record an earlier publication
          silent            \* ghost: "sent" is the record of an earlier publication

Callers == Crons \cup Editors
bounds == <<edits, faults>>
ghosts == <<allowance, told, overtaken, silent>>
vars == <<partner, reachable, row, pc, since, bounds, ghosts>>

Hidden == {"private", "upcoming", "expired"}
Claiming == {"fresh", "stale", "insert", "read", "retry"}
Holding == {"send", "record", "tidy", "clear"}
Old == Lease + ClaimDelay + 1         \* an age no claim tells from older ones
Row == [exists : BOOLEAN, sent : BOOLEAN, lease : 0..Old \cup {None}]

TypeOK ==
  /\ partner \in {"none", "public"} \cup Hidden
  /\ reachable \in BOOLEAN
  /\ row \in Row
  /\ pc \in [Callers -> {"idle", "check", "reset", "reset_send"} \cup Claiming \cup Holding]
  /\ since \in [Callers -> 0..ClaimDelay]
  /\ edits \in 0..MaxEdits /\ faults \in 0..MaxFaults
  /\ allowance \in Int /\ told \in BOOLEAN /\ silent \in BOOLEAN
  /\ overtaken \in SUBSET Callers

Init ==
  /\ partner = "none"
  /\ reachable \in BOOLEAN
  /\ row = [exists |-> FALSE, sent |-> FALSE, lease |-> None]
  /\ pc = [c \in Callers |-> "idle"]
  /\ since = [c \in Callers |-> 0]
  /\ edits = 0 /\ faults = 0
  /\ allowance = 0 /\ told = FALSE /\ overtaken = {} /\ silent = FALSE

------------------------------------------------------------------------------
(* The allowance is one campaign for each time the partner becomes public, *)
(* and one more for each event that may cost a repeat.                     *)
Allow(one) == allowance' = IF one THEN allowance + 1 ELSE allowance

Goto(c, p) ==
  /\ pc' = [pc EXCEPT ![c] = p]
  /\ since' = [since EXCEPT ![c] = IF p \in Claiming THEN @ ELSE 0]

(* The partner's own state: edits (a compare-and-set on updated_at), and   *)
(* the period that starts or ends by date, without any edit.  "private"    *)
(* stands for every hidden visibility.                                     *)
Publishes(state) == state = "public" /\ partner # "public"

Becomes(state) ==
  /\ edits < MaxEdits /\ edits' = edits + 1
  /\ partner' = state
  /\ Allow(Publishes(state))
  /\ told' = (told /\ ~Publishes(state))
  /\ overtaken' = overtaken \cup {c \in Callers : pc[c] = "record" /\ Publishes(state)}
  /\ UNCHANGED <<reachable, row, faults, silent>>

Create(e) ==
  /\ partner = "none" /\ pc[e] = "idle"
  /\ \E state \in {"public"} \cup Hidden :
       Becomes(state) /\ Goto(e, IF state = "public" THEN "fresh" ELSE "idle")

EditM(e) ==                 \* mutant: hiding the partner keeps the record
  /\ partner # "none" /\ pc[e] = "idle"
  /\ \E state \in {"public"} \cup Hidden :
       Becomes(state) /\ Goto(e, IF Publishes(state) THEN "reset_send" ELSE "idle")

Edit(e) ==
  /\ partner # "none" /\ pc[e] = "idle"
  /\ \E state \in {"public"} \cup Hidden :
       /\ Becomes(state)
       /\ Goto(e, CASE state # "public" -> "reset"
                    [] Publishes(state) -> "reset_send"
                    [] OTHER -> "idle")

PeriodTurns ==
  /\ \/ partner = "upcoming" /\ Becomes("public")
     \/ partner = "public" /\ Becomes("expired")
  /\ UNCHANGED <<pc, since>>

(* clearNewPartnerNotificationSent: its error is logged and ignored.  It   *)
(* costs a repeat when it wipes what was just announced or frees a lease   *)
(* some other caller may be about to use.                                  *)
Costs(e) == told \/ \E c \in Callers \ {e} : pc[c] # "idle"

Fault == faults < MaxFaults /\ faults' = faults + 1

Reset(e) ==
  /\ pc[e] \in {"reset", "reset_send"}
  /\ Goto(e, IF pc[e] = "reset_send" THEN "fresh" ELSE "idle")
  /\ \/ /\ row' = [exists |-> TRUE, sent |-> FALSE, lease |-> None]
        /\ Allow(Costs(e)) /\ silent' = FALSE
        /\ UNCHANGED faults \/ Fault
     \/ Fault /\ silent' = (silent \/ row.sent) /\ UNCHANGED <<row, allowance>>
  /\ UNCHANGED <<partner, reachable, edits, told, overtaken>>

------------------------------------------------------------------------------
(* runPendingPartnerPublicationNotifications reads the public partners, then *)
(* which of them were announced; a partner without a state row was not.    *)
ReadPublic(c) ==
  /\ c \in Crons /\ pc[c] = "idle"
  /\ partner = "public" /\ Goto(c, "check")
  /\ UNCHANGED <<partner, reachable, row, bounds, ghosts>>

ReadSent(c) ==
  /\ pc[c] = "check"
  /\ \/ Goto(c, IF row.sent THEN "idle" ELSE "fresh") /\ UNCHANGED faults
     \/ Goto(c, "idle") /\ Fault
  /\ UNCHANGED <<partner, reachable, row, edits, ghosts>>

(* claimPartnerPublicationNotificationLease: two conditional updates, an   *)
(* insert, a read, and a last conditional update.                          *)
FreeM == row.exists /\ ~row.sent      \* mutant: a lease in use is free
StaleM(c) == FALSE                    \* mutant: a lease never expires

Free == row.exists /\ ~row.sent /\ row.lease = None
Stale(c) == row.exists /\ ~row.sent /\ row.lease # None /\ row.lease > since[c] + Lease
Expired(c) == row.lease = None \/ row.lease >= since[c] + Lease

TakeM(c) ==                 \* mutant: the lease begins before its claim
  /\ row' = [exists |-> TRUE, sent |-> FALSE, lease |-> since[c] - 1]
  /\ UNCHANGED allowance

Take(c) ==
  /\ row' = [exists |-> TRUE, sent |-> FALSE, lease |-> since[c]]
  /\ Allow(Stale(c) /\ \E d \in Callers : pc[d] \in Holding)

(* Takes the lease if it may, else goes on; an error ends the call, and a  *)
(* lease it took nonetheless is left to expire.                            *)
Attempt(c, may, otherwise) ==
  \/ may /\ Take(c) /\ Goto(c, "send") /\ UNCHANGED faults
  \/ ~may /\ Goto(c, otherwise) /\ UNCHANGED <<row, faults, allowance>>
  \/ may /\ Take(c) /\ Goto(c, "idle") /\ Fault
  \/ Goto(c, "idle") /\ Fault /\ UNCHANGED <<row, allowance>>

ClaimLease(c) ==
  /\ \/ pc[c] = "fresh" /\ Attempt(c, Free, "stale")
     \/ pc[c] = "stale" /\ Attempt(c, Stale(c), "insert")
     \/ pc[c] = "insert" /\ Attempt(c, ~row.exists, "read")
     \/ pc[c] = "retry" /\ Attempt(c, Stale(c), "idle")
  /\ UNCHANGED <<partner, reachable, edits, told, overtaken, silent>>

ReadState(c) ==
  /\ pc[c] = "read"
  /\ \/ Goto(c, IF ~row.sent /\ Expired(c) THEN "retry" ELSE "idle") /\ UNCHANGED faults
     \/ Goto(c, "idle") /\ Fault
  /\ UNCHANGED <<partner, reachable, row, edits, ghosts>>

------------------------------------------------------------------------------
(* sendAdminNotificationCampaign: no audience, delivered, or an error that *)
(* came before the members' notifications were written, or after: then the *)
(* campaign they got excuses itself.                                       *)
SendCampaign(c) ==
  /\ pc[c] = "send"
  /\ \/ ~reachable /\ Goto(c, "tidy") /\ UNCHANGED <<faults, allowance, told>>
     \/ /\ reachable /\ Goto(c, "record") /\ UNCHANGED faults
        /\ allowance' = allowance - 1 /\ told' = TRUE
     \/ /\ Fault /\ Goto(c, "clear") /\ UNCHANGED allowance
        /\ UNCHANGED told \/ (reachable /\ told' = TRUE)
  /\ UNCHANGED <<partner, reachable, row, edits, overtaken, silent>>

(* recordNewPartnerNotificationSent: on an error the lease is cleared.  The *)
(* record may come after the partner was hidden, or published once more,   *)
(* and then tells of members who were told of an earlier publication.      *)
RecordSent(c) ==
  /\ pc[c] = "record"
  /\ \/ /\ row' = [exists |-> TRUE, sent |-> TRUE, lease |-> None]
        /\ \/ Goto(c, "idle") /\ UNCHANGED faults
           \/ Goto(c, "clear") /\ Fault
        /\ silent' = (partner # "public" \/ (c \in overtaken /\ ~told))
        /\ UNCHANGED allowance
     \/ /\ Goto(c, "clear") /\ Fault /\ UNCHANGED <<row, silent>>
        /\ Allow(TRUE)
  /\ overtaken' = overtaken \ {c}
  /\ UNCHANGED <<partner, reachable, edits, told>>

(* clearPartnerPublicationNotificationLease frees the lease, whoever holds  *)
(* it: some other caller, if this one lost its own while it was sending.   *)
(* With nobody to tell it is inside the try block, and its own failure     *)
(* makes the catch block clear once more.                                  *)
Clears(c) ==
  /\ row' = IF row.exists /\ ~row.sent THEN [row EXCEPT !.lease = None] ELSE row
  /\ Allow(reachable /\ row' # row /\ \E d \in Callers \ {c} : pc[d] \in Holding)

ClearLease(c) ==
  /\ pc[c] \in {"tidy", "clear"}
  /\ \/ Clears(c) /\ Goto(c, "idle") /\ UNCHANGED faults
     \/ /\ Clears(c) \/ UNCHANGED <<row, allowance>>
        /\ Goto(c, IF pc[c] = "tidy" THEN "clear" ELSE "idle") /\ Fault
  /\ UNCHANGED <<partner, reachable, edits, told, overtaken, silent>>

(* The process dies.  A campaign it was sending may have gone out, and one *)
(* that had gone out is not recorded.                                      *)
Crash(c) ==
  /\ pc[c] # "idle"
  /\ Fault /\ Goto(c, "idle")
  /\ Allow(pc[c] = "record")
  /\ UNCHANGED told \/ (pc[c] = "send" /\ reachable /\ told' = TRUE)
  /\ silent' = (silent \/ (row.sent /\ pc[c] \in {"reset", "reset_send"}))
  /\ overtaken' = overtaken \ {c}
  /\ UNCHANGED <<partner, reachable, row, edits>>

(* The clock.  That it passes while a campaign is being sent is a fault:   *)
(* only then can the campaign outlive its lease.                           *)
Tick ==
  /\ \A c \in Callers : pc[c] \in Claiming => since[c] < ClaimDelay
  /\ row' = [row EXCEPT !.lease = IF @ = None \/ @ = Old THEN @ ELSE @ + 1]
  /\ since' = [c \in Callers |-> IF pc[c] \in Claiming THEN since[c] + 1 ELSE 0]
  /\ IF \E c \in Callers : pc[c] \in Holding THEN Fault ELSE UNCHANGED faults
  /\ UNCHANGED <<partner, reachable, pc, edits, ghosts>>

CallerStep(c) ==
  \/ Reset(c) \/ ReadSent(c) \/ ClaimLease(c) \/ ReadState(c)
  \/ SendCampaign(c) \/ RecordSent(c) \/ ClearLease(c)

Next ==
  \/ \E e \in Editors : Create(e) \/ Edit(e)
  \/ PeriodTurns
  \/ \E c \in Callers : ReadPublic(c) \/ CallerStep(c) \/ Crash(c)
  \/ Tick

Spec == Init /\ [][Next]_vars

(* The cron comes round, a call that was made returns, the clock advances. *)
FairSpec ==
  /\ Spec /\ WF_vars(Tick)
  /\ \A c \in Crons : WF_vars(ReadPublic(c))
  /\ \A c \in Callers : WF_vars(CallerStep(c))
=============================================================================
