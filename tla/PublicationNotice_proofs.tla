------------------------ MODULE PublicationNotice_proofs ------------------------
(***************************************************************************)
(* For any number of cron passes, editors, edits and faults: every repeat  *)
(* of an announcement is paid for, and a published partner that counts as  *)
(* announced was.                                                          *)
(***************************************************************************)
EXTENDS PublicationNoticeProps, FiniteSetTheorems, TLAPS

(* What may still be sent without a further excuse: a campaign of each     *)
(* caller about to send, and one more if a caller may take the lease that  *)
(* nobody uses, or members have not been told of this publication.         *)
Senders == {c \in Callers : pc[c] = "send"}
Claimable ==
  ~row.sent /\ (row.lease = None \/ \A c \in Callers : pc[c] \notin {"send", "record"})
Untold == ~told /\ Senders = {}
Owed == Cardinality(Senders) + (IF Claimable \/ Untold THEN 1 ELSE 0)

(* Nothing is owed before the first publication.                           *)
Unpublished ==
  /\ partner # "public" /\ ~told /\ ~row.sent /\ row.lease = None
  /\ \A c \in Callers : pc[c] \in {"idle", "reset"}

Funded ==
  /\ IsFiniteSet(Senders)
  /\ allowance >= 0
  /\ reachable => Unpublished \/ allowance >= Owed

NewRow == ~row.exists => ~row.sent /\ row.lease = None
Unmade == partner = "none" => ~row.sent /\ \A c \in Callers : pc[c] = "idle"

(* An old record of a partner that is to be public is on its way out; one  *)
(* whose period has ended waits for the edit that renews it.               *)
Resetting == \E e \in Editors : pc[e] \in {"reset", "reset_send"}
OldRecord ==
  row.sent /\ partner # "expired" /\ ~(partner = "public" /\ told) => silent \/ Resetting

NoticeInv == TypeOK /\ NewRow /\ Unmade /\ OldRecord /\ Funded

(* Who is to record a campaign sent it for this publication, or has been   *)
(* overtaken.                                                              *)
Recorders == \A c \in Callers : pc[c] = "record" => told \/ c \in overtaken

------------------------------------------------------------------------------
PCs == {"idle", "check", "reset", "reset_send"} \cup Claiming \cup Holding

LEMMA NoticeInit == Init => NoticeInv
<1> SUFFICES ASSUME Init PROVE NoticeInv
  OBVIOUS
<1>1. TypeOK
  <2>1. row \in Row
    BY DEF Init, Row
  <2>2. pc \in [Callers -> PCs]
    BY DEF Init, PCs
  <2>3. since \in [Callers -> 0..ClaimDelay] /\ edits \in 0..MaxEdits /\ faults \in 0..MaxFaults
    BY TimesAssumption DEF Init
  <2>4. allowance \in Int
    BY DEF Init
  <2>5. partner \in {"none", "public"} \cup Hidden /\ reachable \in BOOLEAN
    BY DEF Init
  <2>6. told \in BOOLEAN /\ silent \in BOOLEAN /\ overtaken \in SUBSET Callers
    BY DEF Init
  <2> QED
    BY <2>1, <2>2, <2>3, <2>4, <2>5, <2>6 DEF TypeOK, PCs
<1>2. NewRow /\ Unmade /\ OldRecord
  BY DEF Init, NewRow, Unmade, OldRecord
<1>3. Senders = {} /\ Unpublished
  BY DEF Init, Senders, Unpublished
<1>4. Funded
  BY <1>3, FS_EmptySet DEF Init, Funded
<1> QED
  BY <1>1, <1>2, <1>4 DEF NoticeInv

(* How a caller moves, and how many are about to send.                     *)
Moves(c, p) == pc'[c] = p /\ \A d \in Callers \ {c} : pc'[d] = pc[d]

LEMMA GotoIs ==
  ASSUME NoticeInv, NEW c \in Callers, NEW p \in PCs, Goto(c, p)
  PROVE  /\ Moves(c, p)
         /\ pc' \in [Callers -> PCs] /\ since' \in [Callers -> 0..ClaimDelay]
  BY TimesAssumption DEF NoticeInv, TypeOK, Goto, Moves, PCs

LEMMA SendersMove ==
  ASSUME NoticeInv, NEW c \in Callers, NEW p, Moves(c, p)
  PROVE  /\ IsFiniteSet(Senders)' /\ Cardinality(Senders)' \in Nat
         /\ Cardinality(Senders) \in Nat
         /\ (Senders = {} <=> Cardinality(Senders) = 0)
         /\ (Senders = {} <=> Cardinality(Senders) = 0)'
         /\ (p = "send" /\ pc[c] # "send") => Cardinality(Senders)' = Cardinality(Senders) + 1
         /\ (p # "send" /\ pc[c] = "send") => Cardinality(Senders) = Cardinality(Senders)' + 1
         /\ (p = "send" <=> pc[c] = "send") => Senders' = Senders
<1>1. IsFiniteSet(Senders)
  BY DEF NoticeInv, Funded
<1>2. CASE p = "send" /\ pc[c] # "send"
  <2>1. Senders' = Senders \cup {c} /\ c \notin Senders
    BY <1>2 DEF Senders, Moves
  <2> HIDE DEF Senders
  <2> QED
    BY <1>1, <1>2, <2>1, FS_AddElement, FS_CardinalityType, FS_EmptySet
<1>3. CASE p # "send" /\ pc[c] = "send"
  <2>1. Senders' = Senders \ {c} /\ c \in Senders
    BY <1>3 DEF Senders, Moves
  <2>2. IsFiniteSet(Senders') /\ Cardinality(Senders') = Cardinality(Senders) - 1
    BY <1>1, <2>1, FS_RemoveElement
  <2> QED
    BY <1>1, <1>3, <2>1, <2>2, FS_CardinalityType, FS_EmptySet
<1>4. CASE p = "send" <=> pc[c] = "send"
  <2>1. Senders' = Senders
    BY <1>4 DEF Senders, Moves
  <2> QED
    BY <1>1, <1>4, <2>1, FS_CardinalityType, FS_EmptySet
<1> QED
  BY <1>2, <1>3, <1>4

------------------------------------------------------------------------------
(* What a step of caller c owes: its own part of the invariant, and the    *)
(* bounds of Owed.                                                         *)
LEMMA OwedBounds ==
  ASSUME Cardinality(Senders) \in Nat
  PROVE  /\ Owed \in Nat
         /\ Cardinality(Senders) <= Owed /\ Owed <= Cardinality(Senders) + 1
         /\ (Claimable \/ Untold) => Owed = Cardinality(Senders) + 1
         /\ ~(Claimable \/ Untold) => Owed = Cardinality(Senders)
  BY DEF Owed

LEMMA TypeKept ==
  ASSUME NoticeInv, NEW c \in Callers, NEW p \in PCs, Goto(c, p),
         UNCHANGED <<partner, reachable, edits>>, row' \in Row,
         faults' = faults \/ Fault,
         allowance' \in Int, told' \in BOOLEAN, silent' \in BOOLEAN,
         overtaken' \in SUBSET Callers
  PROVE  TypeOK'
<1>1. pc' \in [Callers -> PCs] /\ since' \in [Callers -> 0..ClaimDelay]
  BY GotoIs
<1>2. faults' \in 0..MaxFaults
  BY TimesAssumption DEF NoticeInv, TypeOK, Fault
<1> QED
  BY <1>1, <1>2 DEF NoticeInv, TypeOK, PCs

(* Only a made partner keeps a caller busy.                                *)
LEMMA UnmadeKept ==
  ASSUME NoticeInv, NEW c \in Callers, pc[c] # "idle" \/ partner = "public",
         UNCHANGED partner
  PROVE  Unmade'
  BY DEF NoticeInv, Unmade

LEMMA WalkStep ==
  ASSUME NoticeInv, NEW c \in Callers, NEW p \in PCs, Goto(c, p),
         pc[c] \notin {"send", "record", "reset", "reset_send"},
         p \notin {"send", "record", "reset", "reset_send"},
         pc[c] # "idle" \/ partner = "public",
         UNCHANGED <<partner, reachable, row, edits, ghosts>>,
         faults' = faults \/ Fault
  PROVE  NoticeInv'
<1>1. TypeOK'
  BY TypeKept DEF NoticeInv, TypeOK, ghosts
<1>2. NewRow' /\ Unmade'
  BY UnmadeKept DEF NoticeInv, NewRow
<1>3. Moves(c, p)
  BY GotoIs
<1>4. OldRecord'
  BY <1>3 DEF NoticeInv, OldRecord, Resetting, Moves, ghosts, Callers
<1>5. IsFiniteSet(Senders)' /\ Senders' = Senders
  BY <1>3, SendersMove
<1>6. Claimable' = Claimable /\ Untold' = Untold
  BY <1>3, <1>5 DEF Claimable, Untold, Moves, ghosts
<1>7. Owed' = Owed
  BY <1>5, <1>6 DEF Owed
<1>8. ~Unpublished
  BY DEF Unpublished
<1>9. Funded'
  BY <1>5, <1>7, <1>8 DEF NoticeInv, Funded, ghosts
<1> QED
  BY <1>1, <1>2, <1>4, <1>9 DEF NoticeInv

(* The partner's own state changes: each publication is worth a campaign.  *)
LEMMA BecomesFunds ==
  ASSUME NoticeInv, NEW state, Becomes(state), Senders' = Senders,
         \A d \in Callers : pc'[d] \in {"send", "record"} <=> pc[d] \in {"send", "record"},
         ~Publishes(state) /\ Unpublished => Unpublished'
  PROVE  Funded'
<1>1. IsFiniteSet(Senders) /\ Cardinality(Senders) \in Nat /\ Cardinality(Senders)' = Cardinality(Senders)
  BY FS_CardinalityType DEF NoticeInv, Funded
<1>2. Claimable' = Claimable
  BY DEF Claimable, Becomes
<1>3. CASE Publishes(state)
  <2>1. allowance' = allowance + 1 /\ reachable' = reachable
    BY <1>3 DEF Becomes, Allow
  <2>2. Unpublished => Senders = {}
    BY DEF Unpublished, Senders
  <2>3. Unpublished => Cardinality(Senders) = 0
    BY <2>2, FS_EmptySet
  <2>4. Owed' <= Cardinality(Senders) + 1 /\ Owed' \in Nat
    BY <1>1 DEF Owed
  <2>5. Cardinality(Senders) <= Owed /\ Owed \in Nat
    BY <1>1, OwedBounds
  <2> QED
    BY <1>1, <2>1, <2>3, <2>4, <2>5 DEF NoticeInv, TypeOK, Funded
<1>4. CASE ~Publishes(state)
  <2>1. allowance' = allowance /\ reachable' = reachable /\ (told' <=> told)
    BY <1>4 DEF Becomes, Allow, NoticeInv, TypeOK
  <2>2. Owed' = Owed
    BY <1>1, <1>2, <2>1 DEF Owed, Untold
  <2> QED
    BY <1>1, <1>4, <2>1, <2>2 DEF NoticeInv, Funded
<1> QED
  BY <1>3, <1>4

LEMMA BecomesType ==
  ASSUME NoticeInv, NEW state \in {"public"} \cup Hidden, Becomes(state),
         pc' \in [Callers -> PCs], since' \in [Callers -> 0..ClaimDelay]
  PROVE  TypeOK' /\ NewRow'
<1>1. edits' \in 0..MaxEdits
  BY TimesAssumption DEF NoticeInv, TypeOK, Becomes
<1>2. allowance' \in Int /\ told' \in BOOLEAN /\ overtaken' \in SUBSET Callers
  BY DEF NoticeInv, TypeOK, Becomes, Allow
<1>3. TypeOK'
  BY <1>1, <1>2 DEF NoticeInv, TypeOK, Becomes, PCs
<1> QED
  BY <1>3 DEF NoticeInv, NewRow, Becomes

LEMMA CreateStep ==
  ASSUME NoticeInv, NEW e \in Editors, Create(e)
  PROVE  NoticeInv'
<1> PICK state \in {"public"} \cup Hidden :
      Becomes(state) /\ Goto(e, IF state = "public" THEN "fresh" ELSE "idle")
  BY DEF Create
<1> DEFINE p == IF state = "public" THEN "fresh" ELSE "idle"
<1>1. p \in PCs /\ e \in Callers /\ p \notin {"send", "record"} /\ pc[e] = "idle" /\ Goto(e, p)
  BY DEF PCs, Claiming, Callers, Create
<1>2. state # "public" => p = "idle"
  OBVIOUS
<1> HIDE DEF p
<1>3. /\ Moves(e, p)
      /\ pc' \in [Callers -> PCs] /\ since' \in [Callers -> 0..ClaimDelay]
  BY <1>1, GotoIs
<1>4. TypeOK' /\ NewRow'
  BY <1>3, BecomesType
<1>5. Unmade'
  BY DEF Unmade, Becomes, Hidden
<1>6. OldRecord'
  BY DEF NoticeInv, OldRecord, Unmade, Create, Becomes
<1>7. Senders' = Senders
  BY <1>1, <1>3, SendersMove
<1>8. \A d \in Callers : pc'[d] \in {"send", "record"} <=> pc[d] \in {"send", "record"}
  BY <1>1, <1>3 DEF Moves
<1>9. ASSUME ~Publishes(state), Unpublished PROVE Unpublished'
  BY <1>1, <1>2, <1>3, <1>9 DEF Unpublished, Publishes, Becomes, Allow, Moves
<1>10. Funded'
  BY <1>7, <1>8, <1>9, BecomesFunds
<1> QED
  BY <1>4, <1>5, <1>6, <1>10 DEF NoticeInv

LEMMA EditStep ==
  ASSUME NoticeInv, NEW e \in Editors, Edit(e)
  PROVE  NoticeInv'
<1> DEFINE Next_(state) == CASE state # "public" -> "reset"
                             [] Publishes(state) -> "reset_send"
                             [] OTHER -> "idle"
<1> PICK state \in {"public"} \cup Hidden : Becomes(state) /\ Goto(e, Next_(state))
  BY DEF Edit
<1> DEFINE p == Next_(state)
<1>1. p \in PCs /\ e \in Callers /\ p \notin {"send", "record"} /\ pc[e] = "idle" /\ Goto(e, p)
  BY DEF PCs, Callers, Edit, Publishes
<1>2. /\ state # "public" => p = "reset"
      /\ Publishes(state) => p = "reset_send"
      /\ state = "public" /\ ~Publishes(state) => p = "idle"
  BY DEF Publishes
<1> HIDE DEF p
<1>3. /\ Moves(e, p)
      /\ pc' \in [Callers -> PCs] /\ since' \in [Callers -> 0..ClaimDelay]
  BY <1>1, GotoIs
<1>4. TypeOK' /\ NewRow'
  BY <1>3, BecomesType
<1>5. Unmade'
  BY DEF Unmade, Becomes, Hidden
<1>6. OldRecord'
  <2>1. CASE p \in {"reset", "reset_send"}
    BY <1>1, <1>3, <2>1 DEF OldRecord, Resetting, Moves
  <2>2. CASE p = "idle"
    <3>1. partner = "public" /\ partner' = "public" /\ (told' <=> told)
      BY <1>2, <2>2 DEF Publishes, Becomes, NoticeInv, TypeOK
    <3>2. Resetting => Resetting'
      BY <1>1, <1>3 DEF Resetting, Moves, Callers
    <3> QED
      BY <3>1, <3>2 DEF NoticeInv, OldRecord, Becomes
  <2> QED
    BY <1>2, <2>1, <2>2
<1>7. Senders' = Senders
  BY <1>1, <1>3, SendersMove
<1>8. \A d \in Callers : pc'[d] \in {"send", "record"} <=> pc[d] \in {"send", "record"}
  BY <1>1, <1>3 DEF Moves
<1>9. ASSUME ~Publishes(state), Unpublished PROVE Unpublished'
  BY <1>1, <1>2, <1>3, <1>9 DEF Unpublished, Publishes, Becomes, Allow, Moves
<1>10. Funded'
  BY <1>7, <1>8, <1>9, BecomesFunds
<1> QED
  BY <1>4, <1>5, <1>6, <1>10 DEF NoticeInv

LEMMA PeriodStep ==
  ASSUME NoticeInv, PeriodTurns
  PROVE  NoticeInv'
<1>1. PICK state \in {"public", "expired"} :
        /\ Becomes(state)
        /\ (state = "public" /\ partner = "upcoming") \/ (state = "expired" /\ partner = "public")
  BY DEF PeriodTurns
<1>2. UNCHANGED <<pc, since>>
  BY DEF PeriodTurns
<1>3. TypeOK' /\ NewRow'
  BY <1>1, <1>2, BecomesType DEF NoticeInv, TypeOK, Hidden, PCs
<1>4. Unmade'
  BY <1>1 DEF Unmade, Becomes
<1>5. OldRecord'
  BY <1>1, <1>2 DEF NoticeInv, OldRecord, Resetting, Becomes
<1>6. Senders' = Senders
  BY <1>2 DEF Senders
<1>7. Unpublished /\ ~Publishes(state) => Unpublished'
  BY <1>1, <1>2 DEF Unpublished, Publishes
<1>8. Funded'
  BY <1>1, <1>2, <1>6, <1>7, BecomesFunds
<1> QED
  BY <1>3, <1>4, <1>5, <1>8 DEF NoticeInv

------------------------------------------------------------------------------
(* Clearing the record costs a repeat exactly when members were told or    *)
(* some other caller is at work; otherwise a campaign was owed already.    *)
Cleared == [exists |-> TRUE, sent |-> FALSE, lease |-> None]

LEMMA ResetStep ==
  ASSUME NoticeInv, NEW e \in Callers, Reset(e)
  PROVE  NoticeInv'
<1> DEFINE p == IF pc[e] = "reset_send" THEN "fresh" ELSE "idle"
<1>1. /\ p \in PCs /\ Goto(e, p) /\ pc[e] \in {"reset", "reset_send"}
      /\ p \notin {"send", "record"}
      /\ pc[e] = "reset" => p = "idle"
  BY DEF PCs, Claiming, Reset
<1> HIDE DEF p
<1>2. Moves(e, p)
  BY <1>1, GotoIs
<1>3. Unmade'
  BY <1>1, UnmadeKept DEF Reset
<1>4. /\ Senders' = Senders /\ IsFiniteSet(Senders)' /\ Cardinality(Senders) \in Nat
      /\ Senders = {} <=> Cardinality(Senders) = 0
  <2>1. p = "send" <=> pc[e] = "send"
    BY <1>1
  <2>2. Senders' = Senders /\ IsFiniteSet(Senders)' /\ Cardinality(Senders) \in Nat
    BY <1>2, <2>1, SendersMove
  <2> QED
    BY <2>2, <1>2, SendersMove
<1>5. /\ UNCHANGED <<partner, reachable, edits, told, overtaken>>
      /\ faults' = faults \/ Fault
  BY DEF Reset
<1>6. CASE /\ row' = Cleared /\ Allow(Costs(e)) /\ silent' = FALSE
  <2>1. Cleared \in Row /\ ~Cleared.sent /\ Cleared.exists /\ Cleared.lease = None
    BY DEF Row, Cleared
  <2>2. allowance' \in Int /\ (Costs(e) => allowance' = allowance + 1) /\ (~Costs(e) => allowance' = allowance)
    BY <1>6 DEF Allow, NoticeInv, TypeOK
  <2>3. TypeOK'
    BY <1>1, <1>5, <1>6, <2>1, <2>2, TypeKept DEF NoticeInv, TypeOK
  <2>4. NewRow' /\ OldRecord'
    BY <1>6, <2>1 DEF NewRow, OldRecord
  <2>5. ASSUME Unpublished PROVE Unpublished'
    <3>1. partner' # "public" /\ ~told' /\ ~row'.sent /\ row'.lease = None
      BY <1>5, <1>6, <2>1, <2>5 DEF Unpublished
    <3>2. \A c \in Callers : pc'[c] \in {"idle", "reset"}
      BY <1>1, <1>2, <2>5 DEF Unpublished, Moves
    <3> QED
      BY <3>1, <3>2 DEF Unpublished
  <2>6. Owed' = Cardinality(Senders) + 1
    BY <1>4, <1>6, <2>1 DEF Owed, Claimable
  <2>7. ASSUME ~Costs(e) PROVE Owed = Cardinality(Senders) + 1
    <3>1. Senders = {}
      BY <1>1, <2>7 DEF Costs, Senders
    <3>2. Untold
      BY <2>7, <3>1 DEF Untold, Costs
    <3> QED
      BY <1>4, <3>2, OwedBounds
  <2>8. Owed >= Cardinality(Senders) /\ Owed \in Nat
    BY <1>4, OwedBounds
  <2>9. Funded'
    BY <1>4, <1>5, <2>2, <2>5, <2>6, <2>7, <2>8 DEF NoticeInv, TypeOK, Funded
  <2> QED
    BY <1>3, <2>3, <2>4, <2>9 DEF NoticeInv
<1>7. CASE Fault /\ silent' = (silent \/ row.sent) /\ UNCHANGED <<row, allowance>>
  <2>1. TypeOK'
    <3>1. silent' \in BOOLEAN
      BY <1>7
    <3> QED
      BY <1>1, <1>5, <1>7, <3>1, TypeKept DEF NoticeInv, TypeOK
  <2>2. NewRow' /\ OldRecord'
    BY <1>7 DEF NoticeInv, NewRow, OldRecord
  <2>3. ASSUME Unpublished PROVE Unpublished'
    <3>1. partner' # "public" /\ ~told' /\ ~row'.sent /\ row'.lease = None
      BY <1>5, <1>7, <2>3 DEF Unpublished
    <3>2. \A c \in Callers : pc'[c] \in {"idle", "reset"}
      BY <1>1, <1>2, <2>3 DEF Unpublished, Moves
    <3> QED
      BY <3>1, <3>2 DEF Unpublished
  <2>4. Claimable' = Claimable /\ Untold' = Untold
    <3>1. \A d \in Callers : pc'[d] \in {"send", "record"} <=> pc[d] \in {"send", "record"}
      BY <1>1, <1>2 DEF Moves
    <3> QED
      BY <1>4, <1>5, <1>7, <3>1 DEF Claimable, Untold
  <2>5. Owed' = Owed
    BY <1>4, <2>4 DEF Owed
  <2>6. Funded'
    BY <1>4, <1>5, <1>7, <2>3, <2>5 DEF NoticeInv, Funded
  <2> QED
    BY <1>3, <2>1, <2>2, <2>6 DEF NoticeInv
<1> QED
  BY <1>6, <1>7 DEF Reset, Cleared

------------------------------------------------------------------------------
(* Taking the lease: a lease nobody uses was owed a campaign, and one in   *)
(* use is taken at a price.                                                *)
Leased(c) == [exists |-> TRUE, sent |-> FALSE, lease |-> since[c]]

LEMMA LeasedIs ==
  ASSUME NoticeInv, NEW c \in Callers
  PROVE  /\ Leased(c) \in Row
         /\ Leased(c).exists /\ ~Leased(c).sent /\ Leased(c).lease # None
<1>1. since[c] \in 0..Old /\ since[c] # None
  BY TimesAssumption, NoLeaseAssumption DEF NoticeInv, TypeOK, Old
<1> QED
  BY <1>1 DEF Leased, Row

LEMMA TakeStep ==
  ASSUME NoticeInv, NEW c \in Callers, NEW p \in {"send", "idle"},
         Take(c), Goto(c, p), pc[c] \in Claiming,
         Free \/ Stale(c) \/ ~row.exists,
         UNCHANGED <<partner, reachable, edits, told, overtaken, silent>>,
         faults' = faults \/ Fault
  PROVE  NoticeInv'
<1>1. /\ p \in PCs /\ pc[c] \notin {"idle", "send", "record", "reset", "reset_send"}
      /\ Moves(c, p)
  BY GotoIs DEF PCs, Holding, Claiming
<1>2. row' = Leased(c)
  BY DEF Take, Leased
<1> DEFINE used == Stale(c) /\ \E d \in Callers : pc[d] \in Holding
<1>3. allowance' \in Int /\ (used => allowance' = allowance + 1) /\ (~used => allowance' = allowance)
  BY DEF Take, Allow, NoticeInv, TypeOK
<1>4. Claimable \/ used
  BY DEF NoticeInv, NewRow, Free, Stale, Claimable, Holding
<1> HIDE DEF used
<1>5. TypeOK'
  BY <1>1, <1>2, <1>3, LeasedIs, TypeKept DEF NoticeInv, TypeOK
<1>6. NewRow' /\ OldRecord' /\ Unmade'
  BY <1>1, <1>2, LeasedIs, UnmadeKept DEF NewRow, OldRecord
<1>7. ~Unpublished
  BY <1>1 DEF Unpublished
<1>8. /\ IsFiniteSet(Senders)' /\ Cardinality(Senders) \in Nat /\ Cardinality(Senders)' \in Nat
      /\ p = "send" => Cardinality(Senders)' = Cardinality(Senders) + 1
      /\ p = "idle" => Cardinality(Senders)' = Cardinality(Senders)
      /\ (Senders = {} <=> Cardinality(Senders) = 0)'
  BY <1>1, SendersMove
<1>9. Owed' <= Cardinality(Senders) + 1 /\ Owed' \in Nat
  <2>1. CASE p = "send"
    <3>1. ~Claimable'
      BY <1>1, <1>2, <2>1, LeasedIs DEF Claimable, Moves
    <3>2. ~Untold'
      BY <1>8, <2>1 DEF Untold
    <3> QED
      BY <1>8, <2>1, <3>1, <3>2 DEF Owed
  <2>2. CASE p = "idle"
    BY <1>8, <2>2 DEF Owed
  <2> QED
    BY <2>1, <2>2
<1>10. /\ Claimable => Owed = Cardinality(Senders) + 1
       /\ Owed >= Cardinality(Senders) /\ Owed \in Nat
  BY <1>8, OwedBounds
<1>11. Funded'
  BY <1>3, <1>4, <1>7, <1>8, <1>9, <1>10 DEF NoticeInv, TypeOK, Funded
<1> QED
  BY <1>5, <1>6, <1>11 DEF NoticeInv

LEMMA AttemptStep ==
  ASSUME NoticeInv, NEW c \in Callers, NEW may \in BOOLEAN,
         NEW otherwise \in {"idle", "stale", "insert", "read"},
         pc[c] \in Claiming, may => Free \/ Stale(c) \/ ~row.exists,
         Attempt(c, may, otherwise),
         UNCHANGED <<partner, reachable, edits, told, overtaken, silent>>
  PROVE  NoticeInv'
<1>1. CASE may /\ Take(c) /\ Goto(c, "send") /\ UNCHANGED faults
  BY <1>1, TakeStep
<1>2. CASE may /\ Take(c) /\ Goto(c, "idle") /\ Fault
  BY <1>2, TakeStep
<1>3. CASE ~may /\ Goto(c, otherwise) /\ UNCHANGED <<row, faults, allowance>>
  <2>1. otherwise \in PCs /\ otherwise \notin {"send", "record", "reset", "reset_send"}
    BY DEF PCs, Claiming
  <2>2. pc[c] \notin {"idle", "send", "record", "reset", "reset_send"}
    BY DEF Claiming
  <2> QED
    BY <1>3, <2>1, <2>2, WalkStep DEF ghosts
<1>4. CASE Goto(c, "idle") /\ Fault /\ UNCHANGED <<row, allowance>>
  <2>1. "idle" \in PCs
    BY DEF PCs
  <2>2. pc[c] \notin {"idle", "send", "record", "reset", "reset_send"}
    BY DEF Claiming
  <2> QED
    BY <1>4, <2>1, <2>2, WalkStep DEF ghosts
<1> QED
  BY <1>1, <1>2, <1>3, <1>4 DEF Attempt

LEMMA ClaimStep ==
  ASSUME NoticeInv, NEW c \in Callers, ClaimLease(c)
  PROVE  NoticeInv'
<1>1. UNCHANGED <<partner, reachable, edits, told, overtaken, silent>>
  BY DEF ClaimLease
<1>2. Free \in BOOLEAN /\ Stale(c) \in BOOLEAN /\ (~row.exists) \in BOOLEAN
  BY DEF Free, Stale, NoticeInv, TypeOK, Row
<1>3. CASE pc[c] = "fresh" /\ Attempt(c, Free, "stale")
  BY <1>1, <1>2, <1>3, AttemptStep DEF Claiming
<1>4. CASE pc[c] = "stale" /\ Attempt(c, Stale(c), "insert")
  BY <1>1, <1>2, <1>4, AttemptStep DEF Claiming
<1>5. CASE pc[c] = "insert" /\ Attempt(c, ~row.exists, "read")
  BY <1>1, <1>2, <1>5, AttemptStep DEF Claiming
<1>6. CASE pc[c] = "retry" /\ Attempt(c, Stale(c), "idle")
  BY <1>1, <1>2, <1>6, AttemptStep DEF Claiming
<1> QED
  BY <1>3, <1>4, <1>5, <1>6 DEF ClaimLease

LEMMA ReadPublicStep ==
  ASSUME NoticeInv, NEW c \in Callers, ReadPublic(c)
  PROVE  NoticeInv'
<1>1. "check" \in PCs
  BY DEF PCs
<1> QED
  BY <1>1, WalkStep DEF ReadPublic, bounds

LEMMA ReadSentStep ==
  ASSUME NoticeInv, NEW c \in Callers, ReadSent(c)
  PROVE  NoticeInv'
<1>1. PICK p \in {"idle", "fresh"} : Goto(c, p) /\ (faults' = faults \/ Fault)
  BY DEF ReadSent
<1>2. p \in PCs
  BY DEF PCs, Claiming
<1> QED
  BY <1>1, <1>2, WalkStep DEF ReadSent

LEMMA ReadStateStep ==
  ASSUME NoticeInv, NEW c \in Callers, ReadState(c)
  PROVE  NoticeInv'
<1>1. PICK p \in {"idle", "retry"} : Goto(c, p) /\ (faults' = faults \/ Fault)
  BY DEF ReadState
<1>2. p \in PCs
  BY DEF PCs, Claiming
<1> QED
  BY <1>1, <1>2, WalkStep DEF ReadState

------------------------------------------------------------------------------
(* The campaign, its record and the release of the lease.                  *)
LEMMA SpentIs ==
  ASSUME NEW a \in Int, NEW n \in Nat, NEW m \in Nat, a >= n, m + 1 <= n
  PROVE  a - 1 >= 0 /\ a - 1 >= m
  OBVIOUS

LEMMA SendStep ==
  ASSUME NoticeInv, NEW c \in Callers, SendCampaign(c)
  PROVE  NoticeInv'
<1>1. PICK p \in {"tidy", "record", "clear"} :
        /\ Goto(c, p) /\ (faults' = faults \/ Fault)
        /\ \/ ~reachable /\ UNCHANGED allowance
           \/ reachable /\ p = "record" /\ allowance' = allowance - 1 /\ told' = TRUE
           \/ p = "clear" /\ UNCHANGED allowance
        /\ told' = told \/ told' = TRUE
  BY DEF SendCampaign
<1>2. UNCHANGED <<partner, reachable, row, edits, overtaken, silent>> /\ pc[c] = "send"
  BY DEF SendCampaign
<1>3. p \in PCs /\ p # "send"
  BY DEF PCs, Holding
<1>4. Moves(c, p)
  BY <1>1, <1>3, GotoIs
<1>5. told' \in BOOLEAN /\ allowance' \in Int /\ (told => told')
  <2>1. told' \in BOOLEAN /\ (told => told')
    <3>1. told \in BOOLEAN
      BY DEF NoticeInv, TypeOK
    <3>2. told' = told \/ told' = TRUE
      BY <1>1
    <3> QED
      BY <3>1, <3>2
  <2>2. allowance' \in Int
    BY <1>1 DEF NoticeInv, TypeOK
  <2> QED
    BY <2>1, <2>2
<1>6. TypeOK'
  BY <1>1, <1>2, <1>3, <1>5, TypeKept DEF NoticeInv, TypeOK
<1>7. NewRow' /\ Unmade'
  BY <1>2, UnmadeKept DEF NoticeInv, NewRow
<1>8. OldRecord'
  <2>1. Resetting => Resetting'
    BY <1>2, <1>4 DEF Resetting, Moves, Callers
  <2> QED
    BY <1>2, <1>5, <2>1 DEF NoticeInv, OldRecord
<1>9. ~Unpublished
  BY <1>2 DEF Unpublished
<1>10. /\ IsFiniteSet(Senders)' /\ Cardinality(Senders) \in Nat /\ Cardinality(Senders)' \in Nat
       /\ Cardinality(Senders) = Cardinality(Senders)' + 1
  BY <1>2, <1>3, <1>4, SendersMove
<1>11. /\ Owed \in Nat /\ Owed >= Cardinality(Senders)
       /\ Claimable => Owed = Cardinality(Senders) + 1
  BY <1>10, OwedBounds
<1>12. Owed' \in Nat /\ Owed' <= Cardinality(Senders)
  BY <1>10 DEF Owed
<1>13. ASSUME ~reachable /\ UNCHANGED allowance PROVE Funded'
  BY <1>2, <1>10, <1>13 DEF NoticeInv, Funded
<1>14. ASSUME reachable /\ p = "record" /\ allowance' = allowance - 1 /\ told' = TRUE
       PROVE  Funded'
  <2>1. ~Untold'
    BY <1>14 DEF Untold
  <2>2. Claimable' => Claimable
    <3>1. Claimable' => ~row.sent /\ row.lease = None
      BY <1>2, <1>4, <1>14 DEF Claimable, Moves
    <3> QED
      BY <3>1 DEF Claimable
  <2>3. Owed' + 1 <= Owed
    BY <1>10, <1>11, <2>1, <2>2 DEF Owed
  <2>4. allowance \in Int /\ allowance >= Owed
    BY <1>9, <1>14 DEF NoticeInv, TypeOK, Funded
  <2>5. allowance' = allowance - 1
    BY <1>14
  <2>6. Owed \in Nat /\ Owed' \in Nat
    BY <1>11, <1>12
  <2>7. allowance - 1 >= 0 /\ allowance - 1 >= Owed'
    BY <2>3, <2>4, <2>6, SpentIs
  <2> QED
    BY <1>10, <2>5, <2>7 DEF Funded
<1>15. ASSUME p = "clear" /\ UNCHANGED allowance PROVE Funded'
  BY <1>2, <1>9, <1>10, <1>11, <1>12, <1>15 DEF NoticeInv, TypeOK, Funded
<1>16. Funded'
  BY <1>1, <1>13, <1>14, <1>15
<1> QED
  BY <1>6, <1>7, <1>8, <1>16 DEF NoticeInv

LEMMA RecordStep ==
  ASSUME NoticeInv, Recorders, NEW c \in Callers, RecordSent(c)
  PROVE  NoticeInv'
<1> DEFINE done == [exists |-> TRUE, sent |-> TRUE, lease |-> None]
<1>1. PICK p \in {"idle", "clear"} :
        /\ Goto(c, p) /\ (faults' = faults \/ Fault)
        /\ \/ /\ row' = done /\ silent' = (partner # "public" \/ (c \in overtaken /\ ~told))
              /\ UNCHANGED allowance
           \/ UNCHANGED <<row, silent>> /\ Allow(TRUE)
  BY DEF RecordSent
<1>2. UNCHANGED <<partner, reachable, edits, told>> /\ pc[c] = "record"
  BY DEF RecordSent
<1>3. p \in PCs /\ p \notin {"send", "record"}
  BY DEF PCs, Holding
<1>4. Moves(c, p)
  BY <1>1, <1>3, GotoIs
<1>5. done \in Row /\ done.sent /\ done.exists
  BY DEF Row
<1> HIDE DEF done
<1>6. /\ row' \in Row /\ silent' \in BOOLEAN /\ allowance' \in Int
      /\ overtaken' \in SUBSET Callers
  <2>1. row' \in Row /\ allowance' \in Int
    BY <1>1, <1>5 DEF NoticeInv, TypeOK, Allow
  <2>2. silent' \in BOOLEAN /\ overtaken' \in SUBSET Callers
    BY <1>1 DEF NoticeInv, TypeOK, RecordSent
  <2> QED
    BY <2>1, <2>2
<1>7. TypeOK'
  BY <1>1, <1>2, <1>3, <1>6, TypeKept DEF NoticeInv, TypeOK
<1>8. Unmade'
  BY <1>2, UnmadeKept
<1>9. ~Unpublished
  BY <1>2 DEF Unpublished
<1>10. IsFiniteSet(Senders)' /\ Cardinality(Senders) \in Nat /\ Senders' = Senders
  <2>1. p = "send" <=> pc[c] = "send"
    BY <1>2, <1>3
  <2> QED
    BY <1>4, <2>1, SendersMove
<1>11. /\ Owed \in Nat /\ Owed >= Cardinality(Senders)
       /\ Untold => Owed = Cardinality(Senders) + 1
  BY <1>10, OwedBounds
<1>12. Owed' \in Nat /\ Owed' <= Cardinality(Senders) + 1
  BY <1>10 DEF Owed
<1>13. CASE /\ row' = done /\ silent' = (partner # "public" \/ (c \in overtaken /\ ~told))
            /\ UNCHANGED allowance
  <2>0. told \/ c \in overtaken
    BY <1>2 DEF Recorders
  <2>1. NewRow' /\ OldRecord'
    BY <1>2, <1>5, <1>13, <2>0 DEF NewRow, OldRecord
  <2>2. ~Claimable' /\ Untold' = Untold
    BY <1>2, <1>5, <1>10, <1>13 DEF Claimable, Untold
  <2>3. Owed' <= Owed
    BY <1>10, <1>11, <2>2 DEF Owed
  <2>4. Funded'
    BY <1>2, <1>9, <1>10, <1>11, <1>12, <1>13, <2>3 DEF NoticeInv, TypeOK, Funded
  <2> QED
    BY <1>7, <1>8, <2>1, <2>4 DEF NoticeInv
<1>14. CASE UNCHANGED <<row, silent>> /\ Allow(TRUE)
  <2>1. Resetting => Resetting'
    BY <1>2, <1>4 DEF Resetting, Moves, Callers
  <2>2. NewRow' /\ OldRecord'
    BY <1>2, <1>14, <2>1 DEF NoticeInv, NewRow, OldRecord
  <2>3. allowance' = allowance + 1
    BY <1>14 DEF Allow
  <2>4. Funded'
    BY <1>2, <1>9, <1>10, <1>11, <1>12, <2>3 DEF NoticeInv, TypeOK, Funded
  <2> QED
    BY <1>7, <1>8, <2>2, <2>4 DEF NoticeInv
<1> QED
  BY <1>1, <1>13, <1>14

(* What clearing makes of the row, and what freeing another's lease costs. *)
Freed == IF row.exists /\ ~row.sent THEN [row EXCEPT !.lease = None] ELSE row

LEMMA FreedIs ==
  ASSUME row \in Row
  PROVE  /\ Freed \in Row
         /\ Freed.exists = row.exists /\ Freed.sent = row.sent
         /\ Freed # row => ~row.sent /\ Freed.lease = None
         /\ NewRow /\ ~Freed.exists => Freed.lease = None
<1>1. CASE row.exists /\ ~row.sent
  BY <1>1 DEF Row, Freed
<1>2. CASE ~(row.exists /\ ~row.sent)
  BY <1>2 DEF Row, Freed, NewRow
<1> QED
  BY <1>1, <1>2

LEMMA ClearStep ==
  ASSUME NoticeInv, NEW c \in Callers, ClearLease(c)
  PROVE  NoticeInv'
<1>1. PICK p \in {"idle", "clear"} :
        /\ Goto(c, p) /\ (faults' = faults \/ Fault)
        /\ Clears(c) \/ UNCHANGED <<row, allowance>>
  BY DEF ClearLease
<1>2. UNCHANGED <<partner, reachable, edits, told, overtaken, silent>> /\ pc[c] \in {"tidy", "clear"}
  BY DEF ClearLease
<1>3. /\ p \in PCs /\ p \notin {"send", "record", "reset", "reset_send"}
      /\ pc[c] \notin {"idle", "send", "record", "reset", "reset_send"}
  BY <1>2 DEF PCs, Holding
<1>4. CASE row' = row /\ UNCHANGED allowance
  BY <1>1, <1>2, <1>3, <1>4, WalkStep DEF ghosts
<1>5. CASE row' # row /\ Clears(c)
  <2>1. row' = Freed
    BY <1>5 DEF Clears, Freed
  <2>2. /\ row' \in Row /\ row'.exists = row.exists /\ ~row'.sent /\ ~row.sent /\ row'.lease = None
    BY <1>5, <2>1, FreedIs DEF NoticeInv, TypeOK
  <2> DEFINE taken == reachable /\ \E d \in Callers \ {c} : pc[d] \in Holding
  <2>3. allowance' \in Int /\ (taken => allowance' = allowance + 1) /\ (~taken => allowance' = allowance)
    BY <1>5 DEF Clears, Allow, NoticeInv, TypeOK
  <2>4. reachable => Claimable \/ taken
    BY <1>3, <2>2 DEF Claimable, Holding
  <2> HIDE DEF taken
  <2>5. Moves(c, p)
    BY <1>1, <1>3, GotoIs
  <2>6. TypeOK'
    BY <1>1, <1>2, <1>3, <2>2, <2>3, TypeKept DEF NoticeInv, TypeOK
  <2>7. NewRow' /\ OldRecord' /\ Unmade'
    BY <1>2, <1>3, <2>2, UnmadeKept DEF NewRow, OldRecord
  <2>8. ~Unpublished
    BY <1>3 DEF Unpublished
  <2>9. IsFiniteSet(Senders)' /\ Cardinality(Senders) \in Nat /\ Senders' = Senders
    <3>1. p = "send" <=> pc[c] = "send"
      BY <1>3
    <3> QED
      BY <2>5, <3>1, SendersMove
  <2>10. /\ Claimable => Owed = Cardinality(Senders) + 1
         /\ Owed >= Cardinality(Senders) /\ Owed \in Nat
    BY <2>9, OwedBounds
  <2>11. Owed' <= Cardinality(Senders) + 1 /\ Owed' \in Nat
    BY <2>9 DEF Owed
  <2>12. Funded'
    BY <1>2, <2>3, <2>4, <2>8, <2>9, <2>10, <2>11 DEF NoticeInv, TypeOK, Funded
  <2> QED
    BY <2>6, <2>7, <2>12 DEF NoticeInv
<1>6. row' = row => UNCHANGED allowance
  BY <1>1 DEF Clears, Allow
<1> QED
  BY <1>1, <1>4, <1>5, <1>6

------------------------------------------------------------------------------
(* A crash in mid-campaign may have spent it, but its sender is gone; a     *)
(* campaign that was not recorded is excused.                              *)
LEMMA CrashStep ==
  ASSUME NoticeInv, NEW c \in Callers, Crash(c)
  PROVE  NoticeInv'
<1>1. /\ Goto(c, "idle") /\ Fault /\ pc[c] # "idle"
      /\ UNCHANGED <<partner, reachable, row, edits>>
      /\ silent' = (silent \/ (row.sent /\ pc[c] \in {"reset", "reset_send"}))
  BY DEF Crash
<1>2. /\ pc[c] = "record" => allowance' = allowance + 1
      /\ pc[c] # "record" => allowance' = allowance
  BY DEF Crash, Allow
<1>3. told' \in BOOLEAN /\ (told => told') /\ (pc[c] # "send" => told' = told)
  <2>1. UNCHANGED told \/ (pc[c] = "send" /\ told' = TRUE)
    BY DEF Crash
  <2> QED
    BY <2>1 DEF NoticeInv, TypeOK
<1>4. "idle" \in PCs
  BY DEF PCs
<1>5. Moves(c, "idle")
  BY <1>1, <1>4, GotoIs
<1>6. TypeOK'
  <2>1. allowance' \in Int /\ silent' \in BOOLEAN /\ overtaken' \in SUBSET Callers
    BY <1>1, <1>2 DEF NoticeInv, TypeOK, Crash
  <2> QED
    BY <1>1, <1>3, <1>4, <2>1, TypeKept DEF NoticeInv, TypeOK
<1>7. NewRow' /\ Unmade'
  BY <1>1, UnmadeKept DEF NoticeInv, NewRow
<1>8. OldRecord'
  <2>1. row.sent /\ Resetting => silent' \/ Resetting'
    BY <1>1, <1>5 DEF Resetting, Moves, Callers
  <2>2. silent => silent'
    BY <1>1
  <2> QED
    BY <1>1, <1>3, <2>1, <2>2 DEF NoticeInv, OldRecord
<1>9. /\ IsFiniteSet(Senders)' /\ Cardinality(Senders) \in Nat /\ Cardinality(Senders)' \in Nat
      /\ pc[c] = "send" => Cardinality(Senders) = Cardinality(Senders)' + 1
      /\ pc[c] # "send" => Senders' = Senders
  BY <1>5, SendersMove
<1>10. Owed >= Cardinality(Senders) /\ Owed \in Nat
  BY <1>9, OwedBounds
<1>11. Owed' \in Nat /\ Owed' <= Cardinality(Senders)' + 1
  BY <1>9 DEF Owed
<1>12. CASE pc[c] \in {"send", "record"}
  <2>1. ~Unpublished
    BY <1>12 DEF Unpublished
  <2>2. pc[c] = "record" => Cardinality(Senders)' = Cardinality(Senders)
    BY <1>9
  <2>3. Funded'
    BY <1>1, <1>2, <1>9, <1>10, <1>11, <1>12, <2>1, <2>2 DEF NoticeInv, TypeOK, Funded
  <2> QED
    BY <1>6, <1>7, <1>8, <2>3 DEF NoticeInv
<1>13. CASE pc[c] \notin {"send", "record"}
  <2>1. \A d \in Callers : pc'[d] \in {"send", "record"} <=> pc[d] \in {"send", "record"}
    BY <1>5, <1>13 DEF Moves
  <2>2. Senders' = Senders /\ told' = told
    BY <1>3, <1>9, <1>13
  <2>3. Claimable' = Claimable /\ Untold' = Untold
    BY <1>1, <2>1, <2>2 DEF Claimable, Untold
  <2>4. Owed' = Owed
    BY <2>2, <2>3 DEF Owed
  <2>5. Unpublished => Unpublished'
    BY <1>1, <1>5, <2>2 DEF Unpublished, Moves
  <2>6. Funded'
    BY <1>1, <1>2, <1>9, <1>13, <2>4, <2>5 DEF NoticeInv, Funded
  <2> QED
    BY <1>6, <1>7, <1>8, <2>6 DEF NoticeInv
<1> QED
  BY <1>12, <1>13

(* A lease grows old; it does not come or go.                              *)
Aged == [row EXCEPT !.lease = IF @ = None \/ @ = Old THEN @ ELSE @ + 1]

LEMMA AgedIs ==
  ASSUME row \in Row
  PROVE  /\ Aged \in Row
         /\ Aged.exists = row.exists /\ Aged.sent = row.sent
         /\ Aged.lease = None <=> row.lease = None
<1> DEFINE age == IF row.lease = None \/ row.lease = Old THEN row.lease ELSE row.lease + 1
<1>1. age \in 0..Old \cup {None} /\ (age = None <=> row.lease = None)
  BY TimesAssumption, NoLeaseAssumption DEF Row, Old
<1>2. Aged = [row EXCEPT !.lease = age]
  BY DEF Aged
<1> HIDE DEF age
<1> QED
  BY <1>1, <1>2 DEF Row

LEMMA TickStep ==
  ASSUME NoticeInv, Tick
  PROVE  NoticeInv'
<1>1. UNCHANGED <<partner, reachable, pc, edits, ghosts>> /\ row' = Aged
  BY DEF Tick, Aged
<1>2. row' \in Row /\ row'.exists = row.exists /\ row'.sent = row.sent /\ (row'.lease = None <=> row.lease = None)
  BY <1>1, AgedIs DEF NoticeInv, TypeOK
<1>3. TypeOK'
  <2>1. since' \in [Callers -> 0..ClaimDelay]
    BY TimesAssumption DEF NoticeInv, TypeOK, Tick
  <2>2. faults' \in 0..MaxFaults
    BY TimesAssumption DEF NoticeInv, TypeOK, Tick, Fault
  <2> QED
    BY <1>1, <1>2, <2>1, <2>2 DEF NoticeInv, TypeOK, ghosts
<1>4. NewRow' /\ Unmade' /\ OldRecord'
  BY <1>1, <1>2 DEF NoticeInv, NewRow, Unmade, OldRecord, Resetting, ghosts
<1>5. Senders' = Senders
  BY <1>1 DEF Senders
<1>6. Claimable' = Claimable /\ Untold' = Untold /\ Unpublished' = Unpublished
  BY <1>1, <1>2, <1>5 DEF Claimable, Untold, Unpublished, ghosts
<1>7. Owed' = Owed
  BY <1>5, <1>6 DEF Owed
<1>8. Funded'
  BY <1>1, <1>5, <1>6, <1>7 DEF NoticeInv, Funded, ghosts
<1> QED
  BY <1>3, <1>4, <1>8 DEF NoticeInv

------------------------------------------------------------------------------
(* A caller that goes on to record has just told the members; a new        *)
(* publication overtakes whoever has not recorded the last.                *)
LEMMA RecordersStep == NoticeInv /\ Recorders /\ [Next]_vars => Recorders'
<1> SUFFICES ASSUME NoticeInv, Recorders, [Next]_vars PROVE Recorders'
  OBVIOUS
<1>1. ASSUME NEW state, Becomes(state),
             \A c \in Callers : pc'[c] = "record" => pc[c] = "record"
      PROVE  Recorders'
  BY <1>1 DEF Recorders, Becomes, NoticeInv, TypeOK
<1>2. ASSUME NEW c \in Callers, NEW p \in PCs, Goto(c, p), p = "record" => told',
             told => told', overtaken \ {c} \subseteq overtaken'
      PROVE  Recorders'
  BY <1>2, GotoIs DEF Recorders, Moves
<1>3. ASSUME NEW e \in Editors, Create(e) \/ Edit(e) PROVE Recorders'
  <2>1. PICK state \in {"public"} \cup Hidden, p \in {"fresh", "idle", "reset", "reset_send"} :
          Becomes(state) /\ Goto(e, p)
    <3>1. CASE Create(e)
      BY <3>1 DEF Create
    <3>2. CASE Edit(e)
      <4>1. PICK state \in {"public"} \cup Hidden :
              /\ Becomes(state)
              /\ Goto(e, CASE state # "public" -> "reset"
                           [] Publishes(state) -> "reset_send"
                           [] OTHER -> "idle")
        BY <3>2 DEF Edit
      <4>2. CASE state # "public"
        BY <4>1, <4>2
      <4>3. CASE state = "public" /\ Publishes(state)
        BY <4>1, <4>3
      <4>4. CASE state = "public" /\ ~Publishes(state)
        BY <4>1, <4>4
      <4> QED
        BY <4>2, <4>3, <4>4
    <3> QED
      BY <1>3, <3>1, <3>2
  <2>2. \A c \in Callers : pc'[c] = "record" => pc[c] = "record"
    BY <2>1, GotoIs DEF Callers, PCs, Claiming, Moves
  <2> QED
    BY <1>1, <2>1, <2>2
<1>4. CASE PeriodTurns
  BY <1>1, <1>4 DEF PeriodTurns
<1>5. ASSUME NEW c \in Callers, ReadPublic(c) PROVE Recorders'
  <2>1. Goto(c, "check") /\ "check" \in PCs /\ UNCHANGED <<told, overtaken>>
    BY <1>5 DEF ReadPublic, ghosts, PCs
  <2> QED
    BY <1>2, <2>1
<1>6. ASSUME NEW c \in Callers, Crash(c) PROVE Recorders'
  <2>1. Goto(c, "idle") /\ "idle" \in PCs /\ overtaken' = overtaken \ {c}
    BY <1>6 DEF Crash, PCs
  <2>2. told => told'
    BY <1>6 DEF Crash
  <2> QED
    BY <1>2, <2>1, <2>2
<1>7. ASSUME NEW c \in Callers, SendCampaign(c) PROVE Recorders'
  <2>1. PICK p \in {"tidy", "record", "clear"} :
          Goto(c, p) /\ (p = "record" => told') /\ UNCHANGED overtaken
    BY <1>7 DEF SendCampaign
  <2>2. told => told'
    BY <1>7 DEF SendCampaign
  <2>3. p \in PCs
    BY DEF PCs, Holding
  <2> QED
    BY <1>2, <2>1, <2>2, <2>3
<1>8. ASSUME NEW c \in Callers, RecordSent(c) PROVE Recorders'
  <2>1. PICK p \in {"idle", "clear"} : Goto(c, p)
    BY <1>8 DEF RecordSent
  <2>2. overtaken' = overtaken \ {c} /\ told' = told
    BY <1>8 DEF RecordSent
  <2>3. p \in PCs
    BY DEF PCs, Holding
  <2> QED
    BY <1>2, <2>1, <2>2, <2>3
<1>9. ASSUME NEW c \in Callers,
             Reset(c) \/ ReadSent(c) \/ ClaimLease(c) \/ ReadState(c) \/ ClearLease(c)
      PROVE  Recorders'
  <2>1. PICK p \in (PCs \ {"record"}) : Goto(c, p)
    BY <1>9 DEF Reset, ReadSent, ClaimLease, Attempt, ReadState, ClearLease, PCs, Claiming, Holding
  <2>2. UNCHANGED <<told, overtaken>>
    BY <1>9 DEF Reset, ReadSent, ClaimLease, ReadState, ClearLease, ghosts
  <2> QED
    BY <1>2, <2>1, <2>2
<1>10. CASE UNCHANGED vars \/ Tick
  BY <1>10 DEF Recorders, Tick, vars, ghosts
<1> QED
  BY <1>3, <1>4, <1>5, <1>6, <1>7, <1>8, <1>9, <1>10 DEF Next, CallerStep

LEMMA NoticeStep == NoticeInv /\ Recorders /\ [Next]_vars => NoticeInv'
<1> SUFFICES ASSUME NoticeInv, Recorders, [Next]_vars PROVE NoticeInv'
  OBVIOUS
<1>1. ASSUME NEW e \in Editors, Create(e) \/ Edit(e) PROVE NoticeInv'
  BY <1>1, CreateStep, EditStep
<1>2. CASE PeriodTurns
  BY <1>2, PeriodStep
<1>3. ASSUME NEW c \in Callers, ReadPublic(c) \/ Crash(c) PROVE NoticeInv'
  BY <1>3, ReadPublicStep, CrashStep
<1>4. ASSUME NEW c \in Callers, CallerStep(c) PROVE NoticeInv'
  <2>1. CASE Reset(c)
    BY <2>1, ResetStep
  <2>2. CASE ReadSent(c) \/ ReadState(c)
    BY <2>2, ReadSentStep, ReadStateStep
  <2>3. CASE ClaimLease(c)
    BY <2>3, ClaimStep
  <2>4. CASE SendCampaign(c) \/ RecordSent(c) \/ ClearLease(c)
    BY <2>4, SendStep, RecordStep, ClearStep
  <2> QED
    BY <1>4, <2>1, <2>2, <2>3, <2>4 DEF CallerStep
<1>5. CASE Tick
  BY <1>5, TickStep
<1>6. CASE UNCHANGED vars
  <2>1. UNCHANGED <<partner, reachable, row, pc, since, edits, faults, allowance, told, overtaken, silent>>
    BY <1>6 DEF vars, bounds, ghosts
  <2>2. Senders' = Senders
    BY <2>1 DEF Senders
  <2>3. Owed' = Owed
    BY <2>1, <2>2 DEF Owed, Claimable, Untold
  <2>4. Funded'
    BY <2>1, <2>2, <2>3 DEF NoticeInv, Funded, Unpublished
  <2> QED
    BY <2>1, <2>4 DEF NoticeInv, TypeOK, NewRow, Unmade, OldRecord, Resetting
<1> QED
  BY <1>1, <1>2, <1>3, <1>4, <1>5, <1>6 DEF Next

LEMMA NoticeInvariant == Spec => []NoticeInv
<1>1. Init => Recorders
  BY DEF Init, Recorders
<1>2. (NoticeInv /\ Recorders) /\ [Next]_vars => (NoticeInv /\ Recorders)'
  BY NoticeStep, RecordersStep
<1> QED
  BY NoticeInit, <1>1, <1>2, PTL DEF Spec

(* The state of the partner, its row and every caller keeps its types.     *)
THEOREM TypeCorrect == Spec => []TypeOK
<1>1. NoticeInv => TypeOK
  BY DEF NoticeInv
<1> QED
  BY <1>1, NoticeInvariant, PTL

(* Members get a repeat only for a campaign that was not recorded, a lease  *)
(* outlived by its sender, or a reset behind another caller's back.         *)
THEOREM RepeatsArePaid == Spec => []RepeatsAreExcused
<1>1. NoticeInv => RepeatsAreExcused
  BY DEF NoticeInv, Funded, RepeatsAreExcused
<1> QED
  BY <1>1, NoticeInvariant, PTL

(* The record of an earlier publication does not outlast the next one,     *)
(* unless its removal failed or a caller still at work wrote it back.      *)
THEOREM RecordHolds == Spec => []RecordIsCurrent
<1>1. NoticeInv => RecordIsCurrent
  BY DEF NoticeInv, OldRecord, Resetting, RecordIsCurrent
<1> QED
  BY <1>1, NoticeInvariant, PTL
==================================================================================
