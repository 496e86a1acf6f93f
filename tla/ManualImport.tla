------------------------------ MODULE ManualImport ------------------------------
(***************************************************************************)
(* The bulk invitation of members: an administrator's batch of prepared    *)
(* rows is committed by calls that create each row's member, record its    *)
(* photo and send one password set-up link                                 *)
(* (member-manual-import/service.server.ts).  A commit holds the batch by  *)
(* its updated_at and every write of a row is conditional on the row's     *)
(* updated_at, so a call that was superseded finds its writes refused.  A  *)
(* row whose link may or may not have arrived waits for an administrator,  *)
(* who reissues a link; a cron expires old batches.                        *)
(*                                                                         *)
(* Each call of the service is a process that makes one database or        *)
(* provider request per step.  A request may fail, or be carried out and   *)
(* lose its reply, and a call may die between any two.  The version tokens *)
(* appear as `owner' and `holder': the call that knows the current         *)
(* updated_at of the batch or row, None when nobody does.                  *)
(***************************************************************************)
EXTENDS Naturals, FiniteSets

CONSTANTS
    Rows,        \* the rows of the batch, by row number
    Pictured,    \* those with a photo, already attached as a common upload
    Commits,     \* calls of commitManualMemberImport
    Reissues,    \* calls of reissueManualMemberImportSetup
    Crons,       \* runs of the expiry cron
    Import,      \* the delivery key and the link that belong to the row itself
    None

ASSUME RowsAssumption == Rows \subseteq Nat /\ Pictured \subseteq Rows

(* A call is of one kind, a reissue's key is not the row's, and None is    *)
(* none of what it stands beside.                                          *)
ASSUME CallsAssumption ==
    /\ Commits \cap Reissues = {} /\ Crons \cap (Commits \cup Reissues) = {}
    /\ Import \notin Reissues
ASSUME NoneAssumption ==
    /\ None \notin Commits \cup Reissues \cup {Import}
    /\ None \notin {"retry", "exists", "unknown", "remove", "mark", "failed"}
    /\ None \notin [photo : BOOLEAN, attempted : BOOLEAN, sent : BOOLEAN,
                    key : Reissues \cup {Import, None}]

VARIABLES
    batch,    \* [status, owner] of the batch
    row,      \* the rows of manual_member_import_rows
    call,     \* where each call stands and what it has read
    member,   \* the member of a row: "none", "waiting" for a password, or "set"
    image,    \* has the row a member_profile_images record
    stored,   \* is the photo's object in the profile image bucket
    link,     \* the member's active set-up link: Import or the reissue that made it
    posts,    \* the messages a provider accepted for the row
    late      \* has expires_at passed

vars == <<batch, row, call, member, image, stored, link, posts, late>>

Keys == {Import} \cup Reissues
Calls == Commits \cup Reissues \cup Crons

Seen(r) == [photo |-> r.photo, attempted |-> r.attempted, sent |-> r.sent, key |-> r.key]

Nothing == [k \in Rows |-> None]
Idle == [pc |-> "off", snap |-> Nothing, code |-> None, active |-> FALSE]

(* A row that a commit takes up: staged, or failed for a reason a retry may cure. *)
Retryable(r) == r.status = "staged" \/ (r.status = "failed" /\ r.code = "retry")

(* The row a call is working on; rows are taken in the order of their numbers. *)
Foremost(snap) == CHOOSE k \in Rows : /\ snap[k] # None
                                      /\ \A j \in Rows : j < k => snap[j] = None
Current(c) == Foremost(call[c].snap)

Init ==
    /\ batch = [status |-> "ready", owner |-> None]
    /\ row = [k \in Rows |-> [status |-> "staged", code |-> None, photo |-> FALSE,
                              attempted |-> FALSE, sent |-> FALSE, key |-> None,
                              holder |-> None]]
    /\ call = [c \in Calls |-> Idle]
    /\ member = [k \in Rows |-> "none"]
    /\ image = [k \in Rows |-> FALSE]
    /\ stored = [k \in Rows |-> k \in Pictured]
    /\ link = [k \in Rows |-> None]
    /\ posts = [k \in Rows |-> {}]
    /\ late = FALSE

-----------------------------------------------------------------------------
(* How a call moves on. *)

At(c, pc) == call[c].pc = pc
Go(c, pc) == call' = [call EXCEPT ![c].pc = pc]
End(c) == call' = [call EXCEPT ![c] = [Idle EXCEPT !.pc = "done"]]

(* An error raised while a row is processed: the handler records it on the row. *)
Break(c, code) == call' = [call EXCEPT ![c].pc = "fail", ![c].code = code]

(* A conditional write of row k by c: carried out when c knows the row's   *)
(* version, and then c learns the new one unless the reply is lost.        *)
Write(c, k, new, Then, Else) ==
    \/ row[k].holder = c /\ row' = [row EXCEPT ![k] = new] /\ Then
    \/ /\ row[k].holder = c /\ row' = [row EXCEPT ![k] = [new EXCEPT !.holder = None]]
       /\ Else
    \/ UNCHANGED row /\ Else

(* The row with a status, its error code, and the call that knows its version. *)
Turn(r, status, code, c) == [r EXCEPT !.status = status, !.code = code, !.holder = c]

people == <<member, image, stored, link, posts, late>>

-----------------------------------------------------------------------------
(* commitManualMemberImport: the batch. *)

(* A ready batch, or one whose lease of fifteen minutes may have run out. *)
Claim(c) ==
    /\ At(c, "off") /\ ~late
    /\ batch.status \in {"ready", "processing"}
    /\ \/ /\ batch' = [status |-> "processing", owner |-> c]
          /\ Go(c, IF batch.status = "ready" THEN "read" ELSE "requeueCheck")
       \/ batch' = [status |-> "processing", owner |-> None] /\ End(c)
    /\ UNCHANGED <<row, people>>

Checked == [requeueCheck |-> "requeue", rowCheck |-> "claim", claimCheck |-> "member",
            cleanCheck |-> "result"]

(* assertProcessingLease *)
CheckLease(c) ==
    /\ call[c].pc \in DOMAIN Checked
    /\ \/ batch.owner = c /\ Go(c, Checked[call[c].pc])
       \/ Go(c, "catch")
    /\ UNCHANGED <<batch, row, people>>

(* After a takeover every row in processing is staged again, whoever has it. *)
RequeueRows(c) ==
    /\ At(c, "requeue")
    /\ \/ /\ row' = [k \in Rows |->
                        IF row[k].status = "processing" THEN Turn(row[k], "staged", None, None)
                                                        ELSE row[k]]
          /\ Go(c, "read") \/ Go(c, "catch")
       \/ UNCHANGED row /\ Go(c, "catch")
    /\ UNCHANGED <<batch, people>>

ReadRows(c) ==
    /\ At(c, "read")
    /\ LET snap == [k \in Rows |-> IF Retryable(row[k]) THEN Seen(row[k]) ELSE None]
           next == IF snap = Nothing THEN "cleanCheck" ELSE "rowCheck"
       IN  \/ call' = [call EXCEPT ![c].snap = snap, ![c].pc = next]
           \/ Go(c, "catch")
    /\ UNCHANGED <<batch, row, people>>

(* refreshProcessingLease, and on to the next row *)
Refresh(c) ==
    /\ At(c, "refresh")
    /\ LET snap == [call[c].snap EXCEPT ![Current(c)] = None]
           next == IF snap = Nothing THEN "cleanCheck" ELSE "rowCheck"
       IN  \/ /\ batch.owner = c
              /\ call' = [call EXCEPT ![c].snap = snap, ![c].pc = next]
              /\ UNCHANGED batch
           \/ batch.owner = c /\ batch' = [batch EXCEPT !.owner = None] /\ Go(c, "catch")
           \/ UNCHANGED batch /\ Go(c, "catch")
    /\ UNCHANGED <<row, people>>

ReadResults(c) ==
    /\ At(c, "result")
    /\ \/ Go(c, IF \E k \in Rows : Retryable(row[k]) THEN "reopen" ELSE "finish")
       \/ Go(c, "catch")
    /\ UNCHANGED <<batch, row, people>>

CloseBatch(c) ==
    /\ call[c].pc \in {"reopen", "finish"}
    /\ \/ /\ batch.owner = c
          /\ batch' = [status |-> IF At(c, "reopen") THEN "ready" ELSE "completed",
                       owner |-> None]
          /\ End(c)
       \/ UNCHANGED batch /\ Go(c, "catch")
    /\ UNCHANGED <<row, people>>

(* The handler of the whole call: with the lease still held, the row in    *)
(* hand is staged again and the batch becomes ready.                       *)
Catch(c) ==
    /\ At(c, "catch")
    /\ \/ batch.owner = c /\ Go(c, IF call[c].active THEN "restage" ELSE "release")
       \/ End(c)
    /\ UNCHANGED <<batch, row, people>>

(* requeueActiveRow *)
RequeueActiveRow(c) ==
    /\ At(c, "restage")
    /\ LET k == Current(c) IN
       Write(c, k, Turn(row[k], "staged", None, None), Go(c, "release"), End(c))
    /\ UNCHANGED <<batch, people>>

(* releaseProcessingLease *)
Release(c) ==
    /\ At(c, "release")
    /\ \/ batch.owner = c /\ batch' = [status |-> "ready", owner |-> None]
       \/ UNCHANGED batch
    /\ End(c)
    /\ UNCHANGED <<row, people>>

-----------------------------------------------------------------------------
(* commitManualMemberImport: one row. *)

(* Slip: the lease is not checked again after the row was claimed. *)
ClaimRowM(c) ==
    /\ At(c, "claim")
    /\ LET k == Current(c) IN
       /\ row[k].status \in {"staged", "failed"}
       /\ row' = [row EXCEPT ![k].status = "processing", ![k].code = None, ![k].holder = c]
    /\ call' = [call EXCEPT ![c].pc = "member", ![c].active = TRUE]
    /\ UNCHANGED <<batch, people>>

(* claimManualMemberImportRow looks at the row's status, not at the        *)
(* version the commit has read.                                            *)
ClaimRow(c) ==
    /\ At(c, "claim")
    /\ LET k == Current(c)
           Taken(h) == /\ row[k].status \in {"staged", "failed"}
                       /\ row' = [row EXCEPT ![k] = Turn(@, "processing", None, h)]
       IN  \/ /\ Taken(c)
              /\ call' = [call EXCEPT ![c].pc = "claimCheck", ![c].active = TRUE]
           \/ /\ Taken(None) \/ UNCHANGED row
              /\ call' = [call EXCEPT ![c].pc = "catch", ![c].active = FALSE]
    /\ UNCHANGED <<batch, people>>

(* deliverManualMemberImportSetup up to its first request, from what the   *)
(* commit read before it claimed the row.                                  *)
Deliver(c) ==
    LET s == call[c].snap[Current(c)] IN
    IF s.attempted /\ ~s.sent THEN Break(c, "unknown")
    ELSE Go(c, IF s.sent THEN "create" ELSE IF s.key = None THEN "intent" ELSE "mint")

(* Slip: duplicates are looked for before the row's own member. *)
AddMemberM(c) ==
    /\ At(c, "member")
    /\ LET k == Current(c) IN
       /\ row[k].holder = c
       /\ IF member[k] # "none" THEN Break(c, "exists") /\ UNCHANGED member
          ELSE Deliver(c) /\ member' = [member EXCEPT ![k] = "waiting"]
    /\ UNCHANGED <<batch, row, image, stored, link, posts, late>>

(* checkpoint_manual_member_import_member: the row's member, made once *)
AddMember(c) ==
    /\ At(c, "member")
    /\ LET k == Current(c)
           mine == row[k].holder = c
           Next == IF k \in Pictured /\ ~call[c].snap[k].photo
                   THEN Go(c, "photo") ELSE Deliver(c)
       IN  \/ mine /\ member[k] # "none" /\ Next /\ UNCHANGED <<member, row>>
           \/ /\ mine /\ member[k] = "none"
              /\ member' = [member EXCEPT ![k] = "waiting"]
              /\ \/ Next /\ UNCHANGED row
                 \/ Break(c, "retry") /\ row' = [row EXCEPT ![k].holder = None]
           \/ mine /\ member[k] = "none" /\ Break(c, "exists") /\ UNCHANGED <<member, row>>
           \/ Break(c, "retry") /\ UNCHANGED <<member, row>>
    /\ UNCHANGED <<batch, image, stored, link, posts, late>>

(* attachPendingPhoto: one profile image record per row, by a unique index *)
AttachPendingPhoto(c) ==
    /\ At(c, "photo")
    /\ \/ /\ image' = [image EXCEPT ![Current(c)] = TRUE]
          /\ Go(c, "photoMark") \/ Break(c, "retry")
       \/ UNCHANGED image /\ Break(c, "retry")
    /\ UNCHANGED <<batch, row, member, stored, link, posts, late>>

MarkPhoto(c) ==
    /\ At(c, "photoMark")
    /\ LET k == Current(c) IN
       Write(c, k, [row[k] EXCEPT !.photo = TRUE], Deliver(c), Break(c, "retry"))
    /\ UNCHANGED <<batch, people>>

Intend(c) ==
    /\ At(c, "intent")
    /\ LET k == Current(c) IN
       Write(c, k, [row[k] EXCEPT !.key = Import], Go(c, "mint"), Break(c, "retry"))
    /\ UNCHANGED <<batch, people>>

(* ensureManualMemberImportPasswordAction: the link of a row never changes *)
(* and its hash is unique, so a used one cannot be made again; a link that *)
(* a reissue made stops the row.                                           *)
MintLink(c) ==
    /\ At(c, "mint")
    /\ LET k == Current(c) IN
       \/ /\ link[k] = Import \/ (link[k] = None /\ member[k] = "waiting")
          /\ link' = [link EXCEPT ![k] = Import]
          /\ Go(c, "attempt") \/ Break(c, "retry")
       \/ UNCHANGED link /\ Break(c, "retry")
    /\ UNCHANGED <<batch, row, member, image, stored, posts, late>>

-----------------------------------------------------------------------------
(* The delivery itself, of a commit and of a reissue. *)

KeyOf(c) == IF c \in Reissues THEN c
            ELSE LET key == call[c].snap[Current(c)].key IN IF key = None THEN Import ELSE key

Message(c) == [key |-> KeyOf(c), by |-> c, link |-> IF c \in Reissues THEN c ELSE Import]

Attempt(c) ==
    /\ At(c, "attempt")
    /\ LET k == Current(c) IN
       Write(c, k, [row[k] EXCEPT !.attempted = TRUE, !.key = KeyOf(c)],
             Go(c, "send"), Break(c, IF c \in Reissues THEN "unknown" ELSE "retry"))
    /\ UNCHANGED <<batch, people>>

(* Slip: a provider's error is passed over. *)
SendM(c) ==
    /\ At(c, "send")
    /\ Go(c, "sent")
    /\ LET k == Current(c)
           post == Message(c)
       IN  posts' = [posts EXCEPT ![k] = @ \cup {post}] \/ UNCHANGED posts
    /\ UNCHANGED <<batch, row, member, image, stored, link, late>>

(* The provider accepts the message or not, and its answer may be an error *)
(* either way.                                                             *)
Send(c) ==
    /\ At(c, "send")
    /\ LET k == Current(c)
           post == Message(c)
       IN  \/ /\ posts' = [posts EXCEPT ![k] = @ \cup {post}]
              /\ Go(c, "sent") \/ Break(c, "unknown")
           \/ UNCHANGED posts /\ Break(c, "unknown")
    /\ UNCHANGED <<batch, row, member, image, stored, link, late>>

Sent(c) ==
    /\ At(c, "sent")
    /\ LET k == Current(c) IN
       Write(c, k, [row[k] EXCEPT !.sent = TRUE], Go(c, "create"), Break(c, "unknown"))
    /\ UNCHANGED <<batch, people>>

Create(c) ==
    /\ At(c, "create")
    /\ LET k == Current(c) IN
       Write(c, k, Turn(row[k], "created", None, None),
             IF c \in Reissues THEN Go(c, "remove")
             ELSE call' = [call EXCEPT ![c].pc = "refresh", ![c].active = FALSE],
             Break(c, IF c \in Reissues THEN "unknown" ELSE "retry"))
    /\ UNCHANGED <<batch, people>>

(* Slip: the row fails without an error code. *)
FailM(c) ==
    /\ At(c, "fail")
    /\ LET k == Current(c) IN
       Write(c, k, [row[k] EXCEPT !.status = "failed", !.holder = None], End(c), End(c))
    /\ UNCHANGED <<batch, people>>

(* The row takes the error, when the call still knows its version. *)
Fail(c) ==
    /\ At(c, "fail")
    /\ LET k == Current(c) IN
       Write(c, k, Turn(row[k], "failed", call[c].code, None),
             IF c \in Reissues THEN End(c)
             ELSE call' = [call EXCEPT ![c].pc = "refresh", ![c].active = FALSE],
             IF c \in Reissues THEN End(c) ELSE Go(c, "catch"))
    /\ UNCHANGED <<batch, people>>

-----------------------------------------------------------------------------
(* reissueManualMemberImportSetup *)

(* reclaimExpiredManualMemberImportReissueLease, by any later reissue: the  *)
(* one that has the row was cut off, or is slow.                           *)
Reclaim(k) ==
    /\ row[k].status = "processing" /\ row[k].key \in Reissues
    /\ row' = [row EXCEPT ![k] = Turn(@, "failed", "unknown", None)]
    /\ UNCHANGED <<batch, call, people>>

(* The row in a reissue's hand: its key, and nothing sent under it. *)
Reissued(r, c, h) == [Turn(r, "processing", None, h) EXCEPT !.sent = FALSE,
                                                            !.attempted = FALSE, !.key = c]

ClaimReissue(c, k) ==
    /\ At(c, "off")
    /\ row[k].status = "failed" /\ row[k].code = "unknown"
    /\ member[k] # "none" /\ row[k].key # None
    /\ \/ /\ row' = [row EXCEPT ![k] = Reissued(@, c, c)]
          /\ call' = [call EXCEPT ![c].pc = "issue", ![c].snap[k] = Seen(row[k])]
       \/ row' = [row EXCEPT ![k] = Reissued(@, c, None)] /\ End(c)
    /\ UNCHANGED <<batch, people>>

(* reissue_manual_member_initial_setup: the old link is consumed for a new *)
(* one, while the member has still to choose a password.                   *)
Issue(c) ==
    /\ At(c, "issue")
    /\ LET k == Current(c) IN
       \/ /\ member[k] = "waiting"
          /\ link' = [link EXCEPT ![k] = c]
          /\ Go(c, "attempt") \/ Break(c, "unknown")
       \/ UNCHANGED link /\ Break(c, "unknown")
    /\ UNCHANGED <<batch, row, member, image, stored, posts, late>>

(* removeStagingFile and staging_deleted_at, errors ignored *)
RemoveStaging(c) ==
    /\ At(c, "remove")
    /\ \/ stored' = [stored EXCEPT ![Current(c)] = FALSE]
       \/ UNCHANGED stored
    /\ End(c)
    /\ UNCHANGED <<batch, row, member, image, link, posts, late>>

-----------------------------------------------------------------------------
(* The member, the clock, the expiry cron and the end of a process. *)

(* complete_member_password_action: a link that arrived and is still active *)
SetPassword(k) ==
    /\ \E p \in posts[k] : p.link = link[k]
    /\ member' = [member EXCEPT ![k] = "set"]
    /\ link' = [link EXCEPT ![k] = None]
    /\ UNCHANGED <<batch, row, call, image, stored, posts, late>>

Lapse ==
    /\ ~late /\ late' = TRUE
    /\ UNCHANGED <<batch, row, call, member, image, stored, link, posts>>

CronRead(c) ==
    /\ At(c, "off") /\ late
    /\ batch.status \notin {"expired", "completed"}
    /\ call' = [call EXCEPT ![c].pc = "sweep",
                            ![c].snap = [k \in Rows |->
                               IF row[k].status # "created" /\ k \in Pictured
                               THEN "remove" ELSE None]]
    /\ UNCHANGED <<batch, row, people>>

(* The object first, then staging_deleted_at by the row's id alone, which  *)
(* moves the row's version on.                                             *)
CronRemove(c, k) ==
    /\ At(c, "sweep") /\ call[c].snap[k] = "remove"
    /\ \/ /\ stored' = [stored EXCEPT ![k] = FALSE]
          /\ call' = [call EXCEPT ![c].snap[k] = "mark"]
       \/ UNCHANGED stored /\ call' = [call EXCEPT ![c].snap[k] = "failed"]
    /\ UNCHANGED <<batch, row, member, image, link, posts, late>>

CronMark(c, k) ==
    /\ At(c, "sweep") /\ call[c].snap[k] = "mark"
    /\ \/ row' = [row EXCEPT ![k].holder = None] /\ call' = [call EXCEPT ![c].snap[k] = None]
       \/ UNCHANGED row /\ call' = [call EXCEPT ![c].snap[k] = "failed"]
    /\ UNCHANGED <<batch, people>>

CronClose(c) ==
    /\ At(c, "sweep")
    /\ \A k \in Rows : call[c].snap[k] \in {None, "failed"}
    /\ IF call[c].snap = Nothing /\ batch.status # "completed"
       THEN batch' = [status |-> "expired", owner |-> None]
       ELSE UNCHANGED batch
    /\ End(c)
    /\ UNCHANGED <<row, people>>

Crash(c) ==
    /\ call[c].pc \notin {"off", "done"}
    /\ End(c)
    /\ UNCHANGED <<batch, row, people>>

Next ==
    \/ \E c \in Commits :
          \/ Claim(c) \/ CheckLease(c) \/ RequeueRows(c) \/ ReadRows(c) \/ Refresh(c)
          \/ ReadResults(c) \/ CloseBatch(c) \/ Catch(c) \/ RequeueActiveRow(c) \/ Release(c)
          \/ ClaimRow(c) \/ AddMember(c) \/ AttachPendingPhoto(c) \/ MarkPhoto(c)
          \/ Intend(c) \/ MintLink(c)
    \/ \E c \in Reissues : (\E k \in Rows : ClaimReissue(c, k)) \/ Issue(c) \/ RemoveStaging(c)
    \/ \E c \in Commits \cup Reissues : Attempt(c) \/ Send(c) \/ Sent(c) \/ Create(c) \/ Fail(c)
    \/ \E c \in Crons : CronRead(c) \/ CronClose(c)
                        \/ \E k \in Rows : CronRemove(c, k) \/ CronMark(c, k)
    \/ \E c \in Calls : Crash(c)
    \/ \E k \in Rows : Reclaim(k) \/ SetPassword(k)
    \/ Lapse

Spec == Init /\ [][Next]_vars
=============================================================================
