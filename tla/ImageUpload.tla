----------------------------- MODULE ImageUpload -----------------------------
(***************************************************************************)
(* One image upload session.  The browser puts the source in the staging   *)
(* bucket, complete() normalises it there, attach() copies the result to   *)
(* its final bucket, retainForApproval() keeps it for a signup approval,   *)
(* discard() throws it away and expireStale() sweeps what nobody finished. *)
(*                                                                         *)
(* The session row and the two buckets change in separate calls, so each   *)
(* is a step; one that fails may have taken effect or not.  Every update   *)
(* names the statuses it may leave, and nothing else guards it.            *)
(***************************************************************************)
EXTENDS Naturals

CONSTANTS Completes,        \* calls of complete()
          Attaches,         \* calls of attach()
          Retains,          \* calls of retainForApproval()
          Discards,         \* calls of discard()
          Sweeps,           \* runs of the cron, each calling expireStale()
          Assets,           \* final bucket and path, with the resource
          UrlLife,          \* IMAGE_UPLOAD_SIGNED_URL_TTL_SECONDS, in ticks
          SessionLife,      \* IMAGE_UPLOAD_SESSION_TTL_MS, in ticks
          ApprovalLife,     \* IMAGE_UPLOAD_APPROVAL_SESSION_TTL_MS, in ticks
          MaxTime,          \* bound: ticks of the clock
          MaxFaults,        \* bound: errors and crashes
          None              \* no asset

ASSUME LivesAssumption ==
  /\ UrlLife \in Nat /\ SessionLife \in Nat /\ ApprovalLife \in Nat
  /\ MaxTime \in Nat /\ MaxFaults \in Nat
ASSUME NoneAssumption == None \notin Assets
ASSUME CallsAssumption ==
  /\ Completes \cap (Attaches \cup Retains \cup Discards \cup Sweeps) = {}
  /\ Attaches \cap (Retains \cup Discards \cup Sweeps) = {}
  /\ Retains \cap (Discards \cup Sweeps) = {} /\ Discards \cap Sweeps = {}

VARIABLES now,
          url,              \* has sign() issued the upload URL?
          row,              \* the image_upload_sessions row
          staged,           \* objects of the session in the staging bucket
          stored,           \* assets in the final buckets
          wanted,           \* the asset each attach() is to make
          pc,               \* where each call is
          seen,             \* what a call read of the row and acts upon
          faults,           \* how much of MaxFaults is used
          linked,           \* ghost: assets that callers were told of
          swept,            \* ghost: a sweep read the session while it was attaching
          discarded,        \* ghost: a discard() got hold of the session
          halted            \* ghost: discards that stopped between removal and close

files == <<staged, stored>>
ghosts == <<linked, swept, discarded, halted>>
vars == <<now, url, row, files, wanted, pc, seen, faults, ghosts>>

Calls == Completes \cup Attaches \cup Retains \cup Discards \cup Sweeps
Status == {"signed", "processing", "ready", "attaching", "attached",
           "expired", "failed"}
Row == [status : Status, path : {"source", "processed"},
        asset : Assets \cup {None}, expires : Nat]

TypeOK ==
  /\ now \in 0..MaxTime /\ faults \in 0..MaxFaults
  /\ url \in {"none", "refused", "issued"}
  /\ row \in Row
  /\ staged \subseteq {"source", "processed"}
  /\ stored \subseteq Assets /\ linked \subseteq Assets
  /\ wanted \in [Attaches -> Assets]
  /\ pc \in [Calls ->
       {"idle", "done", "expire", "drop", "expire_signed", "claim", "download",
        "upload", "save", "drop_source", "undo", "reread", "stage", "place",
        "link", "confirm", "tidy", "fail", "keep", "remove", "close", "pend"}]
  /\ seen \in [Calls -> Row]
  /\ swept \in BOOLEAN /\ discarded \in BOOLEAN /\ halted \subseteq Discards

(* reserve_image_upload_sessions has written the row.                      *)
Signed == [status |-> "signed", path |-> "source", asset |-> None,
           expires |-> SessionLife]

Init ==
  /\ now = 0 /\ faults = 0
  /\ url = "none"
  /\ row = Signed
  /\ staged = {} /\ stored = {}
  /\ wanted \in [Attaches -> Assets]
  /\ pc = [c \in Calls |-> "idle"]
  /\ seen = [c \in Calls |-> Signed]
  /\ linked = {} /\ swept = FALSE /\ discarded = FALSE /\ halted = {}

------------------------------------------------------------------------------
Fault == faults < MaxFaults /\ faults' = faults + 1
Over == row.expires <= now

(* A sweep goes round again; every other call is made once.                *)
Rest(c) == IF c \in Sweeps THEN "idle" ELSE "done"
Goto(c, p) ==
  /\ pc' = [pc EXCEPT ![c] = p]
  /\ seen' = [seen EXCEPT ![c] = IF p \in {"idle", "done"} THEN Signed ELSE @]

Updates(from, new) == row' = IF row.status \in from THEN new ELSE row
ToM(status) ==              \* mutant: a status the table's check does not know
  [row EXCEPT !.status = IF status = "expired" THEN "removed" ELSE status]

To(status) == [row EXCEPT !.status = status]

(* An update of the row: it applies, it finds another status, or it fails. *)
Query(c, from, new, applied, missed, failed) ==
  \/ Updates(from, new) /\ UNCHANGED faults
       /\ Goto(c, IF row.status \in from THEN applied ELSE missed)
  \/ (Updates(from, new) \/ UNCHANGED row) /\ Fault /\ Goto(c, failed)

------------------------------------------------------------------------------
(* sign: a URL that cannot be issued makes the session fail.               *)
IssueUrl ==
  /\ url = "none"
  /\ \/ url' = "issued" /\ UNCHANGED <<row, faults>>
     \/ url' = "refused" /\ Fault /\ (Updates({"signed"}, To("failed")) \/ UNCHANGED row)
  /\ UNCHANGED <<now, files, wanted, pc, seen, ghosts>>

(* The browser's upload, as often as it likes while the URL is good.       *)
PutSource ==
  /\ url = "issued" /\ now < UrlLife
  /\ staged' = staged \cup {"source"}
  /\ UNCHANGED <<now, url, row, stored, wanted, pc, seen, faults, ghosts>>

------------------------------------------------------------------------------
(* complete                                                                *)
BeginComplete(c) ==
  /\ pc[c] = "idle" /\ url = "issued"
  /\ Goto(c, CASE Over -> "expire"
               [] ~Over /\ row.status # "signed" -> "done"
               [] ~Over /\ row.status = "signed" /\ UrlLife <= now -> "drop"
               [] OTHER -> "claim")
  /\ UNCHANGED <<now, url, row, files, wanted, faults, ghosts>>

(* An expired session is closed, and its objects are left where they are.  *)
Expire(c) ==
  /\ \/ /\ pc[c] = "expire"
        /\ Query(c, {"signed", "processing", "ready"}
                      \cup (IF c \in Attaches THEN {"attaching"} ELSE {}),
                 To("expired"), "done", "done", "done")
     \/ /\ pc[c] = "expire_signed"
        /\ Query(c, {"signed"}, To("expired"), "done", "done", "done")
  /\ UNCHANGED <<now, url, files, wanted, ghosts>>

ClaimSourceM(c) ==          \* mutant: the claim does not compare the status
  /\ pc[c] = "claim"
  /\ Query(c, Status, To("processing"), "download", "done", "done")
  /\ UNCHANGED <<now, url, files, wanted, ghosts>>

ClaimSource(c) ==
  /\ pc[c] = "claim"
  /\ Query(c, {"signed"}, To("processing"), "download", "done", "done")
  /\ UNCHANGED <<now, url, files, wanted, ghosts>>

(* The source may be missing, of another size, or no image at all.         *)
Download(c) ==
  /\ pc[c] = "download"
  /\ \/ Goto(c, "undo")
     \/ "source" \in staged /\ Goto(c, "upload")
  /\ UNCHANGED <<now, url, row, files, wanted, faults, ghosts>>

UploadProcessed(c) ==
  /\ pc[c] = "upload"
  /\ \/ staged' = staged \cup {"processed"} /\ Goto(c, "save") /\ UNCHANGED faults
     \/ (staged' = staged \cup {"processed"} \/ UNCHANGED staged)
          /\ Fault /\ Goto(c, "undo")
  /\ UNCHANGED <<now, url, row, stored, wanted, ghosts>>

SaveReady(c) ==
  /\ pc[c] = "save"
  /\ Query(c, {"processing"}, [To("ready") EXCEPT !.path = "processed"],
           "drop_source", "undo", "undo")
  /\ UNCHANGED <<now, url, files, wanted, ghosts>>

(* Removing the source, after completion or once the URL is over.          *)
DropSource(c) ==
  /\ pc[c] \in {"drop_source", "drop"}
  /\ Goto(c, IF pc[c] = "drop" THEN "expire_signed" ELSE "done")
  /\ \/ staged' = staged \ {"source"} /\ UNCHANGED faults
     \/ UNCHANGED staged /\ Fault
  /\ UNCHANGED <<now, url, row, stored, wanted, ghosts>>

(* markFailed, for complete and for attach.                                *)
MarkFailed(c) ==
  /\ \/ pc[c] = "undo" /\ Query(c, {"processing"}, To("failed"), "done", "done", "done")
     \/ pc[c] = "fail" /\ Query(c, {"attaching"}, To("failed"), "done", "done", "done")
  /\ UNCHANGED <<now, url, files, wanted, ghosts>>

------------------------------------------------------------------------------
(* attach                                                                  *)
Told(a) == linked' = linked \cup {wanted[a]}
Mine(a) == row.asset = wanted[a]

BeginAttach(a) ==
  /\ pc[a] = "idle" /\ url = "issued"
  /\ \/ row.status = "attached" /\ Goto(a, "done")
          /\ IF Mine(a) THEN Told(a) ELSE UNCHANGED linked
     \/ /\ row.status # "attached" /\ UNCHANGED linked
        /\ Goto(a, CASE Over -> "expire"
                     [] ~Over /\ row.status = "ready" -> "claim"
                     [] ~Over /\ row.status = "attaching" /\ Mine(a) -> "stage"
                     [] OTHER -> "done")
  /\ UNCHANGED <<now, url, row, files, wanted, faults, swept, discarded, halted>>

ClaimReadyM(a) ==           \* mutant: another attach's claim is taken over
  /\ pc[a] = "claim"
  /\ Query(a, {"ready", "attaching"}, [To("attaching") EXCEPT !.asset = wanted[a]],
           "stage", "reread", "done")
  /\ UNCHANGED <<now, url, files, wanted, ghosts>>

ClaimReady(a) ==
  /\ pc[a] = "claim"
  /\ Query(a, {"ready"}, [To("attaching") EXCEPT !.asset = wanted[a]],
           "stage", "reread", "done")
  /\ UNCHANGED <<now, url, files, wanted, ghosts>>

Reread(a) ==
  /\ pc[a] = "reread"
  /\ \/ /\ UNCHANGED faults
        /\ linked' = IF Mine(a) /\ row.status = "attached"
                     THEN linked \cup {wanted[a]} ELSE linked
        /\ Goto(a, IF Mine(a) /\ row.status = "attaching" THEN "stage" ELSE "done")
     \/ Fault /\ UNCHANGED linked /\ Goto(a, "done")
  /\ UNCHANGED <<now, url, row, files, wanted, swept, discarded, halted>>

ReadStaged(a) ==
  /\ pc[a] = "stage"
  /\ \/ Goto(a, IF "processed" \in staged THEN "place" ELSE "fail") /\ UNCHANGED faults
     \/ Goto(a, "fail") /\ Fault
  /\ UNCHANGED <<now, url, row, files, wanted, ghosts>>

PlaceAsset(a) ==
  /\ pc[a] = "place"
  /\ \/ stored' = stored \cup {wanted[a]} /\ Goto(a, "link") /\ UNCHANGED faults
     \/ (stored' = stored \cup {wanted[a]} \/ UNCHANGED stored)
          /\ Fault /\ Goto(a, "fail")
  /\ UNCHANGED <<now, url, row, staged, wanted, ghosts>>

Link(a) ==
  /\ pc[a] = "link"
  /\ Query(a, {"attaching"}, To("attached"), "tidy", "confirm", "fail")
  /\ UNCHANGED <<now, url, files, wanted, ghosts>>

Confirm(a) ==
  /\ pc[a] = "confirm"
  /\ \/ Goto(a, IF row.status = "attached" /\ Mine(a) THEN "tidy" ELSE "fail")
          /\ UNCHANGED faults
     \/ Goto(a, "fail") /\ Fault
  /\ UNCHANGED <<now, url, row, files, wanted, ghosts>>

Tidy(a) ==
  /\ pc[a] = "tidy"
  /\ Told(a) /\ Goto(a, "done")
  /\ \/ staged' = {} /\ UNCHANGED faults
     \/ UNCHANGED staged /\ Fault
  /\ UNCHANGED <<now, url, row, stored, wanted, swept, discarded, halted>>

------------------------------------------------------------------------------
(* retainForApproval: what it will write was settled before it reads.      *)
BeginRetain(c) ==
  /\ pc[c] = "idle"
  /\ row.status = "ready" /\ ~Over
  /\ pc' = [pc EXCEPT ![c] = "keep"]
  /\ seen' = [seen EXCEPT ![c] = [row EXCEPT !.expires = now + ApprovalLife]]
  /\ UNCHANGED <<now, url, row, files, wanted, faults, ghosts>>

Keep(c) ==
  /\ pc[c] = "keep"
  /\ Query(c, {"ready"}, [row EXCEPT !.expires = seen[c].expires], "done", "done", "done")
  /\ UNCHANGED <<now, url, files, wanted, ghosts>>

------------------------------------------------------------------------------
(* discard and expireStale: read the row, remove its objects, close it.    *)
Sees(c) ==
  /\ pc' = [pc EXCEPT ![c] = "remove"]
  /\ seen' = [seen EXCEPT ![c] = row]

BeginDiscard(c) ==
  /\ pc[c] = "idle" /\ url = "issued"
  /\ row.status # "expired"
  /\ Sees(c) /\ discarded' = TRUE
  /\ UNCHANGED <<now, url, row, files, wanted, faults, linked, swept, halted>>

Unfinished == {"signed", "processing", "ready", "attaching", "failed"}

StaleM ==                   \* mutant: attached sessions grow stale too
  \/ row.status = "signed" /\ UrlLife <= now
  \/ row.status \in Unfinished \cup {"attached"} /\ Over
ForgetsM ==                 \* mutant: a session in processing is not swept
  \/ row.status = "signed" /\ UrlLife <= now
  \/ row.status \in Unfinished \ {"processing"} /\ Over

Stale ==
  \/ row.status = "signed" /\ UrlLife <= now
  \/ row.status \in Unfinished /\ Over

BeginSweep(c) ==
  /\ pc[c] = "idle"
  /\ Stale /\ Sees(c)
  /\ swept' = (swept \/ row.status = "attaching")
  /\ UNCHANGED <<now, url, row, files, wanted, faults, linked, discarded, halted>>

(* The staged objects and the final one, as the row named them then.       *)
Remove(c) ==
  /\ pc[c] = "remove"
  /\ LET kept == staged \ {seen[c].path, "source"}
         left == stored \ {seen[c].asset}
     IN \/ staged' = kept /\ stored' = left /\ Goto(c, "close") /\ UNCHANGED faults
        \/ staged' \in {staged, kept} /\ stored' \in {stored, left}
             /\ Fault /\ Goto(c, "pend")
  /\ UNCHANGED <<now, url, row, wanted, ghosts>>

ClosableM(c) == Unfinished \cup {"attached"}   \* mutant: the sweep ends what is attached
Closable(c) ==
  IF c \in Sweeps THEN Unfinished ELSE Unfinished \cup {"attached"}
Pendable(c) ==
  IF c \in Sweeps THEN Unfinished ELSE (Unfinished \ {"failed"}) \cup {"attached"}

Halts(c) ==
  halted' = IF c \in Discards /\ pc[c] \in {"close", "pend"} THEN halted \cup {c} ELSE halted

Close(c) ==
  /\ \/ /\ pc[c] = "close"
        /\ Query(c, Closable(c), [To("expired") EXCEPT !.expires = now],
                 Rest(c), Rest(c), Rest(c))
     \/ /\ pc[c] = "pend"
        /\ Query(c, Pendable(c), [To("failed") EXCEPT !.expires = now],
                 Rest(c), Rest(c), Rest(c))
  /\ IF faults' = faults THEN UNCHANGED halted ELSE Halts(c)
  /\ UNCHANGED <<now, url, files, wanted, linked, swept, discarded>>

------------------------------------------------------------------------------
Crash(c) ==
  /\ pc[c] \notin {"idle", "done"}
  /\ Fault /\ Goto(c, Rest(c)) /\ Halts(c)
  /\ UNCHANGED <<now, url, row, files, wanted, linked, swept, discarded>>

Tick ==
  /\ now < MaxTime /\ now' = now + 1
  /\ UNCHANGED <<url, row, files, wanted, pc, seen, faults, ghosts>>

CompleteStep(c) ==
  \/ BeginComplete(c) \/ Expire(c) \/ ClaimSource(c) \/ Download(c)
  \/ UploadProcessed(c) \/ SaveReady(c) \/ DropSource(c) \/ MarkFailed(c)

AttachStep(a) ==
  \/ BeginAttach(a) \/ Expire(a) \/ ClaimReady(a) \/ Reread(a) \/ ReadStaged(a)
  \/ PlaceAsset(a) \/ Link(a) \/ Confirm(a) \/ Tidy(a) \/ MarkFailed(a)

SweepStep(c) == BeginSweep(c) \/ Remove(c) \/ Close(c)

Next ==
  \/ IssueUrl \/ PutSource \/ Tick
  \/ \E c \in Completes : CompleteStep(c)
  \/ \E a \in Attaches : AttachStep(a)
  \/ \E c \in Retains : BeginRetain(c) \/ Keep(c)
  \/ \E c \in Discards : BeginDiscard(c) \/ Remove(c) \/ Close(c)
  \/ \E c \in Sweeps : SweepStep(c)
  \/ \E c \in Calls : Crash(c)

Spec == Init /\ [][Next]_vars

(* The clock advances and the cron comes round.  Nobody has to finish an   *)
(* upload, and a call may hang for ever.                                   *)
FairSpec ==
  /\ Spec /\ WF_vars(Tick)
  /\ \A c \in Sweeps : WF_vars(SweepStep(c))
=============================================================================
