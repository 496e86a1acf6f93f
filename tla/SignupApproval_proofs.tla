------------------------- MODULE SignupApproval_proofs -------------------------
(***************************************************************************)
(* For any number of submissions, administrators, cron runs and faults: an *)
(* account gets one member, a direct sign-up leaves it complete or not at  *)
(* all, and neither a member nor a request loses its image but to those    *)
(* who may take it.                                                        *)
(***************************************************************************)
EXTENDS SignupApprovalProps, FiniteSetTheorems, TLAPS

(* One session: all who carry its upload are of one kind.                  *)
OneKind == carries \subseteq Applies \/ carries \subseteq Directs
OneRow == \A x, y \in members : x = y

(* A request exists once its submission has inserted it, and is approved   *)
(* with its member.                                                        *)
ApplyOK(s) ==
  /\ at[s] \in {"start", "find", "retain", "keep", "insert", "discard", "end"}
  /\ at[s] \in {"start", "find", "retain", "keep", "insert"} => request[s].status = "none"
  /\ request[s].status = "none" => ~request[s].image
  /\ at[s] \in {"retain", "keep"} \/ request[s].image => s \in carries
  /\ request[s].status = "approved" <=> s \in members

(* What d holds of the upload, or has lost to another submission.          *)
HasImage(d) == (state = "attached" /\ asset = d) \/ culprits \ {d} # {}

(* A direct submission has a member from its insertion to its end.         *)
DirectOK(d) ==
  /\ at[d] \in {"start", "insert", "discard", "attach", "record", "undo", "rollback", "end"}
  /\ at[d] \in {"start", "insert", "discard"} => d \notin members
  /\ at[d] \in {"attach", "record", "undo", "rollback"} => d \in members
  /\ at[d] = "attach" => d \in carries
  /\ d \in told => /\ at[d] = "end" /\ d \in members /\ d \in consents
                   /\ d \in carries => d \in ledger
  /\ at[d] = "end" /\ d \in members => d \in told \/ d \in abandoned
  /\ d \in carries /\ (at[d] = "record" \/ d \in told) => HasImage(d)

(* The image of a rejected request is what administrators and the cron     *)
(* discard.                                                                *)
Lost == \E t \in Applies : request[t].image /\ request[t].status = "rejected"
AdminOK(p) ==
  /\ at[p] \in {"start", "attach", "approve", "reject", "reject_blind", "discard", "end"}
  /\ at[p] \in {"attach", "approve", "reject", "reject_blind"} => target[p] \in Applies
  /\ at[p] \in {"attach", "reject"} => request[target[p]].image
  /\ at[p] = "discard" => Lost
CronOK(k) ==
  /\ at[k] \in {"start", "discard", "sweep", "close"}
  /\ at[k] = "discard" => Lost

(* One request has the upload, and the upload has the time of a submission *)
(* that retained it.                                                       *)
OneImage == \A s, t \in Applies : request[s].image /\ request[t].image => s = t
Timed(t) == until = request[t].expires /\ at[t] \notin {"start", "find"}
RetainedFor ==
  \A s \in Applies \cap carries : at[s] = "insert" \/ request[s].image =>
    \E t \in Applies \cap carries : Timed(t)

SignupInv ==
  /\ TypeOK /\ OneKind /\ OneRow /\ OneImage /\ RetainedFor
  /\ \A s \in Applies : ApplyOK(s)
  /\ \A d \in Directs : DirectOK(d)
  /\ \A p \in Admins : AdminOK(p)
  /\ \A k \in Crons : CronOK(k)

------------------------------------------------------------------------------
Steps == {"start", "find", "retain", "keep", "insert", "discard", "attach", "record", "undo",
          "rollback", "approve", "reject", "reject_blind", "sweep", "close", "end"}
Request == [status : {"none", "pending", "approved", "rejected"}, image : BOOLEAN, expires : Nat]

LEMMA SignupInit == Init => SignupInv
<1> SUFFICES ASSUME Init PROVE SignupInv
  OBVIOUS
<1>1. /\ \A x \in Actors : at[x] = "start"
      /\ \A s \in Applies : request[s] = NoRequest
      /\ members = {} /\ told = {}
  BY DEF Init
<1>2. NoRequest \in Request /\ NoRequest.status = "none" /\ NoRequest.image = FALSE
  BY DEF NoRequest, Request
<1>3. TypeOK
  <2>1. now \in 0..MaxTime /\ faults \in 0..MaxFaults /\ until \in Nat
    BY LivesAssumption DEF Init
  <2>2. request \in [Applies -> Request]
    BY <1>2 DEF Init
  <2>3. carries \subseteq Submissions
    BY DEF Init, Submissions
  <2>4. at \in [Actors -> Steps]
    BY DEF Init, Steps
  <2>5. state = "open" /\ asset = None /\ discarded = FALSE
    BY DEF Init, Up!Init
  <2> QED
    BY <2>1, <2>2, <2>3, <2>4, <2>5 DEF Init, TypeOK, Request, Steps
<1>4. OneKind /\ OneRow /\ OneImage /\ RetainedFor
  BY <1>1, <1>2 DEF Init, OneKind, OneRow, OneImage, RetainedFor, Actors, Submissions
<1>5. \A s \in Applies : ApplyOK(s)
  BY <1>1, <1>2 DEF ApplyOK, Actors, Submissions
<1>6. \A d \in Directs : DirectOK(d)
  BY <1>1 DEF DirectOK, Actors, Submissions
<1>7. (\A p \in Admins : AdminOK(p)) /\ (\A k \in Crons : CronOK(k))
  BY <1>1 DEF AdminOK, CronOK, Actors
<1> QED
  BY <1>3, <1>4, <1>5, <1>6, <1>7 DEF SignupInv

------------------------------------------------------------------------------
(* What a step of one actor leaves as it was.                              *)
Moves(x) == \A y \in Actors \ {x} : at'[y] = at[y]
ImageStays(x) ==
  \A d \in Directs \ {x} :
    d \in carries /\ (at[d] = "record" \/ d \in told) /\ HasImage(d) => HasImage(d)'

LEMMA GotoIs ==
  ASSUME SignupInv, NEW x \in Actors, NEW step \in Steps, Goto(x, step)
  PROVE  at' \in [Actors -> Steps] /\ at'[x] = step /\ Moves(x)
  BY DEF SignupInv, TypeOK, Goto, Steps, Moves

LEMMA KindsApart ==
  /\ \A s \in Applies : s \in Actors /\ s \in Submissions /\ s \notin Directs /\ s \notin Admins /\ s \notin Crons
  /\ \A d \in Directs : d \in Actors /\ d \in Submissions /\ d \notin Applies /\ d \notin Admins /\ d \notin Crons
  /\ \A p \in Admins : p \in Actors /\ p \notin Applies /\ p \notin Directs /\ p \notin Crons
  /\ \A k \in Crons : k \in Actors /\ k \notin Applies /\ k \notin Directs /\ k \notin Admins
  BY ActorsAssumption DEF Actors, Submissions

LEMMA OthersKept ==
  ASSUME SignupInv, NEW x \in Actors, Moves(x), ImageStays(x),
         UNCHANGED <<request, members, ledger, consents, carries, told>>,
         abandoned \subseteq abandoned',
         \A p \in Admins \ {x} : target'[p] = target[p]
  PROVE  /\ OneKind' /\ OneRow' /\ OneImage'
         /\ \A s \in Applies \ {x} : ApplyOK(s)'
         /\ \A d \in Directs \ {x} : DirectOK(d)'
         /\ \A p \in Admins \ {x} : AdminOK(p)'
         /\ \A k \in Crons \ {x} : CronOK(k)'
<1>1. OneKind' /\ OneRow' /\ OneImage'
  BY DEF SignupInv, OneKind, OneRow, OneImage
<1>2. \A s \in Applies \ {x} : ApplyOK(s)'
  BY KindsApart DEF SignupInv, ApplyOK, Moves
<1>3. ASSUME NEW d \in Directs \ {x} PROVE DirectOK(d)'
  <2>1. DirectOK(d) /\ at'[d] = at[d]
    BY KindsApart DEF SignupInv, Moves
  <2>2. d \in carries /\ (at[d] = "record" \/ d \in told) => HasImage(d)'
    BY <2>1 DEF DirectOK, ImageStays
  <2> QED
    BY <2>1, <2>2 DEF DirectOK
<1>4. \A p \in Admins \ {x} : AdminOK(p)'
  BY KindsApart DEF SignupInv, AdminOK, Lost, Moves
<1>5. \A k \in Crons \ {x} : CronOK(k)'
  BY KindsApart DEF SignupInv, CronOK, Lost, Moves
<1> QED
  BY <1>1, <1>2, <1>3, <1>4, <1>5

LEMMA RetainedKept ==
  ASSUME SignupInv, NEW x \in Actors, Moves(x), UNCHANGED <<until, request, carries>>,
         x \in Applies /\ at[x] \notin {"start", "find"} => at'[x] \notin {"start", "find"},
         x \in Applies \cap carries /\ at'[x] = "insert" => at[x] = "insert"
  PROVE  RetainedFor'
<1>1. \A t \in Applies : Timed(t) => Timed(t)'
  BY KindsApart DEF Timed, Moves
<1>2. \A s \in Applies \cap carries : at'[s] = "insert" => at[s] = "insert"
  BY KindsApart DEF Moves
<1>3. RetainedFor
  BY DEF SignupInv
<1> QED
  BY <1>1, <1>2, <1>3 DEF RetainedFor

(* The upload's variables stay, or the step is none of those below.        *)
LEMMA UploadSame ==
  ASSUME NEW x, UNCHANGED <<state, asset, culprits>>
  PROVE  ImageStays(x)
  BY DEF ImageStays, HasImage

UploadTypes ==
  /\ state \in {"open", "attached", "closed"} /\ asset \in Submissions \cup {None}
  /\ discarded \in BOOLEAN /\ culprits \subseteq Submissions

LEMMA FaultCounts ==
  ASSUME SignupInv, UNCHANGED faults \/ Fault
  PROVE  faults' \in 0..MaxFaults
  BY LivesAssumption DEF SignupInv, TypeOK, Fault

(* A step that moves its actor, and perhaps the upload.                    *)
LEMMA QuietStep ==
  ASSUME SignupInv, NEW x \in Actors, NEW step \in Steps, Goto(x, step),
         UNCHANGED <<now, request, members, ledger, consents, carries, told, until>>,
         UNCHANGED faults \/ Fault,
         abandoned \subseteq abandoned', abandoned' \subseteq Directs,
         target' \in [Admins -> Applies \cup {None}],
         \A p \in Admins \ {x} : target'[p] = target[p],
         UploadTypes', ImageStays(x),
         x \in Applies => /\ ApplyOK(x)'
                          /\ at[x] \in {"start", "find"} \/ step \notin {"start", "find"}
                          /\ step = "insert" => at[x] = "insert" \/ x \notin carries,
         x \in Directs => DirectOK(x)',
         x \in Admins => AdminOK(x)',
         x \in Crons => CronOK(x)'
  PROVE  SignupInv'
<1>1. at' \in [Actors -> Steps] /\ at'[x] = step /\ Moves(x)
  BY GotoIs
<1>2. TypeOK'
  <2>1. TypeOK /\ faults' \in 0..MaxFaults
    BY FaultCounts DEF SignupInv
  <2> QED
    BY <1>1, <2>1 DEF TypeOK, UploadTypes, Steps
<1>3. RetainedFor'
  BY <1>1, RetainedKept
<1>4. /\ OneKind' /\ OneRow' /\ OneImage'
      /\ \A s \in Applies \ {x} : ApplyOK(s)'
      /\ \A d \in Directs \ {x} : DirectOK(d)'
      /\ \A p \in Admins \ {x} : AdminOK(p)'
      /\ \A k \in Crons \ {x} : CronOK(k)'
  BY <1>1, OthersKept
<1> QED
  BY <1>2, <1>3, <1>4 DEF SignupInv

LEMMA UploadKept ==
  ASSUME SignupInv, UNCHANGED <<state, asset, discarded, culprits>>
  PROVE  UploadTypes'
  BY DEF SignupInv, TypeOK, UploadTypes

LEMMA TargetKept ==
  ASSUME SignupInv, target' = target
  PROVE  target' \in [Admins -> Applies \cup {None}]
  BY DEF SignupInv, TypeOK

LEMMA AbandonedTyped == SignupInv => abandoned \subseteq Directs
  BY DEF SignupInv, TypeOK

LEMMA BeginSubmitStep ==
  ASSUME SignupInv, NEW s \in Submissions, BeginSubmit(s)
  PROVE  SignupInv'
<1>1. PICK step \in {"discard", "end", "find", "insert"} :
        /\ Goto(s, step) /\ at[s] = "start"
        /\ step = "find" => s \in Applies
        /\ step = "insert" => s \notin Applies
  BY DEF BeginSubmit, Carried
<1>2. /\ UNCHANGED <<now, upload, rows, carries, target, ghosts>>
      /\ UNCHANGED faults \/ Fault
  BY DEF BeginSubmit
<1>3. s \in Actors /\ step \in Steps /\ s \notin Admins /\ s \notin Crons
  BY KindsApart DEF Submissions, Steps
<1>4. at'[s] = step
  BY <1>1, <1>3, GotoIs
<1>5. s \in Applies => ApplyOK(s)'
  BY <1>1, <1>2, <1>4 DEF SignupInv, ApplyOK, rows
<1>6. s \in Directs => DirectOK(s)'
  <2> HAVE s \in Directs
  <2>1. DirectOK(s) /\ s \notin Applies
    BY KindsApart DEF SignupInv
  <2> QED
    BY <1>1, <1>2, <1>4, <2>1 DEF DirectOK, rows, ghosts
<1>7. /\ UNCHANGED <<now, request, members, ledger, consents, carries, told, until>>
      /\ abandoned' = abandoned /\ target' = target
      /\ UNCHANGED <<state, asset, discarded, culprits>>
  BY <1>2 DEF rows, ghosts, upload, cell
<1>8. UploadTypes' /\ ImageStays(s) /\ target' \in [Admins -> Applies \cup {None}]
      /\ abandoned' \subseteq Directs
  BY <1>7, UploadKept, UploadSame, TargetKept, AbandonedTyped
<1> QED
  BY <1>1, <1>2, <1>3, <1>5, <1>6, <1>7, <1>8, QuietStep

------------------------------------------------------------------------------
(* Who may take the image of a direct submission: none but another that    *)
(* discards.                                                               *)
LEMMA OneHolder ==
  ASSUME SignupInv, NEW d \in Directs, d \in carries, at[d] = "record" \/ d \in told
  PROVE  /\ ~Lost
         /\ \A t \in Applies : ~request[t].image
         /\ \A e \in Directs : at[e] \in {"attach", "undo"} => FALSE
<1>1. DirectOK(d) /\ d \in members /\ d \notin Applies
  BY KindsApart DEF SignupInv, DirectOK
<1>2. \A t \in Applies : t \notin carries
  BY <1>1, KindsApart DEF SignupInv, OneKind
<1>3. \A t \in Applies : ~request[t].image
  BY <1>2 DEF SignupInv, ApplyOK
<1>4. \A e \in Directs : at[e] \in {"attach", "undo"} => e \in members /\ e # d
  BY <1>1 DEF SignupInv, DirectOK
<1> QED
  BY <1>1, <1>3, <1>4 DEF SignupInv, OneRow, Lost

LEMMA AttachIs ==
  ASSUME SignupInv, NEW x, NEW for \in Submissions, NEW ok, NEW failed,
         Attach(x, for, ok, failed), culprits' = culprits
  PROVE  /\ UploadTypes' /\ (UNCHANGED faults \/ Fault)
         /\ (Goto(x, ok) /\ state' = "attached" /\ asset' = for) \/ Goto(x, failed)
         /\ state # "closed" /\ state' = "closed" => Over \/ Fault
  BY NoneAssumption DEF SignupInv, TypeOK, Attach, UploadTypes, Up!Attach, Up!Close, cell

LEMMA AttachImageStep ==
  ASSUME SignupInv, NEW d \in Directs, AttachImage(d)
  PROVE  SignupInv'
<1>1. /\ at[d] = "attach" /\ Attach(d, d, "record", "undo")
      /\ UNCHANGED <<now, until, culprits, rows, carries, target, ghosts>>
  BY DEF AttachImage
<1>2. d \in Actors /\ d \in Submissions /\ d \notin Applies /\ d \notin Admins /\ d \notin Crons
  BY KindsApart
<1>3. /\ UploadTypes' /\ (UNCHANGED faults \/ Fault)
      /\ (Goto(d, "record") /\ state' = "attached" /\ asset' = d) \/ Goto(d, "undo")
  BY <1>1, <1>2, AttachIs
<1>4. PICK step \in {"record", "undo"} :
        Goto(d, step) /\ (step = "record" => state' = "attached" /\ asset' = d)
  BY <1>3
<1>5. step \in Steps /\ at'[d] = step
  BY <1>2, <1>4, GotoIs DEF Steps
<1>6. ImageStays(d)
  BY <1>1, OneHolder DEF ImageStays
<1>7. DirectOK(d)'
  <2>1. DirectOK(d)
    BY DEF SignupInv
  <2> QED
    BY <1>1, <1>4, <1>5, <2>1 DEF DirectOK, HasImage, rows, ghosts
<1>8. /\ UNCHANGED <<now, request, members, ledger, consents, carries, told, until>>
      /\ abandoned' = abandoned /\ target' = target
  BY <1>1 DEF rows, ghosts
<1>9. target' \in [Admins -> Applies \cup {None}] /\ abandoned' \subseteq Directs
  BY <1>8, TargetKept, AbandonedTyped
<1> QED
  BY <1>2, <1>3, <1>4, <1>5, <1>6, <1>7, <1>8, <1>9, QuietStep

LEMMA AttachRequestedStep ==
  ASSUME SignupInv, NEW p \in Admins, AttachRequested(p)
  PROVE  SignupInv'
<1>1. /\ at[p] = "attach" /\ Attach(p, target[p], "approve", "end")
      /\ UNCHANGED <<now, until, culprits, rows, carries, target, ghosts>>
  BY DEF AttachRequested
<1>2. p \in Actors /\ p \notin Applies /\ p \notin Directs /\ p \notin Crons
  BY KindsApart
<1>3. AdminOK(p) /\ target[p] \in Applies /\ target[p] \in Submissions /\ request[target[p]].image
  BY <1>1, KindsApart DEF SignupInv, AdminOK
<1>4. /\ UploadTypes' /\ (UNCHANGED faults \/ Fault)
      /\ Goto(p, "approve") \/ Goto(p, "end")
  BY <1>1, <1>3, AttachIs
<1>5. PICK step \in {"approve", "end"} : Goto(p, step)
  BY <1>4
<1>6. step \in Steps /\ at'[p] = step
  BY <1>2, <1>5, GotoIs DEF Steps
<1>7. ImageStays(p)
  BY <1>3, OneHolder DEF ImageStays
<1>8. AdminOK(p)'
  BY <1>1, <1>3, <1>5, <1>6 DEF AdminOK, rows
<1>9. /\ UNCHANGED <<now, request, members, ledger, consents, carries, told, until>>
      /\ abandoned' = abandoned /\ target' = target
  BY <1>1 DEF rows, ghosts
<1>10. target' \in [Admins -> Applies \cup {None}] /\ abandoned' \subseteq Directs
  BY <1>9, TargetKept, AbandonedTyped
<1> QED
  BY <1>2, <1>4, <1>5, <1>6, <1>7, <1>8, <1>9, <1>10, QuietStep

LEMMA DiscardIs ==
  ASSUME SignupInv, NEW x \in Actors, NEW next \in Steps, Discard(x, next)
  PROVE  /\ UploadTypes' /\ (UNCHANGED faults \/ Fault) /\ Goto(x, next) /\ at'[x] = next
         /\ UNCHANGED <<now, request, members, ledger, consents, carries, told, until>>
         /\ abandoned' = abandoned /\ target' = target
         /\ target' \in [Admins -> Applies \cup {None}] /\ abandoned' \subseteq Directs
         /\ culprits \subseteq culprits'
         /\ at[x] = "discard" /\ x \in Submissions => x \in culprits'
<1>1. /\ discarded' = TRUE /\ UNCHANGED <<now, until, rows, carries, target, ghosts>>
      /\ culprits' = culprits \cup (IF at[x] = "discard" THEN {x} \cap Submissions ELSE {})
      /\ Close \/ UNCHANGED <<state, asset>>
      /\ UNCHANGED faults \/ Fault
      /\ Goto(x, next)
  BY DEF Discard
<1>2. UploadTypes'
  BY <1>1 DEF SignupInv, TypeOK, UploadTypes, Close
<1>3. /\ UNCHANGED <<now, request, members, ledger, consents, carries, told, until>>
      /\ abandoned' = abandoned /\ target' = target
  BY <1>1 DEF rows, ghosts
<1> QED
  BY <1>1, <1>2, <1>3, TargetKept, AbandonedTyped, GotoIs

LEMMA DiscardUploadStep ==
  ASSUME SignupInv, NEW x \in Actors, DiscardUpload(x)
  PROVE  SignupInv'
<1> DEFINE next == IF x \in Crons THEN "sweep" ELSE "end"
<1>1. at[x] = "discard" /\ Discard(x, next) /\ next \in Steps
  BY DEF DiscardUpload, Steps
<1>2. /\ UploadTypes' /\ (UNCHANGED faults \/ Fault) /\ Goto(x, next) /\ at'[x] = next
      /\ UNCHANGED <<now, request, members, ledger, consents, carries, told, until>>
      /\ abandoned' = abandoned /\ target' = target
      /\ target' \in [Admins -> Applies \cup {None}] /\ abandoned' \subseteq Directs
      /\ culprits \subseteq culprits'
      /\ x \in Submissions => x \in culprits'
  BY <1>1, DiscardIs
<1>3. ImageStays(x)
  <2> SUFFICES ASSUME NEW d \in Directs \ {x}, d \in carries, at[d] = "record" \/ d \in told
               PROVE  HasImage(d)'
    BY DEF ImageStays
  <2>1. ~Lost
    BY OneHolder
  <2>2. x \in Submissions
    BY <1>1, <2>1 DEF SignupInv, AdminOK, CronOK, Actors
  <2> QED
    BY <1>2, <2>2 DEF HasImage
<1>4. x \in Applies => ApplyOK(x)'
  BY <1>1, <1>2, KindsApart DEF SignupInv, ApplyOK
<1>5. ASSUME x \in Directs PROVE DirectOK(x)'
  <2>1. DirectOK(x) /\ next = "end"
    BY <1>5, KindsApart DEF SignupInv
  <2> QED
    BY <1>1, <1>2, <2>1 DEF DirectOK
<1>6. x \in Admins => AdminOK(x)'
  BY <1>1, <1>2, KindsApart DEF AdminOK
<1>7. x \in Crons => CronOK(x)'
  BY <1>2 DEF CronOK
<1>8. next \notin {"start", "find", "insert"}
  OBVIOUS
<1> HIDE DEF next
<1> QED
  BY <1>1, <1>2, <1>3, <1>4, <1>5, <1>6, <1>7, <1>8, QuietStep

LEMMA UndoUploadStep ==
  ASSUME SignupInv, NEW d \in Directs, UndoUpload(d)
  PROVE  SignupInv'
<1>1. d \in Actors /\ d \in Submissions /\ d \notin Applies /\ d \notin Admins /\ d \notin Crons
  BY KindsApart
<1>2. at[d] = "undo" /\ "rollback" \in Steps
  BY DEF UndoUpload, Steps
<1>3. /\ UploadTypes' /\ (UNCHANGED faults \/ Fault) /\ Goto(d, "rollback") /\ at'[d] = "rollback"
      /\ UNCHANGED <<now, request, members, ledger, consents, carries, told, until>>
      /\ abandoned' = abandoned /\ target' = target
      /\ target' \in [Admins -> Applies \cup {None}] /\ abandoned' \subseteq Directs
  <2>1. CASE Discard(d, "rollback")
    BY <1>1, <1>2, <2>1, DiscardIs
  <2>2. CASE /\ Goto(d, "rollback")
             /\ UNCHANGED <<now, faults, upload, rows, carries, target, ghosts>>
    <3>1. UNCHANGED <<state, asset, discarded, culprits>>
      BY <2>2 DEF upload, cell
    <3>2. UploadTypes' /\ at'[d] = "rollback"
      BY <1>1, <1>2, <2>2, <3>1, UploadKept, GotoIs
    <3> QED
      BY <2>2, <3>2, TargetKept, AbandonedTyped DEF upload, rows, ghosts
  <2> QED
    BY <2>1, <2>2 DEF UndoUpload
<1>4. ImageStays(d)
  BY <1>2, OneHolder DEF ImageStays
<1>5. DirectOK(d)'
  <2>1. DirectOK(d)
    BY DEF SignupInv
  <2> QED
    BY <1>2, <1>3, <2>1 DEF DirectOK
<1> QED
  BY <1>1, <1>2, <1>3, <1>4, <1>5, QuietStep

(* An actor moves on and touches nothing.                                  *)
LEMMA StillStep ==
  ASSUME SignupInv, NEW x \in Actors, NEW step \in Steps, Goto(x, step),
         UNCHANGED <<now, upload, rows, carries>>, UNCHANGED faults \/ Fault,
         told' = told, abandoned \subseteq abandoned', abandoned' \subseteq Directs,
         target' \in [Admins -> Applies \cup {None}],
         \A p \in Admins \ {x} : target'[p] = target[p],
         x \in Applies => /\ ApplyOK(x)'
                          /\ at[x] \in {"start", "find"} \/ step \notin {"start", "find"}
                          /\ step = "insert" => at[x] = "insert" \/ x \notin carries,
         x \in Directs => DirectOK(x)',
         x \in Admins => AdminOK(x)',
         x \in Crons => CronOK(x)'
  PROVE  SignupInv'
<1>1. /\ UNCHANGED <<state, asset, discarded, culprits>>
      /\ UNCHANGED <<now, request, members, ledger, consents, carries, told, until>>
  BY DEF upload, cell, rows
<1>2. UploadTypes' /\ ImageStays(x)
  BY <1>1, UploadKept, UploadSame
<1> QED
  BY <1>1, <1>2, QuietStep

LEMMA RetainUploadStep ==
  ASSUME SignupInv, NEW s \in Applies, RetainUpload(s)
  PROVE  SignupInv'
<1>1. PICK step \in {"keep", "end"} : Goto(s, step) /\ at[s] = "retain"
  BY DEF RetainUpload
<1>2. /\ UNCHANGED <<now, upload, rows, carries, target, ghosts>>
      /\ UNCHANGED faults \/ Fault
  BY DEF RetainUpload
<1>3. s \in Actors /\ step \in Steps /\ s \notin Directs /\ s \notin Admins /\ s \notin Crons
  BY KindsApart DEF Steps
<1>4. at'[s] = step
  BY <1>1, <1>3, GotoIs
<1>5. ApplyOK(s)'
  BY <1>1, <1>2, <1>4 DEF SignupInv, ApplyOK, rows
<1>6. target' = target /\ told' = told /\ abandoned' = abandoned
  BY <1>2 DEF ghosts
<1> QED
  BY <1>1, <1>2, <1>3, <1>5, <1>6, TargetKept, AbandonedTyped, StillStep

LEMMA KeepUploadStep ==
  ASSUME SignupInv, NEW s \in Applies, KeepUpload(s)
  PROVE  SignupInv'
<1>1. /\ at[s] = "keep" /\ (UNCHANGED faults \/ Fault)
      /\ UNCHANGED <<now, cell, culprits, rows, carries, target, ghosts>>
      /\ \/ until' = request[s].expires /\ Goto(s, "insert")
         \/ until' = request[s].expires /\ Goto(s, "end")
         \/ until' = until /\ Goto(s, "end")
  BY DEF KeepUpload
<1>2. PICK step \in {"insert", "end"} :
        /\ Goto(s, step)
        /\ until' = request[s].expires \/ (until' = until /\ step = "end")
  BY <1>1
<1>3. s \in Actors /\ step \in Steps /\ s \notin Directs /\ s \notin Admins /\ s \notin Crons
  BY KindsApart DEF Steps
<1>4. at' \in [Actors -> Steps] /\ at'[s] = step /\ Moves(s)
  BY <1>2, <1>3, GotoIs
<1>5. s \in carries /\ ApplyOK(s)'
  BY <1>1, <1>2, <1>4 DEF SignupInv, ApplyOK, rows
<1>6. /\ UNCHANGED <<state, asset, discarded, culprits>>
      /\ UNCHANGED <<now, request, members, ledger, consents, carries, told, abandoned, target>>
  BY <1>1 DEF cell, rows, ghosts
<1>7. /\ OneKind' /\ OneRow' /\ OneImage'
      /\ \A t \in Applies \ {s} : ApplyOK(t)'
      /\ \A d \in Directs \ {s} : DirectOK(d)'
      /\ \A p \in Admins \ {s} : AdminOK(p)'
      /\ \A k \in Crons \ {s} : CronOK(k)'
  BY <1>3, <1>4, <1>6, UploadSame, OthersKept
<1>8. TypeOK'
  <2>1. TypeOK /\ faults' \in 0..MaxFaults
    BY <1>1, FaultCounts DEF SignupInv
  <2>2. until' \in Nat
    BY <1>2, <2>1 DEF TypeOK
  <2> QED
    BY <1>4, <1>6, <2>1, <2>2 DEF TypeOK, Steps
<1>9. RetainedFor'
  <2>1. CASE until' = request[s].expires
    <3>1. Timed(s)'
      BY <1>2, <1>4, <1>6, <2>1 DEF Timed
    <3> QED
      BY <1>5, <1>6, <3>1 DEF RetainedFor
  <2>2. CASE until' = until /\ step = "end"
    BY <1>1, <1>3, <1>4, <1>6, <2>2, RetainedKept
  <2> QED
    BY <1>2, <2>1, <2>2
<1> QED
  BY <1>3, <1>5, <1>7, <1>8, <1>9 DEF SignupInv

LEMMA SweepStep ==
  ASSUME SignupInv, NEW k \in Crons, Sweep(k)
  PROVE  SignupInv'
<1>1. PICK step \in {"start", "close"} : Goto(k, step)
  BY DEF Sweep
<1>2. /\ UNCHANGED <<now, until, culprits, rows, carries, target, ghosts>>
      /\ UNCHANGED faults \/ Fault
      /\ UNCHANGED cell \/ (state = "open" /\ Up!Close /\ UNCHANGED discarded)
  BY DEF Sweep
<1>3. k \in Actors /\ step \in Steps /\ k \notin Applies /\ k \notin Directs /\ k \notin Admins
  BY KindsApart DEF Steps
<1>4. CronOK(k)'
  BY <1>1, <1>3, GotoIs DEF CronOK
<1>5. UploadTypes'
  BY <1>2 DEF SignupInv, TypeOK, UploadTypes, Up!Close, cell
<1>6. ImageStays(k)
  BY <1>2 DEF ImageStays, HasImage, cell
<1>7. /\ UNCHANGED <<now, request, members, ledger, consents, carries, told, until>>
      /\ abandoned' = abandoned /\ target' = target
  BY <1>2 DEF rows, ghosts
<1> QED
  BY <1>1, <1>2, <1>3, <1>4, <1>5, <1>6, <1>7, TargetKept, AbandonedTyped, QuietStep

LEMMA CrashStep ==
  ASSUME SignupInv, NEW x \in Actors, Crash(x)
  PROVE  SignupInv'
<1> DEFINE step == IF x \in Crons THEN "start" ELSE "end"
<1>1. /\ at[x] \notin {"start", "end"} /\ Fault /\ Goto(x, step)
      /\ abandoned' = abandoned \cup ({x} \cap members \cap Directs)
      /\ UNCHANGED <<now, upload, rows, carries, target, told>>
  BY DEF Crash
<1>2. step \in Steps /\ step \notin {"find", "insert"} /\ (x \notin Crons => step = "end")
      /\ (x \in Crons => step = "start")
  BY DEF Steps
<1> HIDE DEF step
<1>3. at'[x] = step
  BY <1>1, <1>2, GotoIs
<1>4. x \in Applies => ApplyOK(x)' /\ step = "end"
  BY <1>1, <1>2, <1>3, KindsApart DEF SignupInv, ApplyOK, rows
<1>5. ASSUME x \in Directs PROVE DirectOK(x)'
  <2>1. DirectOK(x) /\ step = "end"
    BY <1>2, <1>5, KindsApart DEF SignupInv
  <2>2. x \notin told
    BY <1>1, <2>1 DEF DirectOK
  <2>3. /\ x \in members' => x \in abandoned'
        /\ UNCHANGED <<told, carries, members>>
    BY <1>1, <1>5 DEF rows
  <2> QED
    BY <1>3, <2>1, <2>2, <2>3 DEF DirectOK
<1>6. x \in Admins => AdminOK(x)'
  BY <1>2, <1>3, KindsApart DEF AdminOK
<1>7. x \in Crons => CronOK(x)'
  BY <1>2, <1>3 DEF CronOK
<1>8. abandoned' \subseteq Directs /\ abandoned \subseteq abandoned'
  BY <1>1, AbandonedTyped
<1> QED
  BY <1>1, <1>2, <1>4, <1>5, <1>6, <1>7, <1>8, TargetKept, StillStep

LEMMA OpensStep ==
  ASSUME SignupInv, NEW p \in Admins, NEW t \in Applies, BeginApprove(p, t) \/ BeginReject(p, t)
  PROVE  SignupInv'
<1>1. PICK step \in {"attach", "approve", "reject", "reject_blind", "end"} :
        /\ Goto(p, step) /\ target' = [target EXCEPT ![p] = t]
        /\ step \in {"attach", "reject"} => request[t].image
  BY DEF BeginApprove, BeginReject, Opens
<1>2. /\ UNCHANGED <<now, upload, rows, carries, ghosts>>
      /\ UNCHANGED faults \/ Fault
  BY DEF BeginApprove, BeginReject
<1>3. p \in Actors /\ step \in Steps /\ p \notin Applies /\ p \notin Directs /\ p \notin Crons
  BY KindsApart DEF Steps
<1>4. at'[p] = step
  BY <1>1, <1>3, GotoIs
<1>5. /\ target' \in [Admins -> Applies \cup {None}] /\ target'[p] = t
      /\ \A q \in Admins \ {p} : target'[q] = target[q]
  BY <1>1 DEF SignupInv, TypeOK
<1>6. AdminOK(p)'
  BY <1>1, <1>2, <1>4, <1>5 DEF AdminOK, rows
<1>7. told' = told /\ abandoned' = abandoned
  BY <1>2 DEF ghosts
<1> QED
  BY <1>1, <1>2, <1>3, <1>5, <1>6, <1>7, AbandonedTyped, StillStep

------------------------------------------------------------------------------
(* Steps that write requests.                                              *)
LEMMA RequestStep ==
  ASSUME SignupInv, NEW x \in Actors, NEW step \in Steps, Goto(x, step),
         UNCHANGED <<now, upload, ledger, consents, carries, target, ghosts>>,
         UNCHANGED faults \/ Fault,
         request' \in [Applies -> Request], members' \subseteq Submissions,
         \A d \in Directs : d \in members' <=> d \in members,
         \A t \in Applies :
           /\ request[t].image => request'[t].image
           /\ request[t].status = "rejected" => request'[t].status = "rejected"
           /\ at[t] \notin {"start", "find"} =>
                request'[t].expires = request[t].expires /\ at'[t] \notin {"start", "find"}
           /\ t \in carries /\ (at'[t] = "insert" \/ request'[t].image) =>
                at[t] = "insert" \/ request[t].image,
         \A t \in Applies : ApplyOK(t)',
         OneRow', OneImage',
         x \notin Directs,
         x \in Admins => AdminOK(x)',
         x \in Crons => CronOK(x)'
  PROVE  SignupInv'
<1>1. at' \in [Actors -> Steps] /\ at'[x] = step /\ Moves(x)
  BY GotoIs
<1>2. /\ UNCHANGED <<state, asset, discarded, culprits, until>>
      /\ UNCHANGED <<now, ledger, consents, carries, told, abandoned, target>>
  BY DEF upload, cell, ghosts
<1>3. TypeOK'
  <2>1. TypeOK /\ faults' \in 0..MaxFaults
    BY FaultCounts DEF SignupInv
  <2> QED
    BY <1>1, <1>2, <2>1 DEF TypeOK, Steps, Request
<1>4. OneKind'
  BY <1>2 DEF SignupInv, OneKind
<1>5. RetainedFor'
  <2> SUFFICES ASSUME NEW s \in Applies \cap carries, at'[s] = "insert" \/ request'[s].image
               PROVE  \E t \in Applies \cap carries : Timed(t)'
    BY <1>2 DEF RetainedFor
  <2>1. PICK t \in Applies \cap carries : Timed(t)
    BY DEF SignupInv, RetainedFor
  <2>2. Timed(t)'
    BY <1>2, <2>1 DEF Timed
  <2> QED
    BY <2>2
<1>6. ASSUME NEW d \in Directs PROVE DirectOK(d)'
  <2>1. DirectOK(d) /\ at'[d] = at[d] /\ (d \in members' <=> d \in members)
    BY <1>1, KindsApart DEF SignupInv, Moves
  <2> QED
    BY <1>2, <2>1 DEF DirectOK, HasImage
<1>7. Lost => Lost'
  BY DEF Lost
<1>8. ASSUME NEW p \in Admins \ {x} PROVE AdminOK(p)'
  <2>1. AdminOK(p) /\ at'[p] = at[p] /\ target'[p] = target[p]
    BY <1>1, <1>2, KindsApart DEF SignupInv, Moves
  <2> QED
    BY <1>7, <2>1 DEF AdminOK
<1>9. ASSUME NEW k \in Crons \ {x} PROVE CronOK(k)'
  <2>1. CronOK(k) /\ at'[k] = at[k]
    BY <1>1, KindsApart DEF SignupInv, Moves
  <2> QED
    BY <1>7, <2>1 DEF CronOK
<1> QED
  BY <1>3, <1>4, <1>5, <1>6, <1>8, <1>9 DEF SignupInv

LEMMA FindPendingStep ==
  ASSUME SignupInv, NEW s \in Applies, FindPending(s)
  PROVE  SignupInv'
<1>1. PICK step \in {"retain", "insert", "discard", "end"} :
        /\ Goto(s, step) /\ at[s] = "find"
        /\ step = "retain" => s \in carries
        /\ step = "insert" => s \notin carries
  BY DEF FindPending, Carried
<1>2. /\ UNCHANGED <<now, upload, members, ledger, consents, carries, target, ghosts>>
      /\ UNCHANGED faults \/ Fault
      /\ request' = request \/ request' = [request EXCEPT ![s].expires = now + ApprovalLife]
  BY DEF FindPending
<1>3. s \in Actors /\ step \in Steps /\ s \notin Directs /\ s \notin Admins /\ s \notin Crons
  BY KindsApart DEF Steps
<1>4. at'[s] = step /\ Moves(s)
  BY <1>1, <1>3, GotoIs
<1>5. /\ request' \in [Applies -> Request]
      /\ \A t \in Applies : /\ request'[t].image = request[t].image
                            /\ request'[t].status = request[t].status
                            /\ t # s => request'[t].expires = request[t].expires
  <2>1. request \in [Applies -> Request] /\ now + ApprovalLife \in Nat
    BY LivesAssumption DEF SignupInv, TypeOK, Request
  <2>2. CASE request' = request
    BY <2>1, <2>2
  <2>3. CASE request' = [request EXCEPT ![s].expires = now + ApprovalLife]
    BY <2>1, <2>3 DEF Request
  <2> QED
    BY <1>2, <2>2, <2>3
<1>6. \A t \in Applies : t # s => at'[t] = at[t]
  BY <1>4, KindsApart DEF Moves
<1>7. ASSUME NEW t \in Applies PROVE ApplyOK(t)'
  <2>1. ApplyOK(t)
    BY DEF SignupInv
  <2>2. members' = members /\ carries' = carries
    BY <1>2
  <2>3. CASE t = s
    BY <1>1, <1>4, <1>5, <2>1, <2>2, <2>3 DEF ApplyOK
  <2>4. CASE t # s
    BY <1>5, <1>6, <2>1, <2>2, <2>4 DEF ApplyOK
  <2> QED
    BY <2>3, <2>4
<1>8. OneRow' /\ OneImage' /\ members' \subseteq Submissions
  BY <1>2, <1>5 DEF SignupInv, OneRow, OneImage, TypeOK
<1>9. \A t \in Applies :
        /\ at[t] \notin {"start", "find"} =>
             request'[t].expires = request[t].expires /\ at'[t] \notin {"start", "find"}
        /\ t \in carries /\ (at'[t] = "insert" \/ request'[t].image) =>
             at[t] = "insert" \/ request[t].image
  BY <1>1, <1>4, <1>5, <1>6
<1>10. \A d \in Directs : d \in members' <=> d \in members
  BY <1>2
<1>11. UNCHANGED <<now, upload, ledger, consents, carries, target, ghosts>>
  BY <1>2
<1> QED
  BY <1>1, <1>2, <1>3, <1>5, <1>7, <1>8, <1>9, <1>10, <1>11, RequestStep

Inserted(x, image) == [x EXCEPT !.status = "pending", !.image = image]
LEMMA InsertedIs ==
  ASSUME NEW x \in Request, NEW image \in BOOLEAN
  PROVE  /\ Inserted(x, image) \in Request /\ Inserted(x, image).status = "pending"
         /\ Inserted(x, image).image = image /\ Inserted(x, image).expires = x.expires
  BY DEF Request, Inserted

LEMMA InsertRequestStep ==
  ASSUME SignupInv, NEW s \in Applies, InsertRequest(s)
  PROVE  SignupInv'
<1>1. PICK step \in {"discard", "end"} : Goto(s, step) /\ at[s] = "insert"
  BY DEF InsertRequest, Carried
<1>2. /\ UNCHANGED <<now, upload, members, ledger, consents, carries, target, ghosts>>
      /\ UNCHANGED faults \/ Fault
  BY DEF InsertRequest
<1>3. s \in Actors /\ step \in Steps /\ s \notin Directs /\ s \notin Admins /\ s \notin Crons
  BY KindsApart DEF Steps
<1>4. at'[s] = step /\ \A t \in Applies : t # s => at'[t] = at[t]
  BY <1>1, <1>3, GotoIs, KindsApart DEF Moves
<1>5. request \in [Applies -> Request] /\ ApplyOK(s) /\ (s \in carries) \in BOOLEAN
  BY DEF SignupInv, TypeOK, Request
<1>6. /\ request' \in [Applies -> Request]
      /\ \A t \in Applies \ {s} : request'[t] = request[t]
      /\ request'[s].expires = request[s].expires
      /\ \/ request'[s] = request[s]
         \/ /\ request'[s].status = "pending" /\ (request'[s].image <=> s \in carries)
            /\ s \in carries => \A t \in Applies : ~request[t].image
  <2>1. \/ request' = request
        \/ /\ ~Conflict(s)
           /\ request' = [request EXCEPT ![s].status = "pending", ![s].image = s \in carries]
    BY DEF InsertRequest
  <2>2. CASE request' = request
    BY <1>5, <2>2
  <2>3. CASE /\ ~Conflict(s)
             /\ request' = [request EXCEPT ![s].status = "pending", ![s].image = s \in carries]
    <3> DEFINE img == s \in carries
               y == Inserted(request[s], img)
    <3>1. request' = [request EXCEPT ![s] = y]
      BY <1>5, <2>3 DEF Inserted
    <3>2. /\ y \in Request /\ y.status = "pending" /\ y.image = img
          /\ y.expires = request[s].expires
      BY <1>5, InsertedIs
    <3>3. img => \A t \in Applies : ~request[t].image
      BY <2>3 DEF Conflict
    <3> HIDE DEF y
    <3>4. request' \in [Applies -> Request] /\ request'[s] = y
          /\ \A t \in Applies \ {s} : request'[t] = request[t]
      BY <1>5, <3>1, <3>2
    <3> QED
      BY <3>2, <3>3, <3>4
  <2> QED
    BY <2>1, <2>2, <2>3
<1>7. /\ members' = members /\ carries' = carries
      /\ UNCHANGED <<now, upload, ledger, consents, carries, target, ghosts>>
  BY <1>2
<1>8. ASSUME NEW t \in Applies PROVE ApplyOK(t)'
  <2>1. ApplyOK(t)
    BY DEF SignupInv
  <2>2. CASE t = s
    BY <1>1, <1>4, <1>6, <1>7, <2>1, <2>2 DEF ApplyOK
  <2>3. CASE t # s
    BY <1>4, <1>6, <1>7, <2>1, <2>3 DEF ApplyOK
  <2> QED
    BY <2>2, <2>3
<1>9. OneRow' /\ members' \subseteq Submissions
  BY <1>7 DEF SignupInv, OneRow, TypeOK
<1>10. OneImage'
  BY <1>6 DEF SignupInv, OneImage
<1>11. \A t \in Applies :
         /\ request[t].image => request'[t].image
         /\ request[t].status = "rejected" => request'[t].status = "rejected"
         /\ at[t] \notin {"start", "find"} =>
              request'[t].expires = request[t].expires /\ at'[t] \notin {"start", "find"}
         /\ t \in carries /\ (at'[t] = "insert" \/ request'[t].image) =>
              at[t] = "insert" \/ request[t].image
  <2>1. request[s].status = "none" /\ ~request[s].image
    BY <1>1, <1>5 DEF ApplyOK
  <2> QED
    BY <1>1, <1>4, <1>6, <2>1
<1>12. \A d \in Directs : d \in members' <=> d \in members
  BY <1>7
<1> QED
  BY <1>1, <1>2, <1>3, <1>6, <1>7, <1>8, <1>9, <1>10, <1>11, <1>12, RequestStep

(* Pending requests are decided, and an approved one gets its member.      *)
LEMMA DecideStep ==
  ASSUME SignupInv, NEW x \in Admins \cup Crons, NEW step \in Steps, Goto(x, step),
         UNCHANGED <<now, upload, ledger, consents, carries, target, ghosts>>,
         UNCHANGED faults \/ Fault,
         request' \in [Applies -> Request], members' \subseteq Submissions, OneRow',
         \A d \in Directs : d \in members' <=> d \in members,
         \A t \in Applies :
           /\ request'[t].image = request[t].image /\ request'[t].expires = request[t].expires
           /\ \/ /\ request'[t].status = request[t].status
                 /\ t \in members' <=> t \in members
              \/ /\ Pending(t)
                 /\ \/ request'[t].status = "rejected" /\ (t \in members' <=> t \in members)
                    \/ request'[t].status = "approved" /\ t \in members',
         x \in Admins => AdminOK(x)',
         x \in Crons => CronOK(x)'
  PROVE  SignupInv'
<1>1. x \in Actors /\ x \notin Applies /\ x \notin Directs
  BY KindsApart
<1>2. at'[x] = step /\ \A t \in Applies : at'[t] = at[t]
  BY <1>1, GotoIs, KindsApart DEF Moves
<1>3. ASSUME NEW t \in Applies PROVE ApplyOK(t)'
  <2>1. ApplyOK(t) /\ at'[t] = at[t] /\ carries' = carries
    BY <1>2 DEF SignupInv
  <2>2. CASE request'[t].status = request[t].status /\ (t \in members' <=> t \in members)
    BY <2>1, <2>2 DEF ApplyOK
  <2>3. CASE /\ Pending(t)
             /\ \/ request'[t].status = "rejected" /\ (t \in members' <=> t \in members)
                \/ request'[t].status = "approved" /\ t \in members'
    BY <2>1, <2>3 DEF ApplyOK, Pending
  <2> QED
    BY <2>2, <2>3
<1>4. OneImage'
  BY DEF SignupInv, OneImage
<1>5. \A t \in Applies :
        /\ request[t].image => request'[t].image
        /\ request[t].status = "rejected" => request'[t].status = "rejected"
        /\ at[t] \notin {"start", "find"} =>
             request'[t].expires = request[t].expires /\ at'[t] \notin {"start", "find"}
        /\ t \in carries /\ (at'[t] = "insert" \/ request'[t].image) =>
             at[t] = "insert" \/ request[t].image
  BY <1>2 DEF Pending
<1> QED
  BY <1>1, <1>3, <1>4, <1>5, RequestStep

LEMMA DecidedIs ==
  ASSUME SignupInv, NEW t \in Applies, NEW status \in {"approved", "rejected"}, Decided(t, status)
  PROVE  /\ request' \in [Applies -> Request] /\ request'[t].status = status
         /\ \A s \in Applies : /\ request'[s].image = request[s].image
                               /\ request'[s].expires = request[s].expires
                               /\ s # t => request'[s].status = request[s].status
  BY DEF SignupInv, TypeOK, Request, Decided

LEMMA RequestsSame ==
  ASSUME SignupInv, request' = request
  PROVE  /\ request' \in [Applies -> Request]
         /\ \A s \in Applies : /\ request'[s].image = request[s].image
                               /\ request'[s].expires = request[s].expires
                               /\ request'[s].status = request[s].status
  BY DEF SignupInv, TypeOK, Request

LEMMA ApproveRequestStep ==
  ASSUME SignupInv, NEW p \in Admins, ApproveRequest(p)
  PROVE  SignupInv'
<1> DEFINE t == target[p]
<1>1. /\ at[p] = "approve" /\ Goto(p, "end") /\ (UNCHANGED faults \/ Fault)
      /\ UNCHANGED <<now, upload, ledger, consents, carries, target, ghosts>>
      /\ \/ Approves(t) /\ members' = members \cup {t} /\ Decided(t, "approved")
         \/ UNCHANGED <<request, members>>
  BY DEF ApproveRequest
<1>2. t \in Applies /\ p \in Actors /\ "end" \in Steps
  BY <1>1, KindsApart DEF SignupInv, AdminOK, Steps
<1>3. AdminOK(p)' /\ p \notin Crons
  BY <1>1, <1>2, GotoIs, KindsApart DEF AdminOK
<1>4. CASE UNCHANGED <<request, members>>
  <2>1. members' \subseteq Submissions /\ OneRow' /\ \A s \in Submissions : s \in members' <=> s \in members
    BY <1>4 DEF SignupInv, OneRow, TypeOK
  <2>2. \A s \in Applies : s \in Submissions
    BY KindsApart
  <2>3. \A d \in Directs : d \in members' <=> d \in members
    BY <1>4
  <2> QED
    BY <1>1, <1>2, <1>3, <1>4, <2>1, <2>2, <2>3, RequestsSame, DecideStep
<1>5. CASE Approves(t) /\ members' = members \cup {t} /\ Decided(t, "approved")
  <2>1. Pending(t) /\ members = {} /\ members' = {t}
    BY <1>5 DEF Approves, Approvable, MemberFree
  <2>2. /\ members' \subseteq Submissions /\ OneRow'
        /\ \A d \in Directs : d \in members' <=> d \in members
        /\ \A s \in Applies : s # t => (s \in members' <=> s \in members)
    BY <1>2, <2>1, KindsApart DEF OneRow
  <2>3. /\ request' \in [Applies -> Request] /\ request'[t].status = "approved"
        /\ \A s \in Applies : /\ request'[s].image = request[s].image
                              /\ request'[s].expires = request[s].expires
                              /\ s # t => request'[s].status = request[s].status
    BY <1>2, <1>5, DecidedIs
  <2> QED
    BY <1>1, <1>2, <1>3, <2>1, <2>2, <2>3, DecideStep
<1> QED
  BY <1>1, <1>4, <1>5

LEMMA RejectRequestStep ==
  ASSUME SignupInv, NEW p \in Admins, RejectRequest(p)
  PROVE  SignupInv'
<1> DEFINE t == target[p]
<1>1. PICK step \in {"discard", "end"} :
        /\ Goto(p, step) /\ at[p] \in {"reject", "reject_blind"}
        /\ \/ Pending(t) /\ Decided(t, "rejected")
           \/ UNCHANGED request /\ step = "end"
        /\ step = "discard" => at[p] = "reject"
  BY DEF RejectRequest
<1>2. /\ UNCHANGED <<now, upload, members, ledger, consents, carries, target, ghosts>>
      /\ UNCHANGED faults \/ Fault
  BY DEF RejectRequest
<1>3. AdminOK(p) /\ t \in Applies /\ p \in Actors /\ step \in Steps /\ p \notin Crons
  BY <1>1, KindsApart DEF SignupInv, AdminOK, Steps
<1>4. at'[p] = step /\ target' = target
  BY <1>1, <1>2, <1>3, GotoIs
<1>5. /\ members' \subseteq Submissions /\ OneRow' /\ members' = members
      /\ \A d \in Directs : d \in members' <=> d \in members
      /\ UNCHANGED <<now, upload, ledger, consents, carries, target, ghosts>>
  BY <1>2 DEF SignupInv, OneRow, TypeOK
<1>6. CASE UNCHANGED request /\ step = "end"
  <2>1. AdminOK(p)'
    BY <1>4, <1>6 DEF AdminOK
  <2> QED
    BY <1>1, <1>2, <1>3, <1>5, <1>6, <2>1, RequestsSame, DecideStep
<1>7. CASE Pending(t) /\ Decided(t, "rejected")
  <2>1. /\ request' \in [Applies -> Request] /\ request'[t].status = "rejected"
        /\ \A s \in Applies : /\ request'[s].image = request[s].image
                              /\ request'[s].expires = request[s].expires
                              /\ s # t => request'[s].status = request[s].status
    BY <1>3, <1>7, DecidedIs
  <2>2. AdminOK(p)'
    BY <1>1, <1>3, <1>4, <2>1 DEF AdminOK, Lost
  <2>3. \A s \in Applies :
          /\ request'[s].image = request[s].image /\ request'[s].expires = request[s].expires
          /\ \/ /\ request'[s].status = request[s].status
                /\ s \in members' <=> s \in members
             \/ /\ Pending(s)
                /\ \/ request'[s].status = "rejected" /\ (s \in members' <=> s \in members)
                   \/ request'[s].status = "approved" /\ s \in members'
    BY <1>5, <1>7, <2>1
  <2> QED
    BY <1>1, <1>2, <1>3, <1>5, <2>1, <2>2, <2>3, DecideStep
<1> QED
  BY <1>1, <1>6, <1>7

Refused(x) == [x EXCEPT !.status = "rejected"]
LEMMA RefusedIs ==
  ASSUME NEW x \in Request
  PROVE  /\ Refused(x) \in Request /\ Refused(x).status = "rejected"
         /\ Refused(x).image = x.image /\ Refused(x).expires = x.expires
  BY DEF Request, Refused

LEMMA ExpireRequestsStep ==
  ASSUME SignupInv, NEW k \in Crons, ExpireRequests(k)
  PROVE  SignupInv'
<1>1. PICK step \in {"discard", "sweep", "start"} :
        /\ Goto(k, step)
        /\ step = "discard" => \E s \in Timeouts : request[s].image
        /\ \/ /\ request' = [s \in Applies |-> IF s \in Timeouts THEN Refused(request[s])
                                               ELSE request[s]]
           \/ request' = request /\ step # "discard"
  BY DEF ExpireRequests, Refused
<1>2. /\ UNCHANGED <<now, upload, members, ledger, consents, carries, target, ghosts>>
      /\ UNCHANGED faults \/ Fault
  BY DEF ExpireRequests
<1>3. k \in Actors /\ step \in Steps /\ k \notin Admins
  BY KindsApart DEF Steps
<1>4. at'[k] = step
  BY <1>1, <1>3, GotoIs
<1>5. /\ members' \subseteq Submissions /\ OneRow' /\ members' = members
      /\ \A d \in Directs : d \in members' <=> d \in members
      /\ UNCHANGED <<now, upload, ledger, consents, carries, target, ghosts>>
  BY <1>2 DEF SignupInv, OneRow, TypeOK
<1>6. \A s \in Applies : request[s] \in Request
  BY DEF SignupInv, TypeOK, Request
<1>7. /\ request' \in [Applies -> Request]
      /\ \A s \in Applies : /\ request'[s].image = request[s].image
                            /\ request'[s].expires = request[s].expires
                            /\ request'[s].status = request[s].status \/ (Pending(s) /\ request'[s].status = "rejected")
  <2>1. CASE request' = [s \in Applies |-> IF s \in Timeouts THEN Refused(request[s])
                                           ELSE request[s]]
    <3>1. ASSUME NEW s \in Applies
          PROVE  /\ request'[s] \in Request /\ request'[s].image = request[s].image
                 /\ request'[s].expires = request[s].expires
                 /\ request'[s].status = request[s].status \/ (Pending(s) /\ request'[s].status = "rejected")
      <4>1. s \in Timeouts => Pending(s)
        BY DEF Timeouts
      <4> QED
        BY <1>6, <2>1, <4>1, RefusedIs
    <3> QED
      BY <2>1, <3>1
  <2>2. CASE request' = request
    BY <2>2, RequestsSame
  <2> QED
    BY <1>1, <2>1, <2>2
<1>8. CronOK(k)'
  <2>1. ASSUME step = "discard" PROVE Lost'
    <3>1. PICK s \in Timeouts : request[s].image
      BY <1>1, <2>1
    <3>2. s \in Applies /\ request'[s] = Refused(request[s])
      BY <1>1, <2>1, <3>1 DEF Timeouts
    <3> QED
      BY <1>6, <3>1, <3>2, RefusedIs DEF Lost
  <2> QED
    BY <1>4, <2>1 DEF CronOK
<1> QED
  BY <1>1, <1>2, <1>3, <1>5, <1>7, <1>8, DecideStep

------------------------------------------------------------------------------
(* Steps that write a directly registered member and its rows.             *)
LEMMA RegisterStep ==
  ASSUME SignupInv, NEW d \in Directs, NEW step \in Steps, Goto(d, step),
         UNCHANGED <<now, upload, request, carries, target>>, UNCHANGED faults \/ Fault,
         members' \subseteq Submissions, OneRow',
         ledger' \subseteq Directs, consents' \subseteq Directs,
         told' \subseteq Directs, abandoned' \subseteq Directs,
         \A e \in Submissions \ {d} :
           /\ (e \in members' <=> e \in members) /\ (e \in ledger' <=> e \in ledger)
           /\ (e \in consents' <=> e \in consents) /\ (e \in told' <=> e \in told)
           /\ (e \in abandoned' <=> e \in abandoned),
         DirectOK(d)'
  PROVE  SignupInv'
<1>1. d \in Actors /\ d \in Submissions /\ d \notin Applies /\ d \notin Admins /\ d \notin Crons
  BY KindsApart
<1>2. at' \in [Actors -> Steps] /\ at'[d] = step /\ Moves(d)
  BY <1>1, GotoIs
<1>3. UNCHANGED <<now, state, asset, discarded, culprits, until, request, carries, target>>
  BY DEF upload, cell
<1>4. TypeOK'
  <2>1. TypeOK /\ faults' \in 0..MaxFaults
    BY FaultCounts DEF SignupInv
  <2> QED
    BY <1>2, <1>3, <2>1 DEF TypeOK, Steps
<1>5. OneKind' /\ OneImage'
  BY <1>3 DEF SignupInv, OneKind, OneImage
<1>6. RetainedFor'
  BY <1>1, <1>2, <1>3, RetainedKept
<1>7. ASSUME NEW s \in Applies PROVE ApplyOK(s)'
  <2>1. ApplyOK(s) /\ at'[s] = at[s] /\ (s \in members' <=> s \in members)
    BY <1>1, <1>2, KindsApart DEF SignupInv, Moves
  <2> QED
    BY <1>3, <2>1 DEF ApplyOK
<1>8. ASSUME NEW e \in Directs \ {d} PROVE DirectOK(e)'
  <2>1. /\ DirectOK(e) /\ at'[e] = at[e] /\ (e \in members' <=> e \in members)
        /\ (e \in ledger' <=> e \in ledger) /\ (e \in consents' <=> e \in consents)
        /\ (e \in told' <=> e \in told) /\ (e \in abandoned' <=> e \in abandoned)
    BY <1>2, KindsApart DEF SignupInv, Moves
  <2> QED
    BY <1>3, <2>1 DEF DirectOK, HasImage
<1>9. (\A p \in Admins : AdminOK(p)') /\ (\A k \in Crons : CronOK(k)')
  BY <1>1, <1>2, <1>3, KindsApart DEF SignupInv, AdminOK, CronOK, Lost, Moves
<1> QED
  BY <1>4, <1>5, <1>6, <1>7, <1>8, <1>9 DEF SignupInv

LEMMA RowsTyped ==
  SignupInv => /\ members \subseteq Submissions /\ ledger \subseteq Directs
               /\ consents \subseteq Directs /\ told \subseteq Directs /\ abandoned \subseteq Directs
  BY DEF SignupInv, TypeOK

LEMMA InsertMemberStep ==
  ASSUME SignupInv, NEW d \in Directs, InsertMember(d)
  PROVE  SignupInv'
<1>1. /\ at[d] = "insert" /\ (UNCHANGED faults \/ Fault)
      /\ UNCHANGED <<now, upload, request, ledger, consents, carries, target, told>>
  BY DEF InsertMember
<1>2. PICK step \in {"attach", "record", "end"} :
        /\ Goto(d, step)
        /\ step = "attach" => d \in carries
        /\ step = "record" => d \notin carries
        /\ \/ members = {} /\ members' = {d} /\ step # "end" /\ abandoned' = abandoned
           \/ members' = members /\ step = "end" /\ abandoned' = abandoned
           \/ members = {} /\ members' = {d} /\ step = "end" /\ abandoned' = abandoned \cup {d}
  BY DEF InsertMember, MemberFree, Carried
<1>3. d \in Actors /\ d \in Submissions /\ step \in Steps
  BY KindsApart DEF Steps
<1>4. at'[d] = step
  BY <1>2, <1>3, GotoIs
<1>5. DirectOK(d) /\ d \notin members /\ d \notin told
  BY <1>1 DEF SignupInv, DirectOK
<1>6. OneRow'
  BY <1>2 DEF SignupInv, OneRow
<1>7. DirectOK(d)'
  BY <1>1, <1>2, <1>4, <1>5 DEF DirectOK
<1> QED
  BY <1>1, <1>2, <1>3, <1>6, <1>7, RowsTyped, RegisterStep

LEMMA RecordMemberStep ==
  ASSUME SignupInv, NEW d \in Directs, RecordMember(d)
  PROVE  SignupInv'
<1>1. /\ at[d] = "record" /\ (UNCHANGED faults \/ Fault)
      /\ UNCHANGED <<now, upload, request, members, carries, target, abandoned>>
      /\ ledger' \in {ledger, ledger \cup ({d} \cap carries)}
      /\ consents' \in {consents, consents \cup {d}}
  BY DEF RecordMember
<1>2. PICK step \in {"end", "undo"} :
        /\ Goto(d, step)
        /\ step = "end" => /\ told' = told \cup {d} /\ consents' = consents \cup {d}
                           /\ ledger' = ledger \cup ({d} \cap carries)
        /\ step = "undo" => told' = told
  BY DEF RecordMember
<1>3. d \in Actors /\ d \in Submissions /\ step \in Steps
  BY KindsApart DEF Steps
<1>4. at'[d] = step
  BY <1>2, <1>3, GotoIs
<1>5. DirectOK(d) /\ d \in members /\ d \notin told
  BY <1>1 DEF SignupInv, DirectOK
<1>6. OneRow' /\ members' \subseteq Submissions
  BY <1>1, RowsTyped DEF SignupInv, OneRow
<1>7. DirectOK(d)'
  <2>1. d \in carries => HasImage(d)'
    BY <1>1, <1>5 DEF DirectOK, HasImage, upload, cell
  <2> QED
    BY <1>1, <1>2, <1>4, <1>5, <2>1 DEF DirectOK
<1>8. /\ ledger' \subseteq Directs /\ consents' \subseteq Directs
      /\ told' \subseteq Directs /\ abandoned' \subseteq Directs
  BY <1>1, <1>2, RowsTyped
<1>9. \A e \in Submissions \ {d} :
        /\ (e \in members' <=> e \in members) /\ (e \in ledger' <=> e \in ledger)
        /\ (e \in consents' <=> e \in consents) /\ (e \in told' <=> e \in told)
        /\ (e \in abandoned' <=> e \in abandoned)
  BY <1>1, <1>2
<1> QED
  BY <1>1, <1>2, <1>3, <1>6, <1>7, <1>8, <1>9, RegisterStep

LEMMA RollbackMemberStep ==
  ASSUME SignupInv, NEW d \in Directs, RollbackMember(d)
  PROVE  SignupInv'
<1>1. /\ at[d] = "rollback" /\ Goto(d, "end") /\ (UNCHANGED faults \/ Fault)
      /\ UNCHANGED <<now, upload, request, carries, target, told>>
      /\ \/ /\ members' = members \ {d} /\ ledger' = ledger \ {d}
            /\ consents' = consents \ {d} /\ abandoned' = abandoned
         \/ abandoned' = abandoned \cup {d} /\ UNCHANGED <<members, ledger, consents>>
  BY DEF RollbackMember
<1>2. d \in Actors /\ d \in Submissions /\ "end" \in Steps
  BY KindsApart DEF Steps
<1>3. at'[d] = "end"
  BY <1>1, <1>2, GotoIs
<1>4. DirectOK(d) /\ d \notin told
  BY <1>1 DEF SignupInv, DirectOK
<1>5. OneRow'
  BY <1>1 DEF SignupInv, OneRow
<1>6. DirectOK(d)'
  BY <1>1, <1>3, <1>4 DEF DirectOK
<1> QED
  BY <1>1, <1>2, <1>5, <1>6, RowsTyped, RegisterStep

------------------------------------------------------------------------------
LEMMA SignupStep == SignupInv /\ [Next]_vars => SignupInv'
<1> SUFFICES ASSUME SignupInv, [Next]_vars PROVE SignupInv'
  OBVIOUS
<1>1. ASSUME NEW s \in Applies, ApplyStep(s) \/ DiscardUpload(s) PROVE SignupInv'
  BY <1>1, KindsApart, BeginSubmitStep, FindPendingStep, RetainUploadStep, KeepUploadStep,
     InsertRequestStep, DiscardUploadStep DEF ApplyStep
<1>2. ASSUME NEW d \in Directs, DirectStep(d) \/ DiscardUpload(d) PROVE SignupInv'
  BY <1>2, KindsApart, BeginSubmitStep, InsertMemberStep, AttachImageStep, RecordMemberStep,
     UndoUploadStep, RollbackMemberStep, DiscardUploadStep DEF DirectStep
<1>3. ASSUME NEW p \in Admins, AdminStep(p) \/ DiscardUpload(p) PROVE SignupInv'
  BY <1>3, KindsApart, OpensStep, AttachRequestedStep, ApproveRequestStep, RejectRequestStep,
     DiscardUploadStep DEF AdminStep
<1>4. ASSUME NEW k \in Crons, CronStep(k) PROVE SignupInv'
  BY <1>4, KindsApart, ExpireRequestsStep, DiscardUploadStep, SweepStep DEF CronStep
<1>5. ASSUME NEW x \in Actors, Crash(x) PROVE SignupInv'
  BY <1>5, CrashStep
<1>6. ASSUME Tick \/ UNCHANGED vars PROVE SignupInv'
  <2>1. /\ now' \in 0..MaxTime
        /\ UNCHANGED <<faults, upload, rows, carries, target, at, ghosts>>
    BY <1>6, LivesAssumption DEF Tick, vars, SignupInv, TypeOK
  <2>2. /\ UNCHANGED <<faults, state, asset, discarded, until, culprits, request, members, ledger>>
        /\ UNCHANGED <<consents, carries, target, at, told, abandoned>>
    BY <2>1 DEF upload, cell, rows, ghosts
  <2>3. TypeOK' /\ OneKind' /\ OneRow' /\ OneImage' /\ RetainedFor'
    BY <2>1, <2>2 DEF SignupInv, TypeOK, OneKind, OneRow, OneImage, RetainedFor, Timed
  <2>4. (\A s \in Applies : ApplyOK(s)') /\ (\A d \in Directs : DirectOK(d)')
    BY <2>2 DEF SignupInv, ApplyOK, DirectOK, HasImage
  <2>5. (\A p \in Admins : AdminOK(p)') /\ (\A k \in Crons : CronOK(k)')
    BY <2>2 DEF SignupInv, AdminOK, CronOK, Lost
  <2> QED
    BY <2>3, <2>4, <2>5 DEF SignupInv
<1> QED
  BY <1>1, <1>2, <1>3, <1>4, <1>5, <1>6 DEF Next

LEMMA SignupInvariant == Spec => []SignupInv
<1> QED
  BY SignupInit, SignupStep, PTL DEF Spec

(* The rows of an account and of its upload keep their types.              *)
THEOREM TypeCorrect == Spec => []TypeOK
<1>1. SignupInv => TypeOK
  BY DEF SignupInv
<1> QED
  BY <1>1, SignupInvariant, PTL

(* An account gets one member at most, and a request is approved exactly   *)
(* when its member is there.                                               *)
THEOREM OneAccountOneMember == Spec => []OneMember
<1>1. ASSUME SignupInv PROVE OneMember
  <2>1. Cardinality(members) <= 1
    <3>1. CASE members = {}
      BY <3>1, FS_EmptySet
    <3>2. CASE members # {}
      <4>1. PICK x : members = {x}
        BY <1>1, <3>2 DEF SignupInv, OneRow
      <4>2. Cardinality({x}) = 1
        BY FS_Singleton
      <4> QED
        BY <4>1, <4>2
    <3> QED
      BY <3>1, <3>2
  <2> QED
    BY <1>1, <2>1 DEF SignupInv, OneMember, ApplyOK
<1> QED
  BY <1>1, SignupInvariant, PTL

(* A direct sign-up that ended has left a complete member or none.         *)
THEOREM SignupsAreComplete == Spec => []CompleteOrRolledBack
<1>1. ASSUME SignupInv PROVE CompleteOrRolledBack
  <2>1. told \subseteq Directs /\ \A d \in Directs : DirectOK(d)
    BY <1>1, RowsTyped DEF SignupInv
  <2> QED
    BY <2>1 DEF CompleteOrRolledBack, DirectOK
<1> QED
  BY <1>1, SignupInvariant, PTL

(* A registered member keeps the image of the form, but for another        *)
(* submission of the same form that discards it.                           *)
THEOREM MembersKeepImages == Spec => []MemberKeepsImage
<1>1. ASSUME SignupInv PROVE MemberKeepsImage
  <2>1. told \subseteq Directs /\ \A d \in Directs : DirectOK(d)
    BY <1>1, RowsTyped DEF SignupInv
  <2> QED
    BY <2>1 DEF MemberKeepsImage, DirectOK, HasImage
<1> QED
  BY <1>1, SignupInvariant, PTL

------------------------------------------------------------------------------
(* Who closes the upload of a request that can still be approved.          *)
LEMMA ClosedBy ==
  ASSUME SignupInv, Next, NEW s \in Applies, Pending(s), ~Expired(s), request[s].image,
         state # "closed", state' = "closed"
  PROVE  \/ culprits' # {} \/ faults' # faults
         \/ \E k \in Crons : at[k] = "close"
         \/ \E t \in (Applies \cap carries) \ {s} : until = request[t].expires
<1>1. /\ s \in carries /\ s \notin Directs /\ ~Lost
      /\ \A d \in Directs : d \notin carries
  <2>1. ApplyOK(s) /\ s \notin Directs
    BY KindsApart DEF SignupInv
  <2>2. ~Lost
    BY DEF SignupInv, OneImage, Lost, Pending
  <2> QED
    BY <2>1, <2>2, KindsApart DEF ApplyOK, SignupInv, OneKind
<1>2. ASSUME Fault PROVE faults' # faults
  BY <1>2 DEF Fault, SignupInv, TypeOK
<1>3. ASSUME Over PROVE \E t \in (Applies \cap carries) \ {s} : until = request[t].expires
  <2>1. PICK t \in Applies \cap carries : until = request[t].expires
    BY <1>1 DEF SignupInv, RetainedFor, Timed
  <2>2. now \in Nat /\ request[s].expires \in Nat /\ until \in Nat
    BY DEF SignupInv, TypeOK
  <2>3. t # s
    BY <1>3, <2>1, <2>2 DEF Over, Expired
  <2> QED
    BY <2>1, <2>3
<1>4. ASSUME NEW x \in Actors, DiscardUpload(x) PROVE culprits' # {}
  <2>1. at[x] = "discard" /\ Discard(x, IF x \in Crons THEN "sweep" ELSE "end")
    BY <1>4 DEF DiscardUpload
  <2>2. x \in Submissions
    BY <1>1, <2>1 DEF SignupInv, AdminOK, CronOK, Actors
  <2> QED
    BY <2>1, <2>2 DEF Discard
<1>5. ASSUME NEW a \in Applies, ApplyStep(a) PROVE FALSE
  BY <1>5 DEF ApplyStep, BeginSubmit, FindPending, RetainUpload, KeepUpload, InsertRequest,
              upload, cell
<1>6. ASSUME NEW d \in Directs, DirectStep(d) PROVE FALSE
  <2>1. DirectOK(d) /\ d \notin carries
    BY <1>1 DEF SignupInv
  <2>2. ~AttachImage(d)
    BY <2>1 DEF AttachImage, DirectOK
  <2> QED
    BY <1>6, <2>1, <2>2 DEF DirectStep, BeginSubmit, InsertMember, RecordMember, UndoUpload,
                            RollbackMember, upload, cell
<1>7. ASSUME NEW p \in Admins, AdminStep(p) PROVE Over \/ Fault
  <2>1. CASE AttachRequested(p)
    <3>1. /\ at[p] = "attach" /\ Attach(p, target[p], "approve", "end") /\ culprits' = culprits
      BY <2>1 DEF AttachRequested
    <3>2. target[p] \in Submissions
      BY <3>1, KindsApart DEF SignupInv, AdminOK
    <3> QED
      BY <3>1, <3>2, AttachIs
  <2>2. CASE ~AttachRequested(p)
    BY <1>7, <2>2 DEF AdminStep, BeginApprove, BeginReject, ApproveRequest, RejectRequest,
                      upload, cell
  <2> QED
    BY <2>1, <2>2
<1>8. ASSUME NEW k \in Crons, CronStep(k), ~DiscardUpload(k) PROVE at[k] = "close"
  BY <1>8 DEF CronStep, ExpireRequests, Sweep, upload, cell
<1>9. ~Tick /\ \A x \in Actors : ~Crash(x)
  BY DEF Tick, Crash, upload, cell
<1>10. CASE \E x \in Actors : DiscardUpload(x)
  BY <1>4, <1>10
<1>11. CASE ~\E x \in Actors : DiscardUpload(x)
  BY <1>2, <1>3, <1>5, <1>6, <1>7, <1>8, <1>9, <1>11, KindsApart DEF Next
<1> QED
  BY <1>10, <1>11

(* A request that can still be approved loses its image only to those who  *)
(* may take it, never to the time given for the sign-up session.           *)
THEOREM RequestsKeepImages == Spec => RequestKeepsImage
<1>1. ASSUME SignupInv, [Next]_vars
      PROVE  [\A s \in Applies :
                Pending(s) /\ ~Expired(s) /\ request[s].image /\ state # "closed" /\ state' = "closed"
                  => \/ culprits' # {} \/ faults' # faults
                     \/ \E k \in Crons : at[k] = "close"
                     \/ \E t \in (Applies \cap carries) \ {s} : until = request[t].expires
                     \/ request'[s].status # "pending"]_vars
  BY <1>1, ClosedBy
<1> QED
  BY <1>1, SignupInvariant, PTL DEF Spec, RequestKeepsImage
==================================================================================
