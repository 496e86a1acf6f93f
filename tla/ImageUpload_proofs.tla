-------------------------- MODULE ImageUpload_proofs --------------------------
(***************************************************************************)
(* For any number of calls, assets, ticks and faults: the types hold, one  *)
(* upload is never linked to, or stored as, two assets, what is ready or   *)
(* attached stays so, and the session implements UploadPromise.            *)
(***************************************************************************)
EXTENDS ImageUploadProps, TLAPS

Places == {"idle", "done", "expire", "drop", "expire_signed", "claim", "download",
           "upload", "save", "drop_source", "undo", "reread", "stage", "place",
           "link", "confirm", "tidy", "fail", "keep", "remove", "close", "pend"}

------------------------------------------------------------------------------
(* Moving a call on keeps the types of the control state.                  *)
LEMMA GotoType ==
  ASSUME TypeOK, NEW c \in Calls, NEW p \in Places, Goto(c, p)
  PROVE  /\ pc' \in [Calls -> Places] /\ seen' \in [Calls -> Row]
         /\ pc' = [pc EXCEPT ![c] = p]
<1>1. Signed \in Row
  BY LivesAssumption DEF Signed, Row, Status
<1> QED
  BY <1>1 DEF TypeOK, Goto, Places

LEMMA ToType ==
  ASSUME TypeOK, NEW s \in Status
  PROVE  /\ To(s) \in Row /\ To(s).status = s /\ To(s).asset = row.asset
         /\ To(s).path = row.path /\ To(s).expires = row.expires
  BY DEF TypeOK, Row, To

------------------------------------------------------------------------------
(* Every value of the model keeps its type.                                *)
LEMMA TypeInit == Init => TypeOK
<1> SUFFICES ASSUME Init PROVE TypeOK
  OBVIOUS
<1>1. row \in Row /\ seen \in [Calls -> Row]
  BY LivesAssumption DEF Init, Signed, Row, Status
<1>2. now \in 0..MaxTime /\ faults \in 0..MaxFaults
  BY LivesAssumption DEF Init
<1> QED
  BY <1>1, <1>2 DEF Init, TypeOK

LEMMA TypeStep == TypeOK /\ [Next]_vars => TypeOK'
<1> SUFFICES ASSUME TypeOK, [Next]_vars PROVE TypeOK'
  OBVIOUS
<1>1. CASE IssueUrl
  <2>1. To("failed") \in Row
    BY ToType DEF Status
  <2>2. row' \in Row
    BY <1>1, <2>1 DEF IssueUrl, Updates, TypeOK
  <2>3. faults' \in 0..MaxFaults
    BY <1>1, LivesAssumption DEF IssueUrl, Fault, TypeOK
  <2> QED
    BY <1>1, <2>2, <2>3 DEF IssueUrl, TypeOK, files, ghosts
<1>2. CASE PutSource
  BY <1>2 DEF PutSource, TypeOK, files, ghosts
<1>3. CASE Tick
  <2>1. now' \in 0..MaxTime
    BY <1>3, LivesAssumption DEF Tick, TypeOK
  <2> QED
    BY <1>3, <2>1 DEF Tick, TypeOK, files, ghosts
<1>4. ASSUME NEW c \in Calls, BeginComplete(c) PROVE TypeOK'
  <2>1. PICK p \in Places : Goto(c, p)
    BY <1>4 DEF BeginComplete, Places
  <2>2. faults' \in 0..MaxFaults
    BY <1>4, LivesAssumption DEF BeginComplete, Fault, TypeOK
  <2>3. /\ UNCHANGED <<now, url, row, wanted>>
        /\ staged' \subseteq {"source", "processed"} /\ stored' \subseteq Assets
        /\ linked' \subseteq Assets /\ swept' \in BOOLEAN /\ discarded' \in BOOLEAN
        /\ halted' \subseteq Discards
    BY <1>4 DEF BeginComplete, TypeOK, files, ghosts
  <2>4. pc' \in [Calls -> Places] /\ seen' \in [Calls -> Row]
    BY <1>4, <2>1, GotoType
  <2> QED
    BY <2>2, <2>3, <2>4 DEF TypeOK, Places
<1>5. ASSUME NEW c \in Calls, Expire(c) PROVE TypeOK'
  <2>1. To("expired") \in Row
    BY ToType DEF Status, Row, TypeOK
  <2>2. PICK p \in Places : Goto(c, p)
    BY <1>5 DEF Expire, Query, Places
  <2>3. row' \in Row
    BY <1>5, <2>1 DEF Expire, Query, Updates, TypeOK
  <2>4. faults' \in 0..MaxFaults
    BY <1>5, LivesAssumption DEF Expire, Query, Fault, TypeOK
  <2>5. /\ UNCHANGED <<now, url, staged, stored, wanted>>
        /\ linked' \subseteq Assets /\ swept' \in BOOLEAN /\ discarded' \in BOOLEAN
        /\ halted' \subseteq Discards
    BY <1>5 DEF Expire, TypeOK, files, ghosts
  <2>6. pc' \in [Calls -> Places] /\ seen' \in [Calls -> Row]
    BY <1>5, <2>2, GotoType DEF Calls
  <2> QED
    BY <2>3, <2>4, <2>5, <2>6 DEF TypeOK, Places
<1>6. ASSUME NEW c \in Calls, ClaimSource(c) PROVE TypeOK'
  <2>1. To("processing") \in Row
    BY ToType DEF Status, Row, TypeOK
  <2>2. PICK p \in Places : Goto(c, p)
    BY <1>6 DEF ClaimSource, Query, Places
  <2>3. row' \in Row
    BY <1>6, <2>1 DEF ClaimSource, Query, Updates, TypeOK
  <2>4. faults' \in 0..MaxFaults
    BY <1>6, LivesAssumption DEF ClaimSource, Query, Fault, TypeOK
  <2>5. /\ UNCHANGED <<now, url, staged, stored, wanted>>
        /\ linked' \subseteq Assets /\ swept' \in BOOLEAN /\ discarded' \in BOOLEAN
        /\ halted' \subseteq Discards
    BY <1>6 DEF ClaimSource, TypeOK, files, ghosts
  <2>6. pc' \in [Calls -> Places] /\ seen' \in [Calls -> Row]
    BY <1>6, <2>2, GotoType DEF Calls
  <2> QED
    BY <2>3, <2>4, <2>5, <2>6 DEF TypeOK, Places
<1>7. ASSUME NEW c \in Calls, Download(c) PROVE TypeOK'
  <2>1. PICK p \in Places : Goto(c, p)
    BY <1>7 DEF Download, Places
  <2>2. faults' \in 0..MaxFaults
    BY <1>7, LivesAssumption DEF Download, Fault, TypeOK
  <2>3. /\ UNCHANGED <<now, url, row, wanted>>
        /\ staged' \subseteq {"source", "processed"} /\ stored' \subseteq Assets
        /\ linked' \subseteq Assets /\ swept' \in BOOLEAN /\ discarded' \in BOOLEAN
        /\ halted' \subseteq Discards
    BY <1>7 DEF Download, TypeOK, files, ghosts
  <2>4. pc' \in [Calls -> Places] /\ seen' \in [Calls -> Row]
    BY <1>7, <2>1, GotoType
  <2> QED
    BY <2>2, <2>3, <2>4 DEF TypeOK, Places
<1>8. ASSUME NEW c \in Calls, UploadProcessed(c) PROVE TypeOK'
  <2>1. PICK p \in Places : Goto(c, p)
    BY <1>8 DEF UploadProcessed, Places
  <2>2. faults' \in 0..MaxFaults
    BY <1>8, LivesAssumption DEF UploadProcessed, Fault, TypeOK
  <2>3. /\ UNCHANGED <<now, url, row, wanted>>
        /\ staged' \subseteq {"source", "processed"} /\ stored' \subseteq Assets
        /\ linked' \subseteq Assets /\ swept' \in BOOLEAN /\ discarded' \in BOOLEAN
        /\ halted' \subseteq Discards
    BY <1>8 DEF UploadProcessed, TypeOK, files, ghosts
  <2>4. pc' \in [Calls -> Places] /\ seen' \in [Calls -> Row]
    BY <1>8, <2>1, GotoType
  <2> QED
    BY <2>2, <2>3, <2>4 DEF TypeOK, Places
<1>9. ASSUME NEW c \in Calls, SaveReady(c) PROVE TypeOK'
  <2>1. [To("ready") EXCEPT !.path = "processed"] \in Row
    BY ToType DEF Status, Row, TypeOK
  <2>2. PICK p \in Places : Goto(c, p)
    BY <1>9 DEF SaveReady, Query, Places
  <2>3. row' \in Row
    BY <1>9, <2>1 DEF SaveReady, Query, Updates, TypeOK
  <2>4. faults' \in 0..MaxFaults
    BY <1>9, LivesAssumption DEF SaveReady, Query, Fault, TypeOK
  <2>5. /\ UNCHANGED <<now, url, staged, stored, wanted>>
        /\ linked' \subseteq Assets /\ swept' \in BOOLEAN /\ discarded' \in BOOLEAN
        /\ halted' \subseteq Discards
    BY <1>9 DEF SaveReady, TypeOK, files, ghosts
  <2>6. pc' \in [Calls -> Places] /\ seen' \in [Calls -> Row]
    BY <1>9, <2>2, GotoType DEF Calls
  <2> QED
    BY <2>3, <2>4, <2>5, <2>6 DEF TypeOK, Places
<1>10. ASSUME NEW c \in Calls, DropSource(c) PROVE TypeOK'
  <2>1. PICK p \in Places : Goto(c, p)
    BY <1>10 DEF DropSource, Places
  <2>2. faults' \in 0..MaxFaults
    BY <1>10, LivesAssumption DEF DropSource, Fault, TypeOK
  <2>3. /\ UNCHANGED <<now, url, row, wanted>>
        /\ staged' \subseteq {"source", "processed"} /\ stored' \subseteq Assets
        /\ linked' \subseteq Assets /\ swept' \in BOOLEAN /\ discarded' \in BOOLEAN
        /\ halted' \subseteq Discards
    BY <1>10 DEF DropSource, TypeOK, files, ghosts
  <2>4. pc' \in [Calls -> Places] /\ seen' \in [Calls -> Row]
    BY <1>10, <2>1, GotoType
  <2> QED
    BY <2>2, <2>3, <2>4 DEF TypeOK, Places
<1>11. ASSUME NEW c \in Calls, MarkFailed(c) PROVE TypeOK'
  <2>1. To("failed") \in Row
    BY ToType DEF Status, Row, TypeOK
  <2>2. PICK p \in Places : Goto(c, p)
    BY <1>11 DEF MarkFailed, Query, Places
  <2>3. row' \in Row
    BY <1>11, <2>1 DEF MarkFailed, Query, Updates, TypeOK
  <2>4. faults' \in 0..MaxFaults
    BY <1>11, LivesAssumption DEF MarkFailed, Query, Fault, TypeOK
  <2>5. /\ UNCHANGED <<now, url, staged, stored, wanted>>
        /\ linked' \subseteq Assets /\ swept' \in BOOLEAN /\ discarded' \in BOOLEAN
        /\ halted' \subseteq Discards
    BY <1>11 DEF MarkFailed, TypeOK, files, ghosts
  <2>6. pc' \in [Calls -> Places] /\ seen' \in [Calls -> Row]
    BY <1>11, <2>2, GotoType DEF Calls
  <2> QED
    BY <2>3, <2>4, <2>5, <2>6 DEF TypeOK, Places
<1>12. ASSUME NEW a \in Attaches, BeginAttach(a) PROVE TypeOK'
  <2>1. PICK p \in Places : Goto(a, p)
    BY <1>12 DEF BeginAttach, Places
  <2>2. faults' \in 0..MaxFaults
    BY <1>12, LivesAssumption DEF BeginAttach, Told, Fault, TypeOK
  <2>3. /\ UNCHANGED <<now, url, row, wanted>>
        /\ staged' \subseteq {"source", "processed"} /\ stored' \subseteq Assets
        /\ linked' \subseteq Assets /\ swept' \in BOOLEAN /\ discarded' \in BOOLEAN
        /\ halted' \subseteq Discards
    BY <1>12 DEF BeginAttach, Told, TypeOK, files, ghosts
  <2>4. pc' \in [Calls -> Places] /\ seen' \in [Calls -> Row]
    BY <1>12, <2>1, GotoType DEF Calls
  <2> QED
    BY <2>2, <2>3, <2>4 DEF TypeOK, Places
<1>13. ASSUME NEW a \in Attaches, ClaimReady(a) PROVE TypeOK'
  <2>1. [To("attaching") EXCEPT !.asset = wanted[a]] \in Row
    BY ToType DEF Status, Row, TypeOK
  <2>2. PICK p \in Places : Goto(a, p)
    BY <1>13 DEF ClaimReady, Query, Places
  <2>3. row' \in Row
    BY <1>13, <2>1 DEF ClaimReady, Query, Updates, TypeOK
  <2>4. faults' \in 0..MaxFaults
    BY <1>13, LivesAssumption DEF ClaimReady, Query, Fault, TypeOK
  <2>5. /\ UNCHANGED <<now, url, staged, stored, wanted>>
        /\ linked' \subseteq Assets /\ swept' \in BOOLEAN /\ discarded' \in BOOLEAN
        /\ halted' \subseteq Discards
    BY <1>13 DEF ClaimReady, TypeOK, files, ghosts
  <2>6. pc' \in [Calls -> Places] /\ seen' \in [Calls -> Row]
    BY <1>13, <2>2, GotoType DEF Calls
  <2> QED
    BY <2>3, <2>4, <2>5, <2>6 DEF TypeOK, Places
<1>14. ASSUME NEW a \in Attaches, Reread(a) PROVE TypeOK'
  <2>1. PICK p \in Places : Goto(a, p)
    BY <1>14 DEF Reread, Places
  <2>2. faults' \in 0..MaxFaults
    BY <1>14, LivesAssumption DEF Reread, Fault, TypeOK
  <2>3. /\ UNCHANGED <<now, url, row, wanted>>
        /\ staged' \subseteq {"source", "processed"} /\ stored' \subseteq Assets
        /\ linked' \subseteq Assets /\ swept' \in BOOLEAN /\ discarded' \in BOOLEAN
        /\ halted' \subseteq Discards
    BY <1>14 DEF Reread, TypeOK, files, ghosts
  <2>4. pc' \in [Calls -> Places] /\ seen' \in [Calls -> Row]
    BY <1>14, <2>1, GotoType DEF Calls
  <2> QED
    BY <2>2, <2>3, <2>4 DEF TypeOK, Places
<1>15. ASSUME NEW a \in Attaches, ReadStaged(a) \/ Confirm(a) PROVE TypeOK'
  <2>1. PICK p \in Places : Goto(a, p)
    BY <1>15 DEF ReadStaged, Confirm, Places
  <2>2. faults' \in 0..MaxFaults
    BY <1>15, LivesAssumption DEF ReadStaged, Confirm, Fault, TypeOK
  <2>3. /\ UNCHANGED <<now, url, row, wanted>>
        /\ staged' \subseteq {"source", "processed"} /\ stored' \subseteq Assets
        /\ linked' \subseteq Assets /\ swept' \in BOOLEAN /\ discarded' \in BOOLEAN
        /\ halted' \subseteq Discards
    BY <1>15 DEF ReadStaged, Confirm, TypeOK, files, ghosts
  <2>4. pc' \in [Calls -> Places] /\ seen' \in [Calls -> Row]
    BY <1>15, <2>1, GotoType DEF Calls
  <2> QED
    BY <2>2, <2>3, <2>4 DEF TypeOK, Places
<1>16. ASSUME NEW a \in Attaches, PlaceAsset(a) PROVE TypeOK'
  <2>1. PICK p \in Places : Goto(a, p)
    BY <1>16 DEF PlaceAsset, Places
  <2>2. faults' \in 0..MaxFaults
    BY <1>16, LivesAssumption DEF PlaceAsset, Fault, TypeOK
  <2>3. /\ UNCHANGED <<now, url, row, wanted>>
        /\ staged' \subseteq {"source", "processed"} /\ stored' \subseteq Assets
        /\ linked' \subseteq Assets /\ swept' \in BOOLEAN /\ discarded' \in BOOLEAN
        /\ halted' \subseteq Discards
    BY <1>16 DEF PlaceAsset, TypeOK, files, ghosts
  <2>4. pc' \in [Calls -> Places] /\ seen' \in [Calls -> Row]
    BY <1>16, <2>1, GotoType DEF Calls
  <2> QED
    BY <2>2, <2>3, <2>4 DEF TypeOK, Places
<1>17. ASSUME NEW a \in Attaches, Link(a) PROVE TypeOK'
  <2>1. To("attached") \in Row
    BY ToType DEF Status, Row, TypeOK
  <2>2. PICK p \in Places : Goto(a, p)
    BY <1>17 DEF Link, Query, Places
  <2>3. row' \in Row
    BY <1>17, <2>1 DEF Link, Query, Updates, TypeOK
  <2>4. faults' \in 0..MaxFaults
    BY <1>17, LivesAssumption DEF Link, Query, Fault, TypeOK
  <2>5. /\ UNCHANGED <<now, url, staged, stored, wanted>>
        /\ linked' \subseteq Assets /\ swept' \in BOOLEAN /\ discarded' \in BOOLEAN
        /\ halted' \subseteq Discards
    BY <1>17 DEF Link, TypeOK, files, ghosts
  <2>6. pc' \in [Calls -> Places] /\ seen' \in [Calls -> Row]
    BY <1>17, <2>2, GotoType DEF Calls
  <2> QED
    BY <2>3, <2>4, <2>5, <2>6 DEF TypeOK, Places
<1>18. ASSUME NEW a \in Attaches, Tidy(a) PROVE TypeOK'
  <2>1. PICK p \in Places : Goto(a, p)
    BY <1>18 DEF Tidy, Places
  <2>2. faults' \in 0..MaxFaults
    BY <1>18, LivesAssumption DEF Tidy, Told, Fault, TypeOK
  <2>3. /\ UNCHANGED <<now, url, row, wanted>>
        /\ staged' \subseteq {"source", "processed"} /\ stored' \subseteq Assets
        /\ linked' \subseteq Assets /\ swept' \in BOOLEAN /\ discarded' \in BOOLEAN
        /\ halted' \subseteq Discards
    BY <1>18 DEF Tidy, Told, TypeOK, files, ghosts
  <2>4. pc' \in [Calls -> Places] /\ seen' \in [Calls -> Row]
    BY <1>18, <2>1, GotoType DEF Calls
  <2> QED
    BY <2>2, <2>3, <2>4 DEF TypeOK, Places
<1>19. ASSUME NEW c \in Calls, BeginRetain(c) PROVE TypeOK'
  <2>1. [row EXCEPT !.expires = now + ApprovalLife] \in Row
    BY LivesAssumption DEF TypeOK, Row
  <2> QED
    BY <1>19, <2>1 DEF BeginRetain, TypeOK, files, ghosts
<1>20. ASSUME NEW c \in Calls, Keep(c) PROVE TypeOK'
  <2>1. [row EXCEPT !.expires = seen[c].expires] \in Row
    BY ToType DEF Status, Row, TypeOK
  <2>2. PICK p \in Places : Goto(c, p)
    BY <1>20 DEF Keep, Query, Places
  <2>3. row' \in Row
    BY <1>20, <2>1 DEF Keep, Query, Updates, TypeOK
  <2>4. faults' \in 0..MaxFaults
    BY <1>20, LivesAssumption DEF Keep, Query, Fault, TypeOK
  <2>5. /\ UNCHANGED <<now, url, staged, stored, wanted>>
        /\ linked' \subseteq Assets /\ swept' \in BOOLEAN /\ discarded' \in BOOLEAN
        /\ halted' \subseteq Discards
    BY <1>20 DEF Keep, TypeOK, files, ghosts
  <2>6. pc' \in [Calls -> Places] /\ seen' \in [Calls -> Row]
    BY <1>20, <2>2, GotoType DEF Calls
  <2> QED
    BY <2>3, <2>4, <2>5, <2>6 DEF TypeOK, Places
<1>21. ASSUME NEW c \in Calls, BeginDiscard(c) \/ BeginSweep(c) PROVE TypeOK'
  BY <1>21 DEF BeginDiscard, BeginSweep, Sees, TypeOK, files, ghosts
<1>22. ASSUME NEW c \in Calls, Remove(c) PROVE TypeOK'
  <2>1. PICK p \in Places : Goto(c, p)
    BY <1>22 DEF Remove, Places
  <2>2. faults' \in 0..MaxFaults
    BY <1>22, LivesAssumption DEF Remove, Fault, TypeOK
  <2>3. /\ UNCHANGED <<now, url, row, wanted>>
        /\ staged' \subseteq {"source", "processed"} /\ stored' \subseteq Assets
        /\ linked' \subseteq Assets /\ swept' \in BOOLEAN /\ discarded' \in BOOLEAN
        /\ halted' \subseteq Discards
    BY <1>22 DEF Remove, TypeOK, files, ghosts
  <2>4. pc' \in [Calls -> Places] /\ seen' \in [Calls -> Row]
    BY <1>22, <2>1, GotoType
  <2> QED
    BY <2>2, <2>3, <2>4 DEF TypeOK, Places
<1>23. ASSUME NEW c \in Calls, Close(c) PROVE TypeOK'
  <2>1. /\ [To("expired") EXCEPT !.expires = now] \in Row
        /\ [To("failed") EXCEPT !.expires = now] \in Row
    BY ToType DEF Status, Row, TypeOK
  <2>2. PICK p \in Places : Goto(c, p)
    BY <1>23 DEF Close, Query, Places, Rest
  <2>3. row' \in Row
    BY <1>23, <2>1 DEF Close, Query, Updates, TypeOK
  <2>4. faults' \in 0..MaxFaults
    BY <1>23, LivesAssumption DEF Close, Query, Fault, TypeOK
  <2>5. /\ UNCHANGED <<now, url, staged, stored, wanted>>
        /\ linked' \subseteq Assets /\ swept' \in BOOLEAN /\ discarded' \in BOOLEAN
        /\ halted' \subseteq Discards
    BY <1>23 DEF Close, Halts, TypeOK, files, ghosts
  <2>6. pc' \in [Calls -> Places] /\ seen' \in [Calls -> Row]
    BY <1>23, <2>2, GotoType DEF Calls
  <2> QED
    BY <2>3, <2>4, <2>5, <2>6 DEF TypeOK, Places
<1>24. ASSUME NEW c \in Calls, Crash(c) PROVE TypeOK'
  <2>1. PICK p \in Places : Goto(c, p)
    BY <1>24 DEF Crash, Rest, Places
  <2>2. faults' \in 0..MaxFaults
    BY <1>24, LivesAssumption DEF Crash, Rest, Fault, TypeOK
  <2>3. /\ UNCHANGED <<now, url, row, wanted>>
        /\ staged' \subseteq {"source", "processed"} /\ stored' \subseteq Assets
        /\ linked' \subseteq Assets /\ swept' \in BOOLEAN /\ discarded' \in BOOLEAN
        /\ halted' \subseteq Discards
    BY <1>24 DEF Crash, Halts, Rest, TypeOK, files, ghosts
  <2>4. pc' \in [Calls -> Places] /\ seen' \in [Calls -> Row]
    BY <1>24, <2>1, GotoType
  <2> QED
    BY <2>2, <2>3, <2>4 DEF TypeOK, Places
<1>25. CASE UNCHANGED vars
  BY <1>25 DEF vars, files, ghosts, TypeOK
<1> QED
  BY <1>1, <1>2, <1>3, <1>4, <1>5, <1>6, <1>7, <1>8, <1>9,
     <1>10, <1>11, <1>12, <1>13, <1>14, <1>15, <1>16, <1>17, <1>18,
     <1>19, <1>20, <1>21, <1>22, <1>23, <1>24, <1>25
  DEF Next, CompleteStep, AttachStep, SweepStep, Calls

(* The statuses, assets and places of calls are always what they claim to  *)
(* be (every update and every answer of repository.supabase.ts).           *)
THEOREM TypeCorrect == Spec => []TypeOK
  BY TypeInit, TypeStep, PTL DEF Spec

------------------------------------------------------------------------------
(* The claim on a ready session decides the asset for good: before it no    *)
(* asset is named, and whoever works on an asset works on the one named.   *)
Holding == {"stage", "place", "link", "tidy"}
Unclaimed == row.status \in {"signed", "processing", "ready"} => row.asset = None
HoldersAgree == \A a \in Attaches : pc[a] \in Holding => row.asset = wanted[a]

IInv == TypeOK /\ Unclaimed /\ HoldersAgree /\ OneAsset

(* Most steps name no asset, move no attach to work on one, and report none. *)
LEMMA Frame ==
  ASSUME IInv, row'.asset = row.asset, wanted' = wanted,
         row'.status \in {"signed", "processing", "ready"}
           => row.status \in {"signed", "processing", "ready"},
         \A a \in Attaches : pc'[a] \in Holding => pc[a] \in Holding,
         linked' = linked, stored' \subseteq stored
  PROVE  Unclaimed' /\ HoldersAgree' /\ OneAsset'
  BY DEF IInv, Unclaimed, HoldersAgree, OneAsset

Fresh == {"signed", "processing", "ready"}

(* A step that moves its call to no work on an asset, and names no new one. *)
LEMMA MoveFrame ==
  ASSUME IInv, NEW c \in Calls, NEW p \in Places \ Holding, Goto(c, p),
         row'.asset = row.asset, row'.status \in Fresh => row.status \in Fresh,
         wanted' = wanted, linked' = linked, stored' \subseteq stored
  PROVE  Unclaimed' /\ HoldersAgree' /\ OneAsset'
<1>1. \A a \in Attaches : pc'[a] \in Holding => pc[a] \in Holding
  BY DEF Goto, IInv, TypeOK, Calls
<1> QED
  BY <1>1, Frame DEF Fresh

(* An attach that goes on to work only on the asset the row names, and     *)
(* reports or stores no other.                                             *)
LEMMA AttachFrame ==
  ASSUME IInv, NEW a \in Attaches, NEW p \in Places, Goto(a, p),
         p \in Holding => row.asset = wanted[a],
         row'.asset = row.asset, row'.status \in Fresh => row.status \in Fresh,
         wanted' = wanted, linked' \subseteq linked \cup {row.asset},
         stored' \subseteq stored \cup {row.asset}
  PROVE  Unclaimed' /\ HoldersAgree' /\ OneAsset'
<1>1. pc' = [pc EXCEPT ![a] = p]
  BY DEF Goto
<1>2. HoldersAgree'
  BY <1>1 DEF HoldersAgree, IInv, TypeOK, Calls
<1>3. Unclaimed'
  BY DEF Unclaimed, IInv, Fresh
<1>4. OneAsset'
  BY DEF OneAsset, IInv
<1> QED
  BY <1>2, <1>3, <1>4

(* The claim of a ready session, whether its answer arrives or not: nobody *)
(* holds or has stored an asset yet, so the new name contradicts nobody.   *)
LEMMA ClaimFrame ==
  ASSUME IInv, NEW a \in Attaches, NEW p \in Places, Goto(a, p),
         row.status = "ready",
         row' = [To("attaching") EXCEPT !.asset = wanted[a]],
         wanted' = wanted, linked' = linked, stored' = stored
  PROVE  Unclaimed' /\ HoldersAgree' /\ OneAsset'
<1>t. TypeOK
  BY DEF IInv
<1>1. row'.status = "attaching" /\ row'.asset = wanted[a]
  BY <1>t, ToType DEF Status, Row
<1>2. row.asset = None
  BY DEF IInv, Unclaimed
<1>3. linked = {} /\ stored = {}
  BY <1>2, NoneAssumption DEF IInv, OneAsset, TypeOK
<1>4. \A b \in Attaches : pc[b] \notin Holding
  BY <1>2, NoneAssumption DEF IInv, HoldersAgree, TypeOK
<1>5. pc' = [pc EXCEPT ![a] = p]
  BY DEF Goto
<1>6. HoldersAgree'
  BY <1>1, <1>4, <1>5, <1>t DEF HoldersAgree, TypeOK, Calls
<1> QED
  BY <1>1, <1>3, <1>6 DEF Unclaimed, OneAsset

LEMMA AssetInit == Init => IInv
<1> SUFFICES ASSUME Init PROVE IInv
  OBVIOUS
<1>1. TypeOK
  BY TypeInit
<1>2. \A a \in Attaches : pc[a] \notin Holding
  BY DEF Init, Calls, Holding
<1>3. Unclaimed /\ OneAsset
  BY DEF Init, Signed, Unclaimed, OneAsset
<1> QED
  BY <1>1, <1>2, <1>3 DEF IInv, HoldersAgree

LEMMA AssetStep == IInv /\ [Next]_vars => IInv'
<1> SUFFICES ASSUME IInv, [Next]_vars PROVE Unclaimed' /\ HoldersAgree' /\ OneAsset'
  BY TypeStep DEF IInv
<1>t. TypeOK
  BY DEF IInv
<1>1. CASE IssueUrl
  BY <1>1, Frame, ToType, <1>t DEF IssueUrl, Updates, Status, files, ghosts
<1>2. CASE PutSource \/ Tick
  <2>1. UNCHANGED <<row, wanted, pc, linked, stored>>
    BY <1>2 DEF PutSource, Tick, files, ghosts
  <2> QED
    BY <2>1, Frame
<1>3. ASSUME NEW c \in Calls, BeginComplete(c)
      PROVE  Unclaimed' /\ HoldersAgree' /\ OneAsset'
  <2>1. PICK p \in Places \ Holding : Goto(c, p)
    BY <1>3 DEF BeginComplete, Places, Holding
  <2>2. row' = row /\ wanted' = wanted /\ linked' = linked /\ stored' \subseteq stored
    BY <1>3 DEF BeginComplete, files, ghosts
  <2> QED
    BY <1>3, <2>1, <2>2, MoveFrame
<1>4. ASSUME NEW c \in Calls, Expire(c)
      PROVE  Unclaimed' /\ HoldersAgree' /\ OneAsset'
  <2>1. PICK p \in Places \ Holding : Goto(c, p)
    BY <1>4 DEF Expire, Query, Places, Holding
  <2>2. row'.asset = row.asset /\ (row'.status \in Fresh => row.status \in Fresh)
    BY <1>4, <1>t DEF Expire, Query, Updates, To, Fresh, TypeOK, Row
  <2>3. wanted' = wanted /\ linked' = linked /\ stored' \subseteq stored
    BY <1>4 DEF Expire, files, ghosts
  <2> QED
    BY <1>4, <2>1, <2>2, <2>3, MoveFrame
<1>5. ASSUME NEW c \in Calls, ClaimSource(c)
      PROVE  Unclaimed' /\ HoldersAgree' /\ OneAsset'
  <2>1. PICK p \in Places \ Holding : Goto(c, p)
    BY <1>5 DEF ClaimSource, Query, Places, Holding
  <2>2. row'.asset = row.asset /\ (row'.status \in Fresh => row.status \in Fresh)
    BY <1>5, <1>t DEF ClaimSource, Query, Updates, To, Fresh, TypeOK, Row
  <2>3. wanted' = wanted /\ linked' = linked /\ stored' \subseteq stored
    BY <1>5 DEF ClaimSource, files, ghosts
  <2> QED
    BY <1>5, <2>1, <2>2, <2>3, MoveFrame
<1>6. ASSUME NEW c \in Calls, Download(c)
      PROVE  Unclaimed' /\ HoldersAgree' /\ OneAsset'
  <2>1. PICK p \in Places \ Holding : Goto(c, p)
    BY <1>6 DEF Download, Places, Holding
  <2>2. row' = row /\ wanted' = wanted /\ linked' = linked /\ stored' \subseteq stored
    BY <1>6 DEF Download, files, ghosts
  <2> QED
    BY <1>6, <2>1, <2>2, MoveFrame
<1>7. ASSUME NEW c \in Calls, UploadProcessed(c)
      PROVE  Unclaimed' /\ HoldersAgree' /\ OneAsset'
  <2>1. PICK p \in Places \ Holding : Goto(c, p)
    BY <1>7 DEF UploadProcessed, Places, Holding
  <2>2. row' = row /\ wanted' = wanted /\ linked' = linked /\ stored' \subseteq stored
    BY <1>7 DEF UploadProcessed, files, ghosts
  <2> QED
    BY <1>7, <2>1, <2>2, MoveFrame
<1>8. ASSUME NEW c \in Calls, SaveReady(c)
      PROVE  Unclaimed' /\ HoldersAgree' /\ OneAsset'
  <2>1. PICK p \in Places \ Holding : Goto(c, p)
    BY <1>8 DEF SaveReady, Query, Places, Holding
  <2>2. row'.asset = row.asset /\ (row'.status \in Fresh => row.status \in Fresh)
    BY <1>8, <1>t DEF SaveReady, Query, Updates, To, Fresh, TypeOK, Row
  <2>3. wanted' = wanted /\ linked' = linked /\ stored' \subseteq stored
    BY <1>8 DEF SaveReady, files, ghosts
  <2> QED
    BY <1>8, <2>1, <2>2, <2>3, MoveFrame
<1>9. ASSUME NEW c \in Calls, DropSource(c)
      PROVE  Unclaimed' /\ HoldersAgree' /\ OneAsset'
  <2>1. PICK p \in Places \ Holding : Goto(c, p)
    BY <1>9 DEF DropSource, Places, Holding
  <2>2. row' = row /\ wanted' = wanted /\ linked' = linked /\ stored' \subseteq stored
    BY <1>9 DEF DropSource, files, ghosts
  <2> QED
    BY <1>9, <2>1, <2>2, MoveFrame
<1>10. ASSUME NEW c \in Calls, MarkFailed(c)
      PROVE  Unclaimed' /\ HoldersAgree' /\ OneAsset'
  <2>1. PICK p \in Places \ Holding : Goto(c, p)
    BY <1>10 DEF MarkFailed, Query, Places, Holding
  <2>2. row'.asset = row.asset /\ (row'.status \in Fresh => row.status \in Fresh)
    BY <1>10, <1>t DEF MarkFailed, Query, Updates, To, Fresh, TypeOK, Row
  <2>3. wanted' = wanted /\ linked' = linked /\ stored' \subseteq stored
    BY <1>10 DEF MarkFailed, files, ghosts
  <2> QED
    BY <1>10, <2>1, <2>2, <2>3, MoveFrame
<1>11. ASSUME NEW c \in Calls, Remove(c)
      PROVE  Unclaimed' /\ HoldersAgree' /\ OneAsset'
  <2>1. PICK p \in Places \ Holding : Goto(c, p)
    BY <1>11 DEF Remove, Places, Holding
  <2>2. row' = row /\ wanted' = wanted /\ linked' = linked /\ stored' \subseteq stored
    BY <1>11 DEF Remove, files, ghosts
  <2> QED
    BY <1>11, <2>1, <2>2, MoveFrame
<1>12. ASSUME NEW c \in Calls, Crash(c)
      PROVE  Unclaimed' /\ HoldersAgree' /\ OneAsset'
  <2>1. PICK p \in Places \ Holding : Goto(c, p)
    BY <1>12 DEF Crash, Rest, Places, Holding
  <2>2. row' = row /\ wanted' = wanted /\ linked' = linked /\ stored' \subseteq stored
    BY <1>12 DEF Crash, files, ghosts
  <2> QED
    BY <1>12, <2>1, <2>2, MoveFrame
<1>13. ASSUME NEW a \in Attaches, BeginAttach(a)
      PROVE  Unclaimed' /\ HoldersAgree' /\ OneAsset'
  <2>1. PICK p \in Places : Goto(a, p) /\ (p \in Holding => row.asset = wanted[a])
    BY <1>13 DEF BeginAttach, Places, Holding, Mine, IInv, HoldersAgree
  <2>2. /\ row' = row /\ wanted' = wanted
        /\ linked' \subseteq linked \cup {row.asset}
        /\ stored' \subseteq stored \cup {row.asset}
    BY <1>13 DEF BeginAttach, Told, Mine, files, ghosts, Holding, IInv, HoldersAgree
  <2> QED
    BY <1>13, <2>1, <2>2, AttachFrame
<1>14. ASSUME NEW a \in Attaches, Reread(a)
      PROVE  Unclaimed' /\ HoldersAgree' /\ OneAsset'
  <2>1. PICK p \in Places : Goto(a, p) /\ (p \in Holding => row.asset = wanted[a])
    BY <1>14 DEF Reread, Places, Holding, Mine, IInv, HoldersAgree
  <2>2. /\ row' = row /\ wanted' = wanted
        /\ linked' \subseteq linked \cup {row.asset}
        /\ stored' \subseteq stored \cup {row.asset}
    BY <1>14 DEF Reread, Told, Mine, files, ghosts, Holding, IInv, HoldersAgree
  <2> QED
    BY <1>14, <2>1, <2>2, AttachFrame
<1>15. ASSUME NEW a \in Attaches, ReadStaged(a)
      PROVE  Unclaimed' /\ HoldersAgree' /\ OneAsset'
  <2>1. PICK p \in Places : Goto(a, p) /\ (p \in Holding => row.asset = wanted[a])
    BY <1>15 DEF ReadStaged, Places, Holding, Mine, IInv, HoldersAgree
  <2>2. /\ row' = row /\ wanted' = wanted
        /\ linked' \subseteq linked \cup {row.asset}
        /\ stored' \subseteq stored \cup {row.asset}
    BY <1>15 DEF ReadStaged, Told, Mine, files, ghosts, Holding, IInv, HoldersAgree
  <2> QED
    BY <1>15, <2>1, <2>2, AttachFrame
<1>16. ASSUME NEW a \in Attaches, Confirm(a)
      PROVE  Unclaimed' /\ HoldersAgree' /\ OneAsset'
  <2>1. PICK p \in Places : Goto(a, p) /\ (p \in Holding => row.asset = wanted[a])
    BY <1>16 DEF Confirm, Places, Holding, Mine, IInv, HoldersAgree
  <2>2. /\ row' = row /\ wanted' = wanted
        /\ linked' \subseteq linked \cup {row.asset}
        /\ stored' \subseteq stored \cup {row.asset}
    BY <1>16 DEF Confirm, Told, Mine, files, ghosts, Holding, IInv, HoldersAgree
  <2> QED
    BY <1>16, <2>1, <2>2, AttachFrame
<1>17. ASSUME NEW a \in Attaches, PlaceAsset(a)
      PROVE  Unclaimed' /\ HoldersAgree' /\ OneAsset'
  <2>1. PICK p \in Places : Goto(a, p) /\ (p \in Holding => row.asset = wanted[a])
    BY <1>17 DEF PlaceAsset, Places, Holding, Mine, IInv, HoldersAgree
  <2>2. /\ row' = row /\ wanted' = wanted
        /\ linked' \subseteq linked \cup {row.asset}
        /\ stored' \subseteq stored \cup {row.asset}
    BY <1>17 DEF PlaceAsset, Told, Mine, files, ghosts, Holding, IInv, HoldersAgree
  <2> QED
    BY <1>17, <2>1, <2>2, AttachFrame
<1>18. ASSUME NEW a \in Attaches, Tidy(a)
      PROVE  Unclaimed' /\ HoldersAgree' /\ OneAsset'
  <2>1. PICK p \in Places : Goto(a, p) /\ (p \in Holding => row.asset = wanted[a])
    BY <1>18 DEF Tidy, Places, Holding, Mine, IInv, HoldersAgree
  <2>2. /\ row' = row /\ wanted' = wanted
        /\ linked' \subseteq linked \cup {row.asset}
        /\ stored' \subseteq stored \cup {row.asset}
    BY <1>18 DEF Tidy, Told, Mine, files, ghosts, Holding, IInv, HoldersAgree
  <2> QED
    BY <1>18, <2>1, <2>2, AttachFrame
<1>19. ASSUME NEW a \in Attaches, ClaimReady(a)
      PROVE  Unclaimed' /\ HoldersAgree' /\ OneAsset'
  <2>1. wanted' = wanted /\ linked' = linked /\ stored' = stored
    BY <1>19 DEF ClaimReady, files, ghosts
  <2>2. PICK p \in Places :
          /\ Goto(a, p)
          /\ \/ row.status = "ready" /\ row' = [To("attaching") EXCEPT !.asset = wanted[a]]
             \/ row' = row /\ p \notin Holding
    BY <1>19 DEF ClaimReady, Query, Updates, Places, Holding
  <2>3. CASE row.status = "ready" /\ row' = [To("attaching") EXCEPT !.asset = wanted[a]]
    BY <1>19, <2>1, <2>2, <2>3, ClaimFrame
  <2>4. CASE row' = row /\ p \notin Holding
    BY <1>19, <2>1, <2>2, <2>4, AttachFrame
  <2> QED
    BY <2>2, <2>3, <2>4
<1>20. ASSUME NEW a \in Attaches, Link(a)
      PROVE  Unclaimed' /\ HoldersAgree' /\ OneAsset'
  <2>1. row.asset = wanted[a]
    BY <1>20 DEF Link, Holding, IInv, HoldersAgree
  <2>2. PICK p \in Places : Goto(a, p) /\ (row' = row \/ row' = To("attached"))
    BY <1>20 DEF Link, Query, Updates, Places
  <2>3. row'.asset = row.asset /\ (row'.status \in Fresh => row.status \in Fresh)
    BY <2>2, <1>t, ToType DEF Status, Fresh
  <2>4. wanted' = wanted /\ linked' = linked /\ stored' = stored
    BY <1>20 DEF Link, files, ghosts
  <2> QED
    BY <1>20, <2>1, <2>2, <2>3, <2>4, AttachFrame
<1>21. ASSUME NEW c \in Calls, BeginRetain(c) \/ BeginDiscard(c) \/ BeginSweep(c)
      PROVE  Unclaimed' /\ HoldersAgree' /\ OneAsset'
  <2>1. /\ row' = row /\ wanted' = wanted /\ linked' = linked /\ stored' = stored
        /\ pc' = [pc EXCEPT ![c] = "keep"] \/ pc' = [pc EXCEPT ![c] = "remove"]
    BY <1>21 DEF BeginRetain, BeginDiscard, BeginSweep, Sees, files, ghosts
  <2>2. \A a \in Attaches : pc'[a] \in Holding => pc[a] \in Holding
    BY <2>1, <1>t DEF Holding, TypeOK, Calls
  <2> QED
    BY <2>1, <2>2, Frame
<1>22. ASSUME NEW c \in Calls, Keep(c)
      PROVE  Unclaimed' /\ HoldersAgree' /\ OneAsset'
  <2>1. PICK p \in Places \ Holding : Goto(c, p)
    BY <1>22 DEF Keep, Query, Places, Holding
  <2>2. row'.asset = row.asset /\ (row'.status \in Fresh => row.status \in Fresh)
    BY <1>22, <1>t DEF Keep, Query, Updates, To, Fresh, TypeOK, Row
  <2>3. wanted' = wanted /\ linked' = linked /\ stored' \subseteq stored
    BY <1>22 DEF Keep, files, ghosts
  <2> QED
    BY <1>22, <2>1, <2>2, <2>3, MoveFrame
<1>23. ASSUME NEW c \in Calls, Close(c)
      PROVE  Unclaimed' /\ HoldersAgree' /\ OneAsset'
  <2>1. PICK p \in Places \ Holding : Goto(c, p)
    BY <1>23 DEF Close, Query, Places, Holding, Rest
  <2>2. row'.asset = row.asset /\ (row'.status \in Fresh => row.status \in Fresh)
    BY <1>23, <1>t DEF Close, Query, Updates, To, Fresh, TypeOK, Row
  <2>3. wanted' = wanted /\ linked' = linked /\ stored' \subseteq stored
    BY <1>23 DEF Close, files, ghosts
  <2> QED
    BY <1>23, <2>1, <2>2, <2>3, MoveFrame
<1>24. CASE UNCHANGED vars
  BY <1>24, Frame DEF vars, files, ghosts
<1> QED
  BY <1>1, <1>2, <1>3, <1>4, <1>5, <1>6, <1>7, <1>8, <1>9,
     <1>10, <1>11, <1>12, <1>13, <1>14, <1>15, <1>16, <1>17, <1>18,
     <1>19, <1>20, <1>21, <1>22, <1>23, <1>24
  DEF Next, CompleteStep, AttachStep, SweepStep, Calls

(* One upload never ends up as two assets, in the buckets or in what       *)
(* attach() told its callers, whatever overlaps, fails or is swept.        *)
THEOREM UploadHasOneAsset == Spec => []OneAsset
<1>1. Spec => []IInv
  BY AssetInit, AssetStep, PTL DEF Spec
<1>2. IInv => OneAsset
  BY DEF IInv
<1> QED
  BY <1>1, <1>2, PTL

------------------------------------------------------------------------------
(* The upload as UploadPromise sees it.  Who is between reading a session  *)
(* and closing it is a sweep, or a discard that the ghost knows of.        *)
Open == {"signed", "processing", "ready", "attaching"}
Closed == {"expired", "failed"}
DiscardKnown == \A c \in Discards : pc[c] \in {"remove", "close", "pend"} => discarded
Closers == \A c \in Calls : pc[c] \in {"remove", "close", "pend"} => c \in Discards \cup Sweeps

PromiseInv == IInv /\ DiscardKnown /\ Closers

LEMMA CloserInit == Init => DiscardKnown /\ Closers
  BY DEF Init, DiscardKnown, Closers, Calls

(* Nobody else comes to close a session.                                   *)
LEMMA CloserStep == TypeOK /\ DiscardKnown /\ Closers /\ [Next]_vars => DiscardKnown' /\ Closers'
<1> SUFFICES ASSUME TypeOK, DiscardKnown, Closers, [Next]_vars PROVE DiscardKnown' /\ Closers'
  OBVIOUS
<1> DEFINE Ending == {"remove", "close", "pend"}
<1>1. ASSUME NEW c \in Calls, NEW p \in Places \ Ending, Goto(c, p), discarded' = discarded
      PROVE  DiscardKnown' /\ Closers'
  BY <1>1 DEF Goto, DiscardKnown, Closers, TypeOK, Calls
<1>2. ASSUME UNCHANGED <<pc, discarded>> PROVE DiscardKnown' /\ Closers'
  BY <1>2 DEF DiscardKnown, Closers
<1>3. CASE IssueUrl \/ PutSource \/ Tick \/ UNCHANGED vars
  BY <1>2, <1>3 DEF IssueUrl, PutSource, Tick, vars, ghosts
<1>4. ASSUME NEW c \in Completes, CompleteStep(c) PROVE DiscardKnown' /\ Closers'
  <2>1. PICK p \in Places \ Ending : Goto(c, p)
    BY <1>4 DEF CompleteStep, BeginComplete, Expire, ClaimSource, Download, UploadProcessed,
                SaveReady, DropSource, MarkFailed, Query, Places
  <2>2. discarded' = discarded
    BY <1>4 DEF CompleteStep, BeginComplete, Expire, ClaimSource, Download, UploadProcessed,
                SaveReady, DropSource, MarkFailed, ghosts
  <2> QED
    BY <1>1, <2>1, <2>2 DEF Calls
<1>5. ASSUME NEW a \in Attaches, AttachStep(a) PROVE DiscardKnown' /\ Closers'
  <2>1. PICK p \in Places \ Ending : Goto(a, p)
    BY <1>5 DEF AttachStep, BeginAttach, Expire, ClaimReady, Reread, ReadStaged, PlaceAsset,
                Link, Confirm, Tidy, MarkFailed, Query, Places
  <2>2. discarded' = discarded
    BY <1>5 DEF AttachStep, BeginAttach, Expire, ClaimReady, Reread, ReadStaged, PlaceAsset,
                Link, Confirm, Tidy, MarkFailed, ghosts
  <2> QED
    BY <1>1, <2>1, <2>2 DEF Calls
<1>6. ASSUME NEW c \in Retains, BeginRetain(c) PROVE DiscardKnown' /\ Closers'
  BY <1>6 DEF BeginRetain, DiscardKnown, Closers, TypeOK, Calls, ghosts
<1>7. ASSUME NEW c \in Retains, Keep(c) PROVE DiscardKnown' /\ Closers'
  <2>1. Goto(c, "done") /\ discarded' = discarded
    BY <1>7 DEF Keep, Query, ghosts
  <2> QED
    BY <1>1, <2>1 DEF Calls, Places
<1>8. ASSUME NEW c \in Discards, BeginDiscard(c) PROVE DiscardKnown' /\ Closers'
  BY <1>8 DEF BeginDiscard, Sees, DiscardKnown, Closers, TypeOK, Calls
<1>9. ASSUME NEW c \in Sweeps, BeginSweep(c) PROVE DiscardKnown' /\ Closers'
  BY <1>9, CallsAssumption DEF BeginSweep, Sees, DiscardKnown, Closers, TypeOK, Calls, ghosts
<1>10. ASSUME NEW c \in Discards \cup Sweeps, Remove(c) PROVE DiscardKnown' /\ Closers'
  BY <1>10, CallsAssumption DEF Remove, Goto, DiscardKnown, Closers, TypeOK, Calls, ghosts
<1>11. ASSUME NEW c \in Discards \cup Sweeps, Close(c) PROVE DiscardKnown' /\ Closers'
  <2>1. Goto(c, Rest(c)) /\ discarded' = discarded
    BY <1>11 DEF Close, Query, ghosts
  <2> QED
    BY <1>1, <2>1 DEF Calls, Rest, Places
<1>12. ASSUME NEW c \in Calls, Crash(c) PROVE DiscardKnown' /\ Closers'
  <2>1. Goto(c, Rest(c)) /\ discarded' = discarded
    BY <1>12 DEF Crash, ghosts
  <2> QED
    BY <1>1, <2>1 DEF Rest, Places
<1> QED
  BY <1>3, <1>4, <1>5, <1>6, <1>7, <1>8, <1>9, <1>10, <1>11, <1>12 DEF Next, SweepStep

(* What a step can make of the session: nothing, or another open status;   *)
(* an asset, of the name it was claimed for; its end, which for an attached *)
(* session takes a discard.                                                *)
Untouched == row' = row /\ discarded' \in {discarded, TRUE}
StaysOpen == row.status \in Open /\ row'.status \in Open /\ discarded' = discarded
Attached ==
  /\ row.status = "attaching" /\ row.asset \in Assets
  /\ row'.status = "attached" /\ row'.asset = row.asset /\ discarded' = discarded
Ends ==
  /\ row.status \in Open \cup Closed \/ (row.status = "attached" /\ discarded)
  /\ row'.status \in Closed /\ discarded' = discarded

LEMMA ToStatus ==
  ASSUME TypeOK, NEW s \in Status
  PROVE  /\ To(s).status = s /\ To(s).asset = row.asset
         /\ \A t \in Nat : [To(s) EXCEPT !.expires = t].status = s
         /\ [To(s) EXCEPT !.path = "processed"].status = s
         /\ \A a : [To(s) EXCEPT !.asset = a].status = s
  BY DEF TypeOK, Row, To

LEMMA SessionStep ==
  PromiseInv /\ [Next]_vars => Untouched \/ StaysOpen \/ Attached \/ Ends
<1> SUFFICES ASSUME PromiseInv, [Next]_vars PROVE Untouched \/ StaysOpen \/ Attached \/ Ends
  OBVIOUS
<1>t. TypeOK
  BY DEF PromiseInv, IInv
<1>s. \A s \in Status : To(s).status = s
  BY <1>t, ToStatus
<1>1. CASE IssueUrl
  BY <1>1, <1>s DEF IssueUrl, Updates, Untouched, Ends, Open, Closed, Status, ghosts
<1>2. CASE PutSource \/ Tick \/ UNCHANGED vars
  BY <1>2 DEF PutSource, Tick, vars, ghosts, Untouched
<1>3. ASSUME NEW c \in Calls, Expire(c) \/ MarkFailed(c)
      PROVE  Untouched \/ Ends
  BY <1>3, <1>s DEF Expire, MarkFailed, Query, Updates, Untouched, Ends, Open, Closed,
                    Status, ghosts
<1>4. ASSUME NEW c \in Calls, ClaimSource(c) \/ SaveReady(c)
      PROVE  Untouched \/ StaysOpen
  <2>1. [To("ready") EXCEPT !.path = "processed"].status = "ready"
    BY <1>t, ToStatus DEF Status
  <2> QED
    BY <1>4, <1>s, <2>1 DEF ClaimSource, SaveReady, Query, Updates, Untouched, StaysOpen,
                            Open, Status, ghosts
<1>5. ASSUME NEW c \in Calls,
             \/ BeginComplete(c) \/ Download(c) \/ UploadProcessed(c) \/ DropSource(c)
             \/ BeginAttach(c) \/ Reread(c) \/ ReadStaged(c) \/ PlaceAsset(c) \/ Confirm(c)
             \/ Tidy(c) \/ BeginRetain(c) \/ BeginDiscard(c) \/ BeginSweep(c) \/ Remove(c)
             \/ Crash(c)
      PROVE  Untouched
  BY <1>5 DEF BeginComplete, Download, UploadProcessed, DropSource, BeginAttach, Reread,
              ReadStaged, PlaceAsset, Confirm, Tidy, BeginRetain, BeginDiscard, BeginSweep,
              Remove, Crash, ghosts, Untouched
<1>6. ASSUME NEW a \in Attaches, ClaimReady(a) PROVE Untouched \/ StaysOpen
  <2>1. [To("attaching") EXCEPT !.asset = wanted[a]].status = "attaching"
    BY <1>t, ToStatus DEF Status
  <2> QED
    BY <1>6, <2>1 DEF ClaimReady, Query, Updates, Untouched, StaysOpen, Open, ghosts
<1>7. ASSUME NEW a \in Attaches, Link(a) PROVE Untouched \/ Attached
  <2>1. row.asset = wanted[a]
    BY <1>7 DEF Link, Holding, PromiseInv, IInv, HoldersAgree
  <2>2. row.asset \in Assets
    BY <2>1, <1>t DEF TypeOK
  <2>3. To("attached").status = "attached" /\ To("attached").asset = row.asset
    BY <1>t, ToStatus DEF Status
  <2> QED
    BY <1>7, <2>2, <2>3 DEF Link, Query, Updates, Untouched, Attached, ghosts
<1>8. ASSUME NEW c \in Calls, Keep(c) PROVE Untouched \/ StaysOpen
  <2>1. [row EXCEPT !.expires = seen[c].expires].status = row.status
    BY <1>t DEF TypeOK, Row
  <2> QED
    BY <1>8, <2>1 DEF Keep, Query, Updates, Untouched, StaysOpen, Open, ghosts
<1>9. ASSUME NEW c \in Discards \cup Sweeps, Close(c) PROVE Untouched \/ Ends
  <2>1. /\ [To("expired") EXCEPT !.expires = now].status = "expired"
        /\ [To("failed") EXCEPT !.expires = now].status = "failed"
    BY <1>t, ToStatus DEF Status, TypeOK
  <2>2. pc[c] \in {"remove", "close", "pend"} /\ (c \in Sweeps \/ discarded)
    BY <1>9 DEF Close, PromiseInv, DiscardKnown
  <2> QED
    BY <1>9, <2>1, <2>2 DEF Close, Query, Updates, Closable, Pendable, Unfinished, Untouched,
                            Ends, Open, Closed, ghosts
<1> QED
  BY <1>1, <1>2, <1>3, <1>4, <1>5, <1>6, <1>7, <1>8, <1>9
  DEF Next, CompleteStep, AttachStep, SweepStep, Calls

(* The upload repository keeps the promise that the sign-up is built on:   *)
(* however its calls overlap, fail and die, the session becomes one asset  *)
(* or nothing, ends for good, and is ended by nothing but a discard once   *)
(* it is an asset.                                                         *)
THEOREM UploadKeepsPromise == Spec => KeepsUploadPromise
<1>1. Init => Promise!Init
  BY DEF Init, Signed, Promise!Init
<1>2. ASSUME PromiseInv, [Next]_vars PROVE [Promise!Next]_(Promise!upload)
  <2>1. CASE Untouched
    BY <2>1 DEF Untouched, Promise!Next, Promise!Discard, Promise!upload
  <2>2. CASE StaysOpen
    BY <2>2 DEF StaysOpen, Open, Promise!upload
  <2>3. CASE Attached
    <3>1. Promise!Attach(row.asset)
      BY <2>3 DEF Attached, Promise!Attach
    <3> QED
      BY <2>3, <3>1 DEF Attached, Promise!Next
  <2>4. CASE Ends
    BY <2>4 DEF Ends, Open, Closed, Promise!Next, Promise!Close, Promise!upload
  <2> QED
    BY <1>2, <2>1, <2>2, <2>3, <2>4, SessionStep
<1>3. Init => PromiseInv
  BY AssetInit, CloserInit DEF PromiseInv
<1>4. PromiseInv /\ [Next]_vars => PromiseInv'
  BY AssetStep, CloserStep DEF PromiseInv, IInv
<1> QED
  BY <1>1, <1>2, <1>3, <1>4, PTL DEF Spec, KeepsUploadPromise, Promise!Spec

(* A ready result is undone by nobody but a discard or a sweep whose       *)
(* removals failed: no completion, however late, makes it processing or    *)
(* failed once more.                                                       *)
THEOREM ReadyStays == Spec => ReadyIsNotUndone
<1> DEFINE Undone == row.status = "ready" /\ row'.status \in {"processing", "failed"}
           Pends == \E c \in Discards \cup Sweeps : pc[c] = "pend"
<1>1. ASSUME TypeOK, [Next]_vars PROVE [Undone => Pends]_vars
  <2> SUFFICES ASSUME Undone PROVE Pends
    OBVIOUS
  <2>s. \A s \in Status : To(s).status = s
    BY <1>1, ToStatus
  <2>1. row' # row
    OBVIOUS
  <2>2. ~IssueUrl /\ ~PutSource /\ ~Tick /\ ~UNCHANGED vars
    BY <2>1 DEF IssueUrl, Updates, PutSource, Tick, vars
  <2>3. ASSUME NEW c \in Calls, CompleteStep(c) PROVE FALSE
    <3>1. [To("ready") EXCEPT !.path = "processed"].status = "ready"
      BY <1>1, ToStatus DEF Status
    <3> QED
      BY <2>1, <2>3, <2>s, <3>1
      DEF CompleteStep, BeginComplete, Expire, ClaimSource, Download, UploadProcessed,
          SaveReady, DropSource, MarkFailed, Query, Updates, Status
  <2>4. ASSUME NEW a \in Attaches, AttachStep(a) PROVE FALSE
    <3>1. [To("attaching") EXCEPT !.asset = wanted[a]].status = "attaching"
      BY <1>1, ToStatus DEF Status
    <3> QED
      BY <2>1, <2>4, <2>s, <3>1
      DEF AttachStep, BeginAttach, Expire, ClaimReady, Reread, ReadStaged, PlaceAsset,
          Link, Confirm, Tidy, MarkFailed, Query, Updates, Status
  <2>5. ASSUME NEW c \in Retains, BeginRetain(c) \/ Keep(c) PROVE FALSE
    <3>1. [row EXCEPT !.expires = seen[c].expires].status = row.status
      BY <1>1 DEF TypeOK, Row
    <3> QED
      BY <2>1, <2>5, <3>1 DEF BeginRetain, Keep, Query, Updates
  <2>6. ASSUME NEW c \in Discards \cup Sweeps,
               BeginDiscard(c) \/ BeginSweep(c) \/ Remove(c) \/ Close(c)
        PROVE  Pends
    <3>1. Close(c)
      BY <2>1, <2>6 DEF BeginDiscard, BeginSweep, Remove
    <3>2. [To("expired") EXCEPT !.expires = now].status = "expired"
      BY <1>1, ToStatus DEF Status, TypeOK
    <3> QED
      BY <2>1, <3>1, <3>2 DEF Close, Query, Updates
  <2>7. \A c \in Calls : ~Crash(c)
    BY <2>1 DEF Crash
  <2> QED
    BY <1>1, <2>2, <2>3, <2>4, <2>5, <2>6, <2>7 DEF Next, SweepStep, Calls
<1> QED
  BY <1>1, TypeCorrect, PTL DEF Spec, ReadyIsNotUndone

------------------------------------------------------------------------------
(* What is attached stays stored.  A sweep that still means to remove an    *)
(* asset read the row past its end: it has been closed since, or swept is  *)
(* true, because nobody claims an asset for a session that names one.  And *)
(* a discard that has removed the asset has the session in its hands until *)
(* it closes it, or it has halted.                                         *)
Excused ==
  \/ swept \/ halted # {}
  \/ \E d \in Discards : pc[d] \in {"close", "pend"} /\ seen[d].asset = row.asset
SweepsAreKnown ==
  \A c \in Sweeps : pc[c] = "remove" /\ seen[c].asset # None =>
    row.asset # None /\ (row.status \in {"attaching", "attached"} => swept)
LinksAreStored ==
  \A a \in Attaches : pc[a] = "link" /\ row.status = "attaching" =>
    row.asset \in stored \/ Excused

StoredInv == PromiseInv /\ SweepsAreKnown /\ LinksAreStored /\ AttachedIsStored

(* A step that claims no asset, removes nothing, lets go of no session and *)
(* sends nobody to a removal.                                              *)
LEMMA StoredFrame ==
  ASSUME StoredInv, row'.asset = row.asset,
         row'.status = "attached" => row.status = "attached",
         row'.status = "attaching" => row.status = "attaching",
         stored \subseteq stored',
         (swept => swept') /\ halted \subseteq halted',
         \A d \in Discards : pc[d] \in {"close", "pend"} =>
           \/ pc'[d] \in {"close", "pend"} /\ seen'[d] = seen[d]
           \/ halted' # {} \/ row'.status \notin {"attaching", "attached"},
         \A a \in Attaches : pc'[a] = "link" => pc[a] = "link" \/ row.asset \in stored',
         \A c \in Sweeps : pc'[c] = "remove" => pc[c] = "remove" /\ seen'[c] = seen[c]
  PROVE  SweepsAreKnown' /\ LinksAreStored' /\ AttachedIsStored'
<1>1. SweepsAreKnown'
  BY DEF StoredInv, SweepsAreKnown
<1>2. ASSUME Excused, row'.status \in {"attaching", "attached"} PROVE Excused'
  BY <1>2 DEF Excused
<1>3. LinksAreStored'
  <2> SUFFICES ASSUME NEW a \in Attaches, pc'[a] = "link", row'.status = "attaching",
                      row'.asset \notin stored'
               PROVE  Excused'
    BY DEF LinksAreStored
  <2>1. pc[a] = "link" /\ row.status = "attaching" /\ row.asset \notin stored
    OBVIOUS
  <2>2. Excused
    BY <2>1 DEF StoredInv, LinksAreStored
  <2> QED
    BY <1>2, <2>2
<1>4. AttachedIsStored'
  <2> SUFFICES ASSUME row'.status = "attached", row'.asset \notin stored' PROVE Excused'
    BY DEF AttachedIsStored, Excused
  <2>1. Excused
    BY DEF StoredInv, AttachedIsStored, Excused
  <2> QED
    BY <1>2, <2>1
<1> QED
  BY <1>1, <1>3, <1>4

(* The same for a step of another call than a discard or a sweep, that     *)
(* takes it anywhere but to a link.                                        *)
LEMMA StoredMove ==
  ASSUME StoredInv, NEW c \in Completes \cup Attaches \cup Retains,
         NEW p \in Places \ {"link", "remove"}, Goto(c, p),
         row'.asset = row.asset,
         row'.status = "attached" => row.status = "attached",
         row'.status = "attaching" => row.status = "attaching",
         UNCHANGED <<stored, swept, halted>>
  PROVE  SweepsAreKnown' /\ LinksAreStored' /\ AttachedIsStored'
<1>t. TypeOK
  BY DEF StoredInv, PromiseInv, IInv
<1>1. \A a \in Attaches : pc'[a] = "link" => pc[a] = "link"
  BY <1>t DEF Goto, TypeOK, Calls
<1>2. \A s \in Sweeps : pc'[s] = "remove" => pc[s] = "remove" /\ seen'[s] = seen[s]
  BY <1>t DEF Goto, TypeOK, Calls
<1>3. \A d \in Discards : pc'[d] = pc[d] /\ seen'[d] = seen[d]
  BY <1>t, CallsAssumption DEF Goto, TypeOK, Calls
<1> QED
  BY <1>1, <1>2, <1>3, StoredFrame

(* Nobody is at work on an asset that the row does not name yet.           *)
LEMMA NothingNamed ==
  ASSUME StoredInv, row.asset = None
  PROVE  /\ \A c \in Sweeps : pc[c] = "remove" => seen[c].asset = None
         /\ \A a \in Attaches : pc[a] # "link"
<1>1. \A c \in Sweeps : pc[c] = "remove" => seen[c].asset = None
  BY DEF StoredInv, SweepsAreKnown
<1>2. \A a \in Attaches : pc[a] # "link"
  BY NoneAssumption DEF StoredInv, PromiseInv, IInv, HoldersAgree, Holding, TypeOK
<1> QED
  BY <1>1, <1>2

LEMMA StoredStep == StoredInv /\ [Next]_vars => SweepsAreKnown' /\ LinksAreStored' /\ AttachedIsStored'
<1> SUFFICES ASSUME StoredInv, [Next]_vars
             PROVE  SweepsAreKnown' /\ LinksAreStored' /\ AttachedIsStored'
  OBVIOUS
<1>t. TypeOK
  BY DEF StoredInv, PromiseInv, IInv
<1>s. \A s \in Status : To(s).status = s /\ To(s).asset = row.asset
  BY <1>t, ToType
<1>1. CASE IssueUrl
  BY <1>1, <1>s, StoredFrame DEF IssueUrl, Updates, Status, files, ghosts
<1>2. CASE PutSource \/ Tick \/ UNCHANGED vars
  BY <1>2, StoredFrame DEF PutSource, Tick, vars, files, ghosts
<1>3. ASSUME NEW c \in Completes \cup Attaches,
             \/ Expire(c) \/ MarkFailed(c) \/ ClaimSource(c) \/ SaveReady(c)
             \/ BeginComplete(c) \/ Download(c) \/ UploadProcessed(c) \/ DropSource(c)
      PROVE  SweepsAreKnown' /\ LinksAreStored' /\ AttachedIsStored'
  <2>1. PICK p \in Places \ {"link", "remove"} : Goto(c, p)
    BY <1>3 DEF BeginComplete, Expire, ClaimSource, Download, UploadProcessed,
                SaveReady, DropSource, MarkFailed, Query, Places
  <2>2. LET r == [To("ready") EXCEPT !.path = "processed"]
        IN r.status = "ready" /\ r.asset = row.asset
    BY <1>t, ToType DEF Status, Row
  <2>3. /\ row'.asset = row.asset
        /\ row'.status = "attached" => row.status = "attached"
        /\ row'.status = "attaching" => row.status = "attaching"
    BY <1>3, <1>s, <2>2 DEF BeginComplete, Expire, ClaimSource, Download, UploadProcessed,
                SaveReady, DropSource, MarkFailed, Query, Updates, Status
  <2>4. UNCHANGED <<stored, swept, halted>>
    BY <1>3 DEF BeginComplete, Expire, ClaimSource, Download, UploadProcessed,
                SaveReady, DropSource, MarkFailed, files, ghosts
  <2> QED
    BY <2>1, <2>3, <2>4, StoredMove
<1>4. ASSUME NEW a \in Attaches,
             BeginAttach(a) \/ Reread(a) \/ ReadStaged(a) \/ Confirm(a) \/ Tidy(a)
      PROVE  SweepsAreKnown' /\ LinksAreStored' /\ AttachedIsStored'
  <2>1. PICK p \in Places \ {"link", "remove"} : Goto(a, p)
    BY <1>4 DEF BeginAttach, Reread, ReadStaged, Confirm, Tidy, Places
  <2>2. UNCHANGED <<row, stored, swept, halted>>
    BY <1>4 DEF BeginAttach, Reread, ReadStaged, Confirm, Tidy, files, ghosts
  <2> QED
    BY <2>1, <2>2, StoredMove
<1>5. ASSUME NEW a \in Attaches, ClaimReady(a)
      PROVE  SweepsAreKnown' /\ LinksAreStored' /\ AttachedIsStored'
  <2>1. PICK p \in Places \ {"link", "remove"} : Goto(a, p)
    BY <1>5 DEF ClaimReady, Query, Places
  <2>2. UNCHANGED <<stored, swept, halted>>
    BY <1>5 DEF ClaimReady, files, ghosts
  <2>3. CASE row' = row
    BY <2>1, <2>2, <2>3, StoredMove
  <2>4. CASE row' # row
    <3>1. row.status = "ready" /\ row' = [To("attaching") EXCEPT !.asset = wanted[a]]
      BY <1>5, <2>4 DEF ClaimReady, Query, Updates
    <3>2. row'.status = "attaching"
      BY <3>1, <1>t, ToStatus DEF Status
    <3>3. row.asset = None
      BY <3>1 DEF StoredInv, PromiseInv, IInv, Unclaimed
    <3>4. \A b \in Attaches : pc'[b] # "link"
      BY <2>1, <3>3, NothingNamed, <1>t DEF Goto, TypeOK, Calls
    <3>5. \A c \in Sweeps : pc'[c] = "remove" => pc[c] = "remove" /\ seen'[c] = seen[c]
      BY <2>1, <1>t DEF Goto, TypeOK, Calls
    <3> QED
      BY <3>2, <3>3, <3>4, <3>5, NothingNamed DEF SweepsAreKnown, LinksAreStored, AttachedIsStored
  <2> QED
    BY <2>3, <2>4
<1>6. ASSUME NEW a \in Attaches, PlaceAsset(a)
      PROVE  SweepsAreKnown' /\ LinksAreStored' /\ AttachedIsStored'
  <2>1. PICK p \in Places : Goto(a, p) /\ p # "remove" /\ (p = "link" => wanted[a] \in stored')
    BY <1>6 DEF PlaceAsset, Places
  <2>2. UNCHANGED <<row, swept, halted>> /\ stored \subseteq stored' /\ row.asset = wanted[a]
    BY <1>6 DEF PlaceAsset, ghosts, StoredInv, PromiseInv, IInv, HoldersAgree, Holding
  <2>3. \A b \in Attaches : pc'[b] = "link" => pc[b] = "link" \/ row.asset \in stored'
    BY <2>1, <2>2, <1>t DEF Goto, TypeOK, Calls
  <2>4. /\ \A c \in Sweeps : pc'[c] = "remove" => pc[c] = "remove" /\ seen'[c] = seen[c]
        /\ \A d \in Discards : pc'[d] = pc[d] /\ seen'[d] = seen[d]
    BY <2>1, <1>t, CallsAssumption DEF Goto, TypeOK, Calls
  <2> QED
    BY <2>2, <2>3, <2>4, StoredFrame
<1>7. ASSUME NEW a \in Attaches, Link(a)
      PROVE  SweepsAreKnown' /\ LinksAreStored' /\ AttachedIsStored'
  <2>1. PICK p \in Places \ {"link", "remove"} : Goto(a, p)
    BY <1>7 DEF Link, Query, Places
  <2>2. UNCHANGED <<stored, swept, halted>>
    BY <1>7 DEF Link, files, ghosts
  <2>3. CASE row' = row
    BY <2>1, <2>2, <2>3, StoredMove
  <2>4. CASE row' # row
    <3>1. row.status = "attaching" /\ row' = To("attached") /\ pc[a] = "link"
      BY <1>7, <2>4 DEF Link, Query, Updates
    <3>2. row'.asset = row.asset /\ row'.status = "attached"
      BY <3>1, <1>s DEF Status
    <3>3. row.asset \in stored \/ Excused
      BY <3>1 DEF StoredInv, LinksAreStored
    <3>4. /\ \A c \in Sweeps : pc'[c] = "remove" => pc[c] = "remove" /\ seen'[c] = seen[c]
          /\ \A d \in Discards : pc'[d] = pc[d] /\ seen'[d] = seen[d]
      BY <2>1, <1>t, CallsAssumption DEF Goto, TypeOK, Calls
    <3>5. AttachedIsStored'
      BY <2>2, <3>2, <3>3, <3>4 DEF Excused, AttachedIsStored
    <3>6. SweepsAreKnown'
      BY <2>2, <3>1, <3>2, <3>4 DEF StoredInv, SweepsAreKnown
    <3>7. LinksAreStored'
      BY <3>2 DEF LinksAreStored
    <3> QED
      BY <3>5, <3>6, <3>7
  <2> QED
    BY <2>3, <2>4
<1>8. ASSUME NEW c \in Retains \cup Discards, BeginRetain(c) \/ BeginDiscard(c)
      PROVE  SweepsAreKnown' /\ LinksAreStored' /\ AttachedIsStored'
  <2>1. UNCHANGED <<row, stored, swept, halted>>
    BY <1>8 DEF BeginRetain, BeginDiscard, files, ghosts
  <2>2. /\ \A a \in Attaches : pc'[a] = "link" => pc[a] = "link"
        /\ \A s \in Sweeps : pc'[s] = pc[s] /\ seen'[s] = seen[s]
        /\ \A d \in Discards : pc[d] \in {"close", "pend"} => pc'[d] = pc[d] /\ seen'[d] = seen[d]
    BY <1>8, <1>t, CallsAssumption DEF BeginRetain, BeginDiscard, Sees, TypeOK, Calls
  <2> QED
    BY <2>1, <2>2, StoredFrame
<1>9. ASSUME NEW c \in Retains, Keep(c)
      PROVE  SweepsAreKnown' /\ LinksAreStored' /\ AttachedIsStored'
  <2>1. Goto(c, "done") /\ UNCHANGED <<stored, swept, halted>>
    BY <1>9 DEF Keep, Query, files, ghosts
  <2>2. row' = row \/ row' = [row EXCEPT !.expires = seen[c].expires]
    BY <1>9 DEF Keep, Query, Updates
  <2>3. row'.asset = row.asset /\ row'.status = row.status
    BY <2>2, <1>t DEF TypeOK, Row
  <2> QED
    BY <2>1, <2>3, StoredMove DEF Places
<1>10. ASSUME NEW c \in Sweeps, BeginSweep(c)
      PROVE  SweepsAreKnown' /\ LinksAreStored' /\ AttachedIsStored'
  <2>1. UNCHANGED <<row, stored, halted>> /\ (swept' <=> swept \/ row.status = "attaching")
    BY <1>10, <1>t DEF BeginSweep, files, TypeOK
  <2>2. row.asset # None => row.status \in {"attaching", "failed"}
    BY <1>10 DEF BeginSweep, Stale, Unfinished, StoredInv, PromiseInv, IInv, Unclaimed
  <2>3. \A s \in Sweeps : pc'[s] = "remove" /\ seen'[s].asset # None =>
          (s = c /\ row.asset # None) \/ (pc[s] = "remove" /\ seen[s].asset # None)
    BY <1>10, <1>t DEF BeginSweep, Sees, TypeOK, Calls
  <2>4. SweepsAreKnown'
    BY <2>1, <2>2, <2>3 DEF StoredInv, SweepsAreKnown
  <2>5. /\ \A a \in Attaches : pc'[a] = "link" => pc[a] = "link"
        /\ \A d \in Discards : pc'[d] = pc[d] /\ seen'[d] = seen[d]
    BY <1>10, <1>t, CallsAssumption DEF BeginSweep, Sees, TypeOK, Calls
  <2>6. Excused => Excused'
    BY <2>1, <2>5 DEF Excused
  <2>7. LinksAreStored'
    BY <2>1, <2>5, <2>6 DEF StoredInv, LinksAreStored
  <2>8. AttachedIsStored'
    BY <2>1, <2>6 DEF StoredInv, AttachedIsStored, Excused
  <2> QED
    BY <2>4, <2>7, <2>8
<1>11. ASSUME NEW c \in Discards \cup Sweeps, Remove(c)
      PROVE  SweepsAreKnown' /\ LinksAreStored' /\ AttachedIsStored'
  <2>1. UNCHANGED <<row, swept, halted>> /\ pc[c] = "remove"
        /\ stored \ {seen[c].asset} \subseteq stored'
    BY <1>11 DEF Remove, ghosts
  <2>2. PICK p \in {"close", "pend"} : Goto(c, p)
    BY <1>11 DEF Remove
  <2>3. /\ \A a \in Attaches : pc'[a] = "link" => pc[a] = "link"
        /\ \A s \in Sweeps : pc'[s] = "remove" => pc[s] = "remove" /\ seen'[s] = seen[s]
        /\ \A d \in Discards : d # c => pc'[d] = pc[d] /\ seen'[d] = seen[d]
        /\ pc'[c] \in {"close", "pend"} /\ seen'[c] = seen[c]
    BY <2>2, <1>t DEF Goto, TypeOK, Calls
  <2>4. SweepsAreKnown'
    BY <2>1, <2>3 DEF StoredInv, SweepsAreKnown
  <2>5. Excused => Excused'
    BY <2>1, <2>3 DEF Excused
  <2>6. ASSUME row.status \in {"attaching", "attached"}, row.asset \in stored, row.asset \notin stored'
        PROVE  Excused'
    <3>1. seen[c].asset = row.asset
      BY <2>1, <2>6
    <3>2. CASE c \in Discards
      BY <2>1, <2>3, <3>1, <3>2 DEF Excused
    <3>3. CASE c \in Sweeps
      <4>1. row.asset # None
        BY <2>6, <1>t, NoneAssumption DEF TypeOK
      <4>2. swept
        BY <2>1, <2>6, <3>1, <3>3, <4>1 DEF StoredInv, SweepsAreKnown
      <4> QED
        BY <2>1, <4>2 DEF Excused
    <3> QED
      BY <3>2, <3>3
  <2>7. LinksAreStored'
    BY <2>1, <2>3, <2>5, <2>6 DEF StoredInv, LinksAreStored
  <2>8. AttachedIsStored'
    <3> SUFFICES ASSUME row.status = "attached", row.asset \notin stored' PROVE Excused'
      BY <2>1 DEF AttachedIsStored, Excused
    <3> QED
      BY <2>5, <2>6 DEF StoredInv, AttachedIsStored, Excused
  <2> QED
    BY <2>4, <2>7, <2>8
<1>12. ASSUME NEW c \in Discards \cup Sweeps, Close(c)
      PROVE  SweepsAreKnown' /\ LinksAreStored' /\ AttachedIsStored'
  <2>1. Goto(c, Rest(c)) /\ UNCHANGED <<stored, swept>>
    BY <1>12 DEF Close, Query, files
  <2>2. \A s \in Status : LET r == [To(s) EXCEPT !.expires = now]
                          IN r.status = s /\ r.asset = row.asset
    BY <1>t, ToType DEF Row
  <2>3. row' = row \/ (row'.status \in {"expired", "failed"} /\ row'.asset = row.asset)
    BY <1>12, <2>2 DEF Close, Query, Updates, Status
  <2>4. halted \subseteq halted'
    BY <1>12 DEF Close, Halts
  <2>5. c \in Discards => halted' # {} \/ row'.status \notin {"attaching", "attached"}
    <3> SUFFICES ASSUME c \in Discards PROVE halted' # {} \/ row'.status \notin {"attaching", "attached"}
      OBVIOUS
    <3>1. CASE faults' # faults
      BY <1>12, <3>1 DEF Close, Halts
    <3>2. CASE faults' = faults
      <4>1. faults \in Nat /\ c \notin Sweeps
        BY <1>t, CallsAssumption, LivesAssumption DEF TypeOK
      <4>2. \/ Updates(Closable(c), [To("expired") EXCEPT !.expires = now])
            \/ Updates(Pendable(c), [To("failed") EXCEPT !.expires = now])
        BY <1>12, <3>2, <4>1 DEF Close, Query, Fault
      <4>3. {"attaching", "attached"} \subseteq Closable(c) /\ {"attaching", "attached"} \subseteq Pendable(c)
        BY <4>1 DEF Closable, Pendable, Unfinished
      <4> QED
        BY <2>2, <4>2, <4>3 DEF Updates, Status
    <3> QED
      BY <3>1, <3>2
  <2>6. /\ \A a \in Attaches : pc'[a] = "link" => pc[a] = "link"
        /\ \A s \in Sweeps : pc'[s] = "remove" => pc[s] = "remove" /\ seen'[s] = seen[s]
        /\ \A d \in Discards : d # c => pc'[d] = pc[d] /\ seen'[d] = seen[d]
    BY <2>1, <1>t DEF Goto, Rest, TypeOK, Calls
  <2> QED
    BY <2>1, <2>3, <2>4, <2>5, <2>6, StoredFrame
<1>13. ASSUME NEW c \in Calls, Crash(c)
      PROVE  SweepsAreKnown' /\ LinksAreStored' /\ AttachedIsStored'
  <2>1. UNCHANGED <<row, stored, swept>> /\ halted \subseteq halted' /\ Goto(c, Rest(c))
    BY <1>13 DEF Crash, Halts, files
  <2>2. c \in Discards /\ pc[c] \in {"close", "pend"} => halted' # {}
    BY <1>13 DEF Crash, Halts
  <2>3. /\ \A a \in Attaches : pc'[a] = "link" => pc[a] = "link"
        /\ \A s \in Sweeps : pc'[s] = "remove" => pc[s] = "remove" /\ seen'[s] = seen[s]
        /\ \A d \in Discards : d # c => pc'[d] = pc[d] /\ seen'[d] = seen[d]
    BY <2>1, <1>t DEF Goto, Rest, TypeOK, Calls
  <2> QED
    BY <2>1, <2>2, <2>3, StoredFrame
<1> QED
  BY <1>1, <1>2, <1>3, <1>4, <1>5, <1>6, <1>7, <1>8, <1>9, <1>10, <1>11, <1>12, <1>13
  DEF Next, CompleteStep, AttachStep, SweepStep

(* The image of an attached session is in its bucket, unless a sweep read  *)
(* the session, past its end, while it was attaching, or a discard that    *)
(* removed the image has yet to close the session or was kept from it.     *)
THEOREM AttachedStaysStored == Spec => []AttachedIsStored
<1>1. Init => StoredInv
  BY AssetInit, CloserInit
  DEF StoredInv, PromiseInv, Init, Signed, SweepsAreKnown, LinksAreStored, AttachedIsStored, Calls
<1>2. StoredInv /\ [Next]_vars => StoredInv'
  BY AssetStep, CloserStep, StoredStep DEF StoredInv, PromiseInv, IInv
<1>3. StoredInv => AttachedIsStored
  BY DEF StoredInv
<1> QED
  BY <1>1, <1>2, <1>3, PTL DEF Spec
=============================================================================
