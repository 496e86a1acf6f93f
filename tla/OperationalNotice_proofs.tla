---------------------- MODULE OperationalNotice_proofs ----------------------
(***************************************************************************)
(* The dedupe key is a lock that is never stolen: whoever works holds it,  *)
(* and it is given back only when nothing was shown to anyone.             *)
(***************************************************************************)
EXTENDS OperationalNotice, TLAPS

Shown == readers \cup delivered

(* A pass that works holds the key, alone, and nobody else has been told.  *)
KeyIsHeld ==
  \A p \in Passes : pc[p] \in Working =>
    /\ reserved
    /\ \A q \in Passes : q # p => pc[q] \notin Working /\ q \notin Shown

(* What was shown keeps the key: its pass is past giving it back.          *)
ShownKeepsKey ==
  \A p \in Passes :
    /\ p \in Shown => reserved /\ pc[p] \notin {"idle", "insert", "release"}
    /\ p \in delivered => pc[p] = "done"

(* A pass that got past inserting its notice still has it.                 *)
NoticeIsThere ==
  \A p \in Passes : pc[p] \in {"recipients", "deliver"} => p \in notices

IInv ==
  /\ TypeOK /\ KeyIsHeld /\ ShownKeepsKey /\ NoticeIsThere
  /\ NoticedOnce /\ ReservedMeansNoticed

USE DEF Working, Shown

(* Every behaviour starts in the invariant: no key, nobody at work.        *)
LEMMA InitHolds == Init => IInv
BY DEF Init, IInv, TypeOK, KeyIsHeld, ShownKeepsKey, NoticeIsThere, NoticedOnce,
       ReservedMeansNoticed

(* The invariant is inductive, one case per statement of a pass.           *)
LEMMA StepKeeps == IInv /\ [Next]_vars => IInv'
<1> SUFFICES ASSUME IInv, [Next]_vars PROVE IInv'
  OBVIOUS
<1> USE DEF IInv, TypeOK, KeyIsHeld, ShownKeepsKey, NoticeIsThere, NoticedOnce,
            ReservedMeansNoticed, Goto
<1>1. ASSUME NEW p \in Passes, Claim(p) PROVE IInv'
  <2>0. pc[p] = "idle" /\ UNCHANGED <<notices, readers, delivered>>
    BY <1>1 DEF Claim
  <2>1. CASE ~reserved /\ reserved' = TRUE /\ Goto(p, "insert") /\ UNCHANGED broken
    BY <2>0, <2>1
  <2>2. CASE Goto(p, "done") /\ UNCHANGED <<reserved, broken>>
    BY <2>0, <2>2
  <2>3. CASE ~reserved /\ reserved' = TRUE /\ Goto(p, "done") /\ broken' = TRUE
    BY <2>0, <2>3
  <2> QED BY <1>1, <2>1, <2>2, <2>3 DEF Claim
<1>2. ASSUME NEW p \in Passes, InsertNotice(p) PROVE IInv'
  BY <1>2 DEF InsertNotice
<1>3. ASSUME NEW p \in Passes, InsertRecipients(p) PROVE IInv'
  BY <1>3 DEF InsertRecipients
<1>4. ASSUME NEW p \in Passes, Rollback(p) PROVE IInv'
  <2>0. pc[p] = "rollback" /\ UNCHANGED <<reserved, delivered>>
    BY <1>4 DEF Rollback
  <2>1. CASE /\ notices' = notices \ {p} /\ readers' = readers \ {p}
             /\ Goto(p, "release") /\ UNCHANGED broken
    <3>1. p \notin delivered
      BY <2>0
    <3> QED BY <2>0, <2>1, <3>1
  <2>2. CASE /\ notices' = notices \ {p} /\ readers' = readers \ {p}
             /\ Goto(p, "done") /\ broken' = TRUE
    BY <2>0, <2>2
  <2>3. CASE UNCHANGED <<notices, readers>> /\ Goto(p, "done") /\ broken' = TRUE
    BY <2>0, <2>3
  <2> QED BY <1>4, <2>1, <2>2, <2>3 DEF Rollback
<1>5. ASSUME NEW p \in Passes, Deliver(p) PROVE IInv'
  BY <1>5 DEF Deliver
<1>6. ASSUME NEW p \in Passes, Release(p) PROVE IInv'
  BY <1>6 DEF Release
<1>7. ASSUME NEW p \in Passes, Crash(p) PROVE IInv'
  BY <1>7 DEF Crash
<1>8. CASE UNCHANGED vars
  BY <1>8 DEF vars
<1> QED
  BY <1>1, <1>2, <1>3, <1>4, <1>5, <1>6, <1>7, <1>8 DEF Next

(* The invariant holds in every reachable state.                           *)
LEMMA Inductive == Spec => []IInv
BY InitHolds, StepKeeps, PTL DEF Spec

(* However many passes overlap, fail and retry, at most one of them shows  *)
(* its notice to anyone (createDedupedOperationalNotification).            *)
THEOREM NoticeIsUnique == Spec => []NoticedOnce
<1>1. IInv => NoticedOnce
  BY DEF IInv
<1> QED BY <1>1, Inductive, PTL

(* A key at rest stands for a notice, unless a crash or an error left it   *)
(* (releaseOperationalNotificationDedupe, and rollback before it).         *)
THEOREM KeyMeansNotice == Spec => []ReservedMeansNoticed
<1>1. IInv => ReservedMeansNoticed
  BY DEF IInv
<1> QED BY <1>1, Inductive, PTL
=============================================================================
