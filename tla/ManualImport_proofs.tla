-------------------------- MODULE ManualImport_proofs --------------------------
(***************************************************************************)
(* Proofs about the bulk invitation, for any rows, commits, reissues and   *)
(* expiry runs.                                                            *)
(***************************************************************************)
EXTENDS ManualImportProps, WellFoundedInduction, TLAPS

Senders == Commits \cup Reissues
Codes == {None, "retry", "exists", "unknown"}
Row == [status : {"staged", "processing", "created", "failed"}, code : Codes,
        photo : BOOLEAN, attempted : BOOLEAN, sent : BOOLEAN,
        key : Keys \cup {None}, holder : Senders \cup {None}]
Snap == [photo : BOOLEAN, attempted : BOOLEAN, sent : BOOLEAN, key : Keys \cup {None}]
Call == [pc : Steps, snap : [Rows -> Snap \cup {None}], code : Codes, active : BOOLEAN]
Sweep == [pc : {"off", "sweep", "done"}, snap : [Rows -> {None, "remove", "mark", "failed"}],
          code : Codes, active : BOOLEAN]
Post == [key : Keys, by : Senders, link : Keys]

(* The steps of a commit, of a reissue and of a cron; with and without a   *)
(* row in hand.                                                            *)
BatchSteps == {"off", "requeueCheck", "requeue", "read", "cleanCheck", "result", "reopen",
               "finish", "catch", "release", "done"}
EarlySteps == {"rowCheck", "claim", "claimCheck"}
PhotoSteps == {"member", "photo", "photoMark"}
MintSteps == {"intent", "mint", "attempt"}
SendSteps == {"send", "sent", "create"}
HandSteps == EarlySteps \cup PhotoSteps \cup MintSteps \cup SendSteps
                \cup {"fail", "refresh", "restage"}
ReissueSteps == {"issue", "attempt", "send", "sent", "create", "fail", "remove"}

(* Types, and which call has a row in hand. *)
Types ==
    /\ batch \in [status : {"ready", "processing", "completed", "expired"},
                  owner : Commits \cup {None}]
    /\ batch.owner # None => batch.status = "processing"
    /\ row \in [Rows -> Row]
    /\ call = [c \in Calls |-> call[c]]
    /\ \A c \in Senders : call[c] \in Call
    /\ \A c \in Crons : call[c] \in Sweep
    /\ member \in [Rows -> {"none", "waiting", "set"}]
    /\ image \in [Rows -> BOOLEAN]
    /\ stored \in [Rows -> BOOLEAN]
    /\ link \in [Rows -> Keys \cup {None}]
    /\ posts \in [Rows -> SUBSET Post]

Has(c, k) == call[c].snap[k] # None
HasAny(c) == \E k \in Rows : Has(c, k)

CommitsInHand ==
    \A c \in Commits :
        /\ call[c].pc \in BatchSteps \cup HandSteps
        /\ call[c].pc = "off" => ~HasAny(c)
        /\ call[c].pc \in HandSteps => HasAny(c)
        /\ call[c].active => /\ HasAny(c)
                             /\ call[c].pc \in {"catch", "release"} \cup HandSteps
                             /\ call[c].pc # "refresh"
        /\ call[c].pc = "restage" => call[c].active
        /\ call[c].pc = "fail" => call[c].code # None

ReissuesInHand ==
    \A c \in Reissues :
        /\ call[c].pc \in {"off", "done"} \cup ReissueSteps
        /\ call[c].pc = "off" => ~HasAny(c)
        /\ call[c].pc \in ReissueSteps => HasAny(c)
        /\ call[c].pc = "fail" => call[c].code = "unknown"

TypeInv == Types /\ CommitsInHand /\ ReissuesInHand

-----------------------------------------------------------------------------
(* What a row has when its link may be delivered. *)
Ready(k) == member[k] # "none" /\ (k \in Pictured => image[k])

RowReady(k) ==
    /\ row[k].code # None <=> row[k].status = "failed"
    /\ row[k].attempted => row[k].key # None
    /\ row[k].sent => row[k].attempted /\ posts[k] # {}
    /\ row[k].holder # None => row[k].status = "processing"
    /\ row[k].code = "unknown" => Ready(k) /\ row[k].key # None
    /\ row[k].code = "exists" => member[k] = "none"
    /\ row[k].key \in Reissues => Ready(k)
    /\ row[k].status = "created" => Ready(k)
    /\ row[k].photo => image[k]
    /\ posts[k] # {} => Ready(k)

(* What a commit has read stays true of the row. *)
SnapReady(c) ==
    \A k \in Rows :
        Has(c, k) =>
            /\ call[c].snap[k].photo => image[k]
            /\ call[c].snap[k].attempted => call[c].snap[k].key # None
            /\ call[c].snap[k].sent => call[c].snap[k].attempted /\ posts[k] # {}
            /\ call[c].snap[k].key # None => row[k].key # None

CommitReady(c) ==
    /\ call[c].pc \in {"photo", "photoMark"} => member[Current(c)] # "none"
    /\ call[c].pc = "photoMark" => image[Current(c)]
    /\ call[c].pc \in MintSteps \cup SendSteps => Ready(Current(c))
    /\ call[c].pc \in {"send", "sent"} => row[Current(c)].key # None
    /\ call[c].pc = "sent" => posts[Current(c)] # {}
    /\ call[c].pc \in {"send", "sent"} /\ row[Current(c)].holder = c => row[Current(c)].attempted
    /\ call[c].pc = "fail" /\ call[c].code = "unknown"
          => Ready(Current(c)) /\ row[Current(c)].key # None
    /\ call[c].pc = "fail" /\ call[c].code = "exists" /\ row[Current(c)].holder = c
          => member[Current(c)] = "none"

ReissueReady(c) ==
    /\ call[c].pc \in ReissueSteps => Ready(Current(c)) /\ row[Current(c)].key # None
    /\ call[c].pc = "sent" => posts[Current(c)] # {}
    /\ call[c].pc \in {"send", "sent"} /\ row[Current(c)].holder = c => row[Current(c)].attempted

ReadyInv == /\ \A k \in Rows : RowReady(k)
            /\ \A c \in Commits : SnapReady(c) /\ CommitReady(c)
            /\ \A c \in Reissues : ReissueReady(c)

-----------------------------------------------------------------------------
(* Who may still use a key. *)
Name(key) == IF key = None THEN Import ELSE key
Flies(c, k, key) == call[c].pc = "send" /\ Current(c) = k /\ KeyOf(c) = key
Fresh(k, key) == /\ \A p \in posts[k] : p.key # key
                 /\ \A c \in Senders : ~Flies(c, k, key)

(* Row k is still before the commit c ... *)
Pending(c, k) == /\ Has(c, k)
                 /\ \/ k # Current(c)
                    \/ call[c].pc \in EarlySteps \cup PhotoSteps \cup MintSteps
(* ... and c may yet come to it, by its lease or as the row's holder. *)
Grips(c, k) == /\ call[c].pc \in PhotoSteps \cup MintSteps \cup SendSteps
               /\ Current(c) = k /\ row[k].holder = c
Held(c, k) == batch.owner = c \/ Grips(c, k)

(* A row that a commit works on as its holder is in nobody else's hand. *)
OneHand == \A c, d \in Commits, k \in Rows :
              Grips(c, k) /\ batch.owner = d /\ c # d => ~Has(d, k)

(* The key of a reissue that has still to send is on its own row alone,    *)
(* and no commit has read it.                                              *)
Unseen(c) == \/ call[c].pc = "off"
             \/ call[c].pc \in {"issue", "attempt"} /\ row[Current(c)].holder = c
ReissueUnseen ==
    \A c \in Reissues :
        /\ call[c].pc = "off" => \A k \in Rows : /\ row[k].key # c
                                                 /\ \A p \in posts[k] : p.key # c
        /\ Unseen(c) => \A k \in Rows :
              /\ call[c].pc # "off" /\ k # Current(c) => row[k].key # c
              /\ \A d \in Commits : Has(d, k) => call[d].snap[k].key # c

RowKeyFresh == \A k \in Rows : ~row[k].attempted => Fresh(k, Name(row[k].key))

SnapKeyFresh ==
    \A c \in Commits, k \in Rows :
        Pending(c, k) /\ Held(c, k) /\ ~call[c].snap[k].attempted
            => Fresh(k, Name(call[c].snap[k].key))

FliesAlone ==
    \A c \in Senders, k \in Rows, key \in Keys : Flies(c, k, key) =>
        /\ \A p \in posts[k] : p.key # key
        /\ \A d \in Senders \ {c} : ~Flies(d, k, key)

(* What a call knows of a row it holds. *)
Knows(c) ==
    /\ c \in Commits /\ call[c].pc \in MintSteps => ~call[c].snap[Current(c)].attempted
    /\ call[c].pc = "intent" => call[c].snap[Current(c)].key = None
    /\ c \in Reissues /\ call[c].pc \in {"issue", "attempt"} /\ row[Current(c)].holder = c
          => row[Current(c)].key = c /\ ~row[Current(c)].attempted
    /\ call[c].pc \in {"send", "sent"} /\ row[Current(c)].holder = c
          => row[Current(c)].key = KeyOf(c)

KeyInv == /\ OneHand /\ ReissueUnseen /\ RowKeyFresh /\ SnapKeyFresh /\ FliesAlone
          /\ SentOncePerKey
          /\ \A c \in Senders : Knows(c)

-----------------------------------------------------------------------------
(* What a message's mark stands for. *)
Issued(k) == link[k] \in Reissues \/ (link[k] = None /\ member[k] = "set")

SentIsSent(k) == row[k].sent => \E p \in posts[k] : p.key = row[k].key
CreatedIsSent(k) == row[k].status = "created" =>
                       posts[k] # {} /\ (row[k].sent \/ row[k].key \in Reissues)

(* What a commit has read of a row it may come to is still so, or a        *)
(* reissue has come between.                                               *)
SnapKnows(c, k) ==
    Pending(c, k) /\ Held(c, k) =>
        /\ call[c].snap[k].key = None /\ (k = Current(c) => call[c].pc \notin {"mint", "attempt"})
              => row[k].key = None
        /\ ~call[c].snap[k].sent /\ row[k].sent => Issued(k)
        /\ call[c].snap[k].sent => row[k].sent \/ row[k].key \in Reissues

HolderSent(c) ==
    /\ call[c].pc = "sent" => \E p \in posts[Current(c)] : p.key = KeyOf(c)
    /\ c \in Reissues /\ call[c].pc \in {"attempt", "send", "sent"} => Issued(Current(c))
    /\ call[c].pc \in {"issue", "attempt"} /\ row[Current(c)].holder = c => ~row[Current(c)].sent
    /\ call[c].pc = "create" /\ row[Current(c)].holder = c
          => /\ posts[Current(c)] # {}
             /\ row[Current(c)].sent \/ row[Current(c)].key \in Reissues

MessageInv == /\ \A k \in Rows : SentIsSent(k) /\ CreatedIsSent(k)
              /\ \A c \in Commits, k \in Rows : SnapKnows(c, k)
              /\ \A c \in Senders : HolderSent(c)

-----------------------------------------------------------------------------
(* The row in hand. *)

LEMMA Least ==
    ASSUME NEW S \in SUBSET Nat, S # {}
    PROVE  \E k \in S : \A j \in S : ~(j < k)
<1> DEFINE R == {ss \in Nat \X Nat : ss[1] < ss[2]}
<1>1. IsWellFoundedOn(R, Nat)
  BY NatLessThanWellFounded DEF OpToRel
<1>2. \A j, k \in Nat : j < k => <<j, k>> \in R
  OBVIOUS
<1> HIDE DEF R
<1>3. \E k \in S : \A j \in S : ~(<<j, k>> \in R)
  BY <1>1, WFMin
<1> QED
  BY <1>2, <1>3

LEMMA ForemostIs ==
    ASSUME NEW snap, \E k \in Rows : snap[k] # None
    PROVE  Foremost(snap) \in Rows /\ snap[Foremost(snap)] # None
<1> DEFINE S == {k \in Rows : snap[k] # None}
           P(k) == snap[k] # None /\ \A j \in Rows : j < k => snap[j] = None
<1>1. S \in SUBSET Nat /\ S # {}
  BY RowsAssumption
<1>2. PICK k \in S : \A j \in S : ~(j < k)
  BY <1>1, Least
<1>3. k \in Rows /\ P(k)
  BY <1>2
<1>4. Foremost(snap) = CHOOSE n \in Rows : P(n)
  BY DEF Foremost
<1> HIDE DEF P
<1>5. (CHOOSE n \in Rows : P(n)) \in Rows /\ P(CHOOSE n \in Rows : P(n))
  BY <1>3
<1> QED
  BY <1>4, <1>5 DEF P

LEMMA InHand ==
    ASSUME TypeInv, NEW c \in Senders, HasAny(c)
    PROVE  /\ Current(c) \in Rows
           /\ Has(c, Current(c))
           /\ call[c].snap[Current(c)] \in Snap
<1>1. Current(c) \in Rows /\ Has(c, Current(c))
  BY ForemostIs DEF HasAny, Has, Current
<1>2. call[c].snap \in [Rows -> Snap \cup {None}]
  BY DEF TypeInv, Types, Call
<1> QED
  BY <1>1, <1>2 DEF Has

-----------------------------------------------------------------------------
(* Steps without EXCEPT: where a call and a row are put. *)

CallTo(c, pc, snap, code, active) ==
    /\ call' = [d \in Calls |-> call'[d]]
    /\ \A d \in Calls : d # c => call'[d] = call[d]
    /\ call'[c] = [pc |-> pc, snap |-> snap, code |-> code, active |-> active]

To(c, pc) == CallTo(c, pc, call[c].snap, call[c].code, call[c].active)
Ended(c) == CallTo(c, "done", Nothing, None, FALSE)
Failed(c, code) == CallTo(c, "fail", call[c].snap, code, call[c].active)

RowOf(status, code, photo, attempted, sent, key, holder) ==
    [status |-> status, code |-> code, photo |-> photo, attempted |-> attempted,
     sent |-> sent, key |-> key, holder |-> holder]
RowTo(k, r) ==
    /\ row' = [j \in Rows |-> row'[j]]
    /\ \A j \in Rows : j # k => row'[j] = row[j]
    /\ row'[k] = r

(* The row with another status, and with another record of its delivery. *)
Turned(k, status, code, holder) ==
    RowTo(k, RowOf(status, code, row[k].photo, row[k].attempted, row[k].sent, row[k].key, holder))
Noted(k, photo, attempted, sent, key, holder) ==
    RowTo(k, RowOf(row[k].status, row[k].code, photo, attempted, sent, key, holder))

CallShape(c) == call[c] = [pc |-> call[c].pc, snap |-> call[c].snap, code |-> call[c].code,
                           active |-> call[c].active]
RowShape(k) == row[k] = RowOf(row[k].status, row[k].code, row[k].photo, row[k].attempted,
                              row[k].sent, row[k].key, row[k].holder)

LEMMA Shapes ==
    ASSUME TypeInv
    PROVE  /\ \A c \in Calls : CallShape(c)
           /\ \A k \in Rows : RowShape(k)
<1>1. \A c \in Calls : CallShape(c)
  BY DEF TypeInv, Types, Call, Sweep, CallShape, Calls, Senders
<1>2. \A k \in Rows : RowShape(k)
  BY DEF TypeInv, Types, Row, RowShape, RowOf
<1> QED
  BY <1>1, <1>2

LEMMA GoIs ==
    ASSUME TypeInv, NEW c \in Calls, NEW pc, Go(c, pc)
    PROVE  To(c, pc)
<1>1. CallShape(c)
  BY Shapes
<1>2. call = [d \in Calls |-> call[d]]
  BY DEF TypeInv, Types
<1> QED
  BY <1>1, <1>2 DEF Go, To, CallTo, CallShape

LEMMA EndIs ==
    ASSUME TypeInv, NEW c \in Calls, End(c)
    PROVE  Ended(c)
<1>2. call = [d \in Calls |-> call[d]]
  BY DEF TypeInv, Types
<1> QED
  BY <1>2 DEF End, Ended, CallTo, Idle

LEMMA BreakIs ==
    ASSUME TypeInv, NEW c \in Calls, NEW code, Break(c, code)
    PROVE  Failed(c, code)
<1>1. CallShape(c)
  BY Shapes
<1>2. call = [d \in Calls |-> call[d]]
  BY DEF TypeInv, Types
<1> QED
  BY <1>1, <1>2 DEF Break, Failed, CallTo, CallShape

LEMMA PutRow ==
    ASSUME TypeInv, NEW k \in Rows, NEW r, row' = [row EXCEPT ![k] = r]
    PROVE  RowTo(k, r)
<1>1. row = [j \in Rows |-> row[j]]
  BY DEF TypeInv, Types
<1> QED
  BY <1>1 DEF RowTo

LEMMA TurnIs ==
    ASSUME TypeInv, NEW k \in Rows, NEW st, NEW co, NEW ho
    PROVE  Turn(row[k], st, co, ho) =
              RowOf(st, co, row[k].photo, row[k].attempted, row[k].sent, row[k].key, ho)
<1> DEFINE a == [row[k] EXCEPT !.status = st]
           b == [a EXCEPT !.code = co]
<1>1. RowShape(k)
  BY Shapes
<1>2. a = RowOf(st, row[k].code, row[k].photo, row[k].attempted, row[k].sent, row[k].key,
                row[k].holder)
  BY <1>1 DEF RowShape, RowOf
<1> HIDE DEF a
<1>3. b = RowOf(st, co, row[k].photo, row[k].attempted, row[k].sent, row[k].key, row[k].holder)
  BY <1>2 DEF RowOf
<1> HIDE DEF b
<1>4. [b EXCEPT !.holder = ho] =
         RowOf(st, co, row[k].photo, row[k].attempted, row[k].sent, row[k].key, ho)
  BY <1>3 DEF RowOf
<1> USE DEF a, b
<1> QED
  BY <1>4, Zenon DEF Turn

Rekeyed(r, c, f) == [r EXCEPT !.sent = f, !.attempted = f, !.key = c]

LEMMA RekeyIs ==
    ASSUME TypeInv, NEW k \in Rows, NEW c, NEW ho, NEW f
    PROVE  Rekeyed(Turn(row[k], "processing", None, ho), c, f) =
              RowOf("processing", None, row[k].photo, f, f, c, ho)
<1> DEFINE r == Turn(row[k], "processing", None, ho)
           a == [r EXCEPT !.sent = f]
           b == [a EXCEPT !.attempted = f]
<1>1. r = RowOf("processing", None, row[k].photo, row[k].attempted, row[k].sent, row[k].key, ho)
  BY TurnIs
<1> HIDE DEF r
<1>2. a = RowOf("processing", None, row[k].photo, row[k].attempted, f, row[k].key, ho)
  BY <1>1 DEF RowOf
<1> HIDE DEF a
<1>3. b = RowOf("processing", None, row[k].photo, f, f, row[k].key, ho)
  BY <1>2 DEF RowOf
<1> HIDE DEF b
<1>4. [b EXCEPT !.key = c] = RowOf("processing", None, row[k].photo, f, f, c, ho)
  BY <1>3 DEF RowOf
<1> USE DEF a, b, r
<1> QED
  BY <1>4, Zenon DEF Rekeyed

LEMMA ReissuedIs ==
    ASSUME TypeInv, NEW k \in Rows, NEW c, NEW ho
    PROVE  Reissued(row[k], c, ho) =
              RowOf("processing", None, row[k].photo, FALSE, FALSE, c, ho)
<1>1. Rekeyed(Turn(row[k], "processing", None, ho), c, FALSE) =
         RowOf("processing", None, row[k].photo, FALSE, FALSE, c, ho)
  BY RekeyIs
<1>2. Reissued(row[k], c, ho) = Rekeyed(Turn(row[k], "processing", None, ho), c, FALSE)
  BY Zenon DEF Reissued, Rekeyed
<1> QED
  BY <1>1, <1>2

LEMMA WriteIs ==
    ASSUME TypeInv, NEW k \in Rows, NEW r,
           NEW st, NEW co, NEW ph, NEW at, NEW se, NEW ke, NEW ho,
           r = RowOf(st, co, ph, at, se, ke, ho)
    PROVE  /\ row' = [row EXCEPT ![k] = r] => RowTo(k, RowOf(st, co, ph, at, se, ke, ho))
           /\ row' = [row EXCEPT ![k] = [r EXCEPT !.holder = None]]
                 => RowTo(k, RowOf(st, co, ph, at, se, ke, None))
<1>1. [r EXCEPT !.holder = None] = RowOf(st, co, ph, at, se, ke, None)
  BY DEF RowOf
<1> QED
  BY <1>1, PutRow

-----------------------------------------------------------------------------
(* What each action does, without EXCEPT. *)

QuietBatch == /\ UNCHANGED row /\ UNCHANGED <<member, image, stored, link, posts, late>>
QuietRow == /\ UNCHANGED batch /\ UNCHANGED <<member, image, stored, link, posts, late>>

ClaimDoes(c) ==
    /\ QuietBatch /\ call[c].pc = "off"
    /\ batch'.status = "processing" /\ batch' = [status |-> batch'.status, owner |-> batch'.owner]
    /\ \/ batch'.owner = c /\ (To(c, "read") \/ To(c, "requeueCheck"))
       \/ batch'.owner = None /\ Ended(c)

CheckLeaseDoes(c) ==
    /\ QuietBatch /\ UNCHANGED batch
    /\ \/ /\ batch.owner = c
          /\ \/ call[c].pc = "requeueCheck" /\ To(c, "requeue")
             \/ call[c].pc = "rowCheck" /\ To(c, "claim")
             \/ call[c].pc = "claimCheck" /\ To(c, "member")
             \/ call[c].pc = "cleanCheck" /\ To(c, "result")
       \/ To(c, "catch") /\ call[c].pc \in {"requeueCheck", "rowCheck", "claimCheck", "cleanCheck"}

RequeueRowsDoes(c) ==
    /\ QuietRow /\ call[c].pc = "requeue"
    /\ To(c, "read") \/ To(c, "catch")
    /\ row' = [k \in Rows |-> row'[k]]
    /\ \A k \in Rows :
          \/ row'[k] = row[k]
          \/ /\ row[k].status = "processing"
             /\ row'[k] = RowOf("staged", None, row[k].photo, row[k].attempted, row[k].sent,
                                row[k].key, None)
    /\ To(c, "read") => \A k \in Rows : row'[k].status # "processing"

Read(k) == IF Retryable(row[k]) THEN Seen(row[k]) ELSE None
ReadRowsDoes(c) ==
    /\ QuietBatch /\ UNCHANGED batch /\ call[c].pc = "read"
    /\ \/ \E p \in {"cleanCheck", "rowCheck"} :
             /\ CallTo(c, p, [k \in Rows |-> Read(k)], call[c].code, call[c].active)
             /\ p = "rowCheck" => \E k \in Rows : Read(k) # None
       \/ To(c, "catch")

RefreshDoes(c) ==
    /\ QuietBatch /\ call[c].pc = "refresh"
    /\ \/ \E p \in {"cleanCheck", "rowCheck"}, snap \in [Rows -> Snap \cup {None}] :
             /\ UNCHANGED batch /\ batch.owner = c
             /\ CallTo(c, p, snap, call[c].code, call[c].active)
             /\ snap[Current(c)] = None
             /\ \A k \in Rows : k # Current(c) => snap[k] = call[c].snap[k]
             /\ p = "rowCheck" => \E k \in Rows : snap[k] # None
       \/ /\ batch.owner = c /\ batch'.owner = None /\ batch'.status = batch.status
          /\ batch' = [status |-> batch'.status, owner |-> batch'.owner] /\ To(c, "catch")
       \/ UNCHANGED batch /\ To(c, "catch")

(* The steps of the call that only look, and those that let the batch go.  *)
ReleaseDoes(c) ==
    /\ QuietBatch
    /\ \/ UNCHANGED batch
       \/ /\ batch.owner = c /\ batch'.owner = None
          /\ batch'.status \in {"ready", "completed", "expired"}
          /\ batch' = [status |-> batch'.status, owner |-> batch'.owner]
    /\ \/ Ended(c)
       \/ call[c].pc = "result" /\ (To(c, "reopen") \/ To(c, "finish") \/ To(c, "catch"))
       \/ call[c].pc \in {"reopen", "finish"} /\ To(c, "catch")
       \/ call[c].pc = "catch" /\ call[c].active /\ To(c, "restage")
       \/ call[c].pc = "catch" /\ ~call[c].active /\ To(c, "release")

RequeueActiveRowDoes(c) ==
    LET k == Current(c) IN
    /\ QuietRow /\ call[c].pc = "restage"
    /\ \/ /\ row[k].holder = c /\ Turned(k, "staged", None, None)
          /\ To(c, "release") \/ Ended(c)
       \/ UNCHANGED row /\ Ended(c)

ClaimRowDoes(c) ==
    LET k == Current(c) IN
    /\ QuietRow /\ call[c].pc = "claim"
    /\ \/ /\ row[k].status \in {"staged", "failed"} /\ Turned(k, "processing", None, c)
          /\ CallTo(c, "claimCheck", call[c].snap, call[c].code, TRUE)
       \/ /\ \/ UNCHANGED row
             \/ row[k].status \in {"staged", "failed"} /\ Turned(k, "processing", None, None)
          /\ CallTo(c, "catch", call[c].snap, call[c].code, FALSE)

DeliverDoes(c) ==
    LET s == call[c].snap[Current(c)] IN
    \/ s.attempted /\ ~s.sent /\ Failed(c, "unknown")
    \/ s.sent /\ To(c, "create")
    \/ ~s.attempted /\ ~s.sent /\ s.key = None /\ To(c, "intent")
    \/ ~s.attempted /\ ~s.sent /\ s.key # None /\ To(c, "mint")

Unheld(k) == Noted(k, row[k].photo, row[k].attempted, row[k].sent, row[k].key, None)

AddMemberDoes(c) ==
    LET k == Current(c)
        Onward == \/ k \in Pictured /\ To(c, "photo")
                  \/ (k \in Pictured => call[c].snap[k].photo) /\ DeliverDoes(c)
    IN
    /\ UNCHANGED batch /\ UNCHANGED <<image, stored, link, posts, late>>
    /\ call[c].pc = "member"
    /\ \/ row[k].holder = c /\ member[k] # "none" /\ Onward /\ UNCHANGED <<member, row>>
       \/ /\ row[k].holder = c /\ member[k] = "none"
          /\ member' = [member EXCEPT ![k] = "waiting"]
          /\ \/ Onward /\ UNCHANGED row
             \/ Failed(c, "retry") /\ Unheld(k)
       \/ /\ row[k].holder = c /\ member[k] = "none" /\ Failed(c, "exists")
          /\ UNCHANGED <<member, row>>
       \/ Failed(c, "retry") /\ UNCHANGED <<member, row>>

AttachPhotoDoes(c) ==
    /\ UNCHANGED <<batch, row>> /\ UNCHANGED <<member, stored, link, posts, late>>
    /\ call[c].pc = "photo"
    /\ \/ /\ image' = [image EXCEPT ![Current(c)] = TRUE]
          /\ To(c, "photoMark") \/ Failed(c, "retry")
       \/ UNCHANGED image /\ Failed(c, "retry")

MarkPhotoDoes(c) ==
    LET k == Current(c) IN
    /\ QuietRow /\ call[c].pc = "photoMark"
    /\ \/ /\ row[k].holder = c /\ DeliverDoes(c)
          /\ Noted(k, TRUE, row[k].attempted, row[k].sent, row[k].key, c)
       \/ /\ row[k].holder = c /\ Failed(c, "retry")
          /\ Noted(k, TRUE, row[k].attempted, row[k].sent, row[k].key, None)
       \/ Failed(c, "retry") /\ UNCHANGED row

IntendDoes(c) ==
    LET k == Current(c) IN
    /\ QuietRow /\ call[c].pc = "intent"
    /\ \/ /\ row[k].holder = c /\ To(c, "mint")
          /\ Noted(k, row[k].photo, row[k].attempted, row[k].sent, Import, c)
       \/ /\ row[k].holder = c /\ Failed(c, "retry")
          /\ Noted(k, row[k].photo, row[k].attempted, row[k].sent, Import, None)
       \/ Failed(c, "retry") /\ UNCHANGED row

MintLinkDoes(c) ==
    LET k == Current(c) IN
    /\ UNCHANGED <<batch, row>> /\ UNCHANGED <<member, image, stored, posts, late>>
    /\ call[c].pc = "mint"
    /\ \/ /\ link[k] = Import \/ (link[k] = None /\ member[k] = "waiting")
          /\ link' = [link EXCEPT ![k] = Import]
          /\ To(c, "attempt") \/ Failed(c, "retry")
       \/ UNCHANGED link /\ Failed(c, "retry")

AttemptDoes(c) ==
    LET k == Current(c)
        Lost == \/ c \in Reissues /\ Failed(c, "unknown")
                \/ c \in Commits /\ Failed(c, "retry")
    IN
    /\ QuietRow /\ call[c].pc = "attempt"
    /\ \/ /\ row[k].holder = c /\ To(c, "send")
          /\ Noted(k, row[k].photo, TRUE, row[k].sent, KeyOf(c), c)
       \/ /\ row[k].holder = c /\ Lost
          /\ Noted(k, row[k].photo, TRUE, row[k].sent, KeyOf(c), None)
       \/ Lost /\ UNCHANGED row

SendDoes(c) ==
    LET k == Current(c) IN
    /\ UNCHANGED <<batch, row>> /\ UNCHANGED <<member, image, stored, link, late>>
    /\ call[c].pc = "send"
    /\ \/ /\ posts' = [posts EXCEPT ![k] = posts[k] \cup {Message(c)}]
          /\ To(c, "sent") \/ Failed(c, "unknown")
       \/ UNCHANGED posts /\ Failed(c, "unknown")

SentDoes(c) ==
    LET k == Current(c) IN
    /\ QuietRow /\ call[c].pc = "sent"
    /\ \/ /\ row[k].holder = c /\ To(c, "create")
          /\ Noted(k, row[k].photo, row[k].attempted, TRUE, row[k].key, c)
       \/ /\ row[k].holder = c /\ Failed(c, "unknown")
          /\ Noted(k, row[k].photo, row[k].attempted, TRUE, row[k].key, None)
       \/ Failed(c, "unknown") /\ UNCHANGED row

CreateDoes(c) ==
    LET k == Current(c) IN
    /\ QuietRow /\ call[c].pc = "create"
    /\ \/ /\ row[k].holder = c /\ Turned(k, "created", None, None)
          /\ \/ c \in Reissues /\ To(c, "remove")
             \/ c \in Commits /\ CallTo(c, "refresh", call[c].snap, call[c].code, FALSE)
             \/ c \in Reissues /\ Failed(c, "unknown")
             \/ c \in Commits /\ Failed(c, "retry")
       \/ /\ UNCHANGED row
          /\ \/ c \in Reissues /\ Failed(c, "unknown")
             \/ c \in Commits /\ Failed(c, "retry")

FailDoes(c) ==
    LET k == Current(c) IN
    /\ QuietRow /\ call[c].pc = "fail"
    /\ \/ /\ row[k].holder = c /\ Turned(k, "failed", call[c].code, None)
          /\ \/ c \in Reissues /\ Ended(c)
             \/ c \in Commits /\ CallTo(c, "refresh", call[c].snap, call[c].code, FALSE)
             \/ c \in Commits /\ To(c, "catch")
       \/ /\ UNCHANGED row
          /\ \/ c \in Reissues /\ Ended(c)
             \/ c \in Commits /\ To(c, "catch")

ClaimReissueDoes(c, k) ==
    /\ QuietRow /\ call[c].pc = "off"
    /\ row[k].status = "failed" /\ row[k].code = "unknown"
    /\ member[k] # "none" /\ row[k].key # None
    /\ \/ /\ RowTo(k, RowOf("processing", None, row[k].photo, FALSE, FALSE, c, c))
          /\ CallTo(c, "issue", [call[c].snap EXCEPT ![k] = Seen(row[k])], call[c].code,
                    call[c].active)
       \/ /\ RowTo(k, RowOf("processing", None, row[k].photo, FALSE, FALSE, c, None))
          /\ Ended(c)

IssueDoes(c) ==
    LET k == Current(c) IN
    /\ UNCHANGED <<batch, row>> /\ UNCHANGED <<member, image, stored, posts, late>>
    /\ call[c].pc = "issue"
    /\ \/ /\ member[k] = "waiting" /\ link' = [link EXCEPT ![k] = c]
          /\ To(c, "attempt") \/ Failed(c, "unknown")
       \/ UNCHANGED link /\ Failed(c, "unknown")

RemoveStagingDoes(c) ==
    /\ UNCHANGED <<batch, row>> /\ UNCHANGED <<member, image, link, posts, late>>
    /\ call[c].pc = "remove" /\ Ended(c) /\ stored' \in [Rows -> BOOLEAN]

ReclaimDoes(k) ==
    /\ QuietRow /\ UNCHANGED call
    /\ row[k].status = "processing" /\ row[k].key \in Reissues
    /\ Turned(k, "failed", "unknown", None)

(* Of a cron the rest of the system sees lost versions and a closed batch. *)
CronDoes(c) ==
    /\ UNCHANGED <<member, image, link, posts, late>> /\ stored' \in [Rows -> BOOLEAN]
    /\ call' = [d \in Calls |-> call'[d]] /\ \A d \in Calls : d # c => call'[d] = call[d]
    /\ call'[c] \in Sweep
    /\ UNCHANGED row \/ \E k \in Rows : Unheld(k)
    /\ \/ UNCHANGED batch
       \/ /\ batch'.status = "expired" /\ batch'.owner = None
          /\ batch' = [status |-> batch'.status, owner |-> batch'.owner]

-----------------------------------------------------------------------------
LEMMA CommitHand ==
    ASSUME TypeInv, NEW c \in Commits, call[c].pc \in HandSteps
    PROVE  /\ Current(c) \in Rows /\ Has(c, Current(c)) /\ call[c].snap[Current(c)] \in Snap
           /\ c \in Calls /\ c \in Senders
  BY InHand DEF TypeInv, CommitsInHand, Senders, Calls

LEMMA ReissueHand ==
    ASSUME TypeInv, NEW c \in Reissues, call[c].pc \in ReissueSteps
    PROVE  /\ Current(c) \in Rows /\ Has(c, Current(c)) /\ call[c].snap[Current(c)] \in Snap
           /\ c \in Calls /\ c \in Senders
  BY InHand DEF TypeInv, ReissuesInHand, Senders, Calls

LEMMA ClaimIs ==
    ASSUME TypeInv, NEW c \in Commits, Claim(c)
    PROVE  ClaimDoes(c)
<1>1. \A pc : Go(c, pc) => To(c, pc)
  BY GoIs DEF Calls
<1>2. End(c) => Ended(c)
  BY EndIs DEF Calls
<1> QED
  BY <1>1, <1>2 DEF Claim, ClaimDoes, QuietBatch, people, At

LEMMA CheckLeaseIs ==
    ASSUME TypeInv, NEW c \in Commits, CheckLease(c)
    PROVE  CheckLeaseDoes(c)
<1>1. \A pc : Go(c, pc) => To(c, pc)
  BY GoIs DEF Calls
<1> QED
  BY <1>1 DEF CheckLease, CheckLeaseDoes, QuietBatch, people, Checked

LEMMA RequeueRowsIs ==
    ASSUME TypeInv, NEW c \in Commits, RequeueRows(c)
    PROVE  RequeueRowsDoes(c)
<1>1. \A pc : Go(c, pc) => To(c, pc)
  BY GoIs DEF Calls
<1> DEFINE new(k) == Turn(row[k], "staged", None, None)
           all == [k \in Rows |-> IF row[k].status = "processing" THEN new(k) ELSE row[k]]
<1>2. /\ QuietRow /\ call[c].pc = "requeue"
      /\ \/ row' = all /\ (Go(c, "read") \/ Go(c, "catch"))
         \/ UNCHANGED row /\ Go(c, "catch")
  BY DEF RequeueRows, QuietRow, people, At
<1>3. \A k \in Rows : new(k) =
         RowOf("staged", None, row[k].photo, row[k].attempted, row[k].sent, row[k].key, None)
  BY TurnIs
<1>4. row = [k \in Rows |-> row[k]]
  BY DEF TypeInv, Types
<1> HIDE DEF new
<1>5. /\ all = [k \in Rows |-> all[k]]
      /\ \A k \in Rows : all[k] = IF row[k].status = "processing" THEN new(k) ELSE row[k]
  OBVIOUS
<1> HIDE DEF all
<1>6. ASSUME To(c, "read"), To(c, "catch") PROVE FALSE
  BY <1>6 DEF To, CallTo
<1>7. CASE row' = all
  <2>1. \A k \in Rows : row'[k].status # "processing"
    BY <1>3, <1>5, <1>7 DEF RowOf
  <2> QED
    BY <1>1, <1>2, <1>3, <1>5, <1>7, <2>1 DEF RequeueRowsDoes
<1>8. CASE UNCHANGED row /\ Go(c, "catch")
  BY <1>1, <1>2, <1>4, <1>6, <1>8 DEF RequeueRowsDoes
<1> QED
  BY <1>2, <1>7, <1>8

LEMMA ReadRowsIs ==
    ASSUME TypeInv, NEW c \in Commits, ReadRows(c)
    PROVE  ReadRowsDoes(c)
<1>1. \A pc : Go(c, pc) => To(c, pc)
  BY GoIs DEF Calls
<1> DEFINE snap == [k \in Rows |-> Read(k)]
           p == IF snap = Nothing THEN "cleanCheck" ELSE "rowCheck"
<1>2. p = "rowCheck" => \E k \in Rows : Read(k) # None
  BY DEF Nothing
<1>3. call' = [call EXCEPT ![c].snap = snap, ![c].pc = p] \/ Go(c, "catch")
  BY DEF ReadRows, Read
<1>4. CallShape(c) /\ c \in Calls
  BY Shapes DEF Calls
<1>5. call = [d \in Calls |-> call[d]]
  BY DEF TypeInv, Types
<1>6. p \in {"cleanCheck", "rowCheck"}
  OBVIOUS
<1>7. QuietBatch /\ UNCHANGED batch /\ call[c].pc = "read"
  BY DEF ReadRows, QuietBatch, people, At
<1> HIDE DEF snap, p
<1>8. call' = [call EXCEPT ![c].snap = snap, ![c].pc = p]
         => CallTo(c, p, snap, call[c].code, call[c].active)
  BY <1>4, <1>5 DEF CallTo, CallShape
<1> QED
  BY <1>1, <1>2, <1>3, <1>6, <1>7, <1>8 DEF ReadRowsDoes, snap

LEMMA RefreshIs ==
    ASSUME TypeInv, NEW c \in Commits, Refresh(c)
    PROVE  RefreshDoes(c)
<1>1. \A pc : Go(c, pc) => To(c, pc)
  BY GoIs DEF Calls
<1> DEFINE k == Current(c)
           snap == [call[c].snap EXCEPT ![k] = None]
           p == IF snap = Nothing THEN "cleanCheck" ELSE "rowCheck"
<1>2. /\ QuietBatch /\ call[c].pc = "refresh"
      /\ \/ /\ batch.owner = c /\ UNCHANGED batch
            /\ call' = [call EXCEPT ![c].snap = snap, ![c].pc = p]
         \/ batch.owner = c /\ batch' = [batch EXCEPT !.owner = None] /\ Go(c, "catch")
         \/ UNCHANGED batch /\ Go(c, "catch")
  BY DEF Refresh, QuietBatch, people, At
<1>3. k \in Rows /\ call[c].snap \in [Rows -> Snap \cup {None}]
  BY <1>2, CommitHand DEF HandSteps, TypeInv, Types, Call, Senders
<1>4. /\ snap \in [Rows -> Snap \cup {None}] /\ snap[k] = None
      /\ \A j \in Rows : j # k => snap[j] = call[c].snap[j]
  BY <1>3
<1>5. p = "rowCheck" => \E j \in Rows : snap[j] # None
  BY <1>4 DEF Nothing
<1>6. p \in {"cleanCheck", "rowCheck"}
  OBVIOUS
<1>7. CallShape(c) /\ c \in Calls
  BY Shapes DEF Calls
<1>8. call = [d \in Calls |-> call[d]]
  BY DEF TypeInv, Types
<1> HIDE DEF snap, p
<1>9. call' = [call EXCEPT ![c].snap = snap, ![c].pc = p]
         => CallTo(c, p, snap, call[c].code, call[c].active)
  BY <1>7, <1>8 DEF CallTo, CallShape
<1>10. batch' = [batch EXCEPT !.owner = None]
          => /\ batch'.owner = None /\ batch'.status = batch.status
             /\ batch' = [status |-> batch'.status, owner |-> batch'.owner]
  BY DEF TypeInv, Types
<1> QED
  BY <1>1, <1>2, <1>4, <1>5, <1>6, <1>9, <1>10 DEF RefreshDoes

LEMMA ReleaseIs ==
    ASSUME TypeInv, NEW c \in Commits,
           ReadResults(c) \/ CloseBatch(c) \/ Catch(c) \/ Release(c)
    PROVE  ReleaseDoes(c)
<1>1. \A pc : Go(c, pc) => To(c, pc)
  BY GoIs DEF Calls
<1>2. End(c) => Ended(c)
  BY EndIs DEF Calls
<1>3. CASE ReadResults(c)
  BY <1>1, <1>3 DEF ReadResults, ReleaseDoes, QuietBatch, people, At
<1>4. CASE CloseBatch(c)
  BY <1>1, <1>2, <1>4 DEF CloseBatch, ReleaseDoes, QuietBatch, people, At
<1>5. CASE Catch(c)
  BY <1>1, <1>2, <1>5 DEF Catch, ReleaseDoes, QuietBatch, people, At
<1>6. CASE Release(c)
  BY <1>1, <1>2, <1>6 DEF Release, ReleaseDoes, QuietBatch, people, At
<1> QED
  BY <1>3, <1>4, <1>5, <1>6

LEMMA RequeueActiveRowIs ==
    ASSUME TypeInv, NEW c \in Commits, RequeueActiveRow(c)
    PROVE  RequeueActiveRowDoes(c)
<1> DEFINE k == Current(c)
           r == Turn(row[k], "staged", None, None)
<1>1. QuietRow /\ call[c].pc = "restage" /\ Write(c, k, r, Go(c, "release"), End(c))
  BY DEF RequeueActiveRow, QuietRow, people, At
<1>2. k \in Rows
  BY <1>1, CommitHand DEF HandSteps
<1>3. (Go(c, "release") => To(c, "release")) /\ (End(c) => Ended(c))
  BY GoIs, EndIs DEF Calls
<1>4. r = RowOf("staged", None, row[k].photo, row[k].attempted, row[k].sent, row[k].key, None)
  BY <1>2, TurnIs
<1> HIDE DEF r
<1>5. /\ row' = [row EXCEPT ![k] = r] => Turned(k, "staged", None, None)
      /\ row' = [row EXCEPT ![k] = [r EXCEPT !.holder = None]] => Turned(k, "staged", None, None)
  BY <1>2, <1>4, WriteIs DEF Turned
<1> QED
  BY <1>1, <1>3, <1>5 DEF Write, RequeueActiveRowDoes

LEMMA ClaimRowIs ==
    ASSUME TypeInv, NEW c \in Commits, ClaimRow(c)
    PROVE  ClaimRowDoes(c)
<1> DEFINE k == Current(c)
           r(h) == Turn(row[k], "processing", None, h)
           Taken(h) == row[k].status \in {"staged", "failed"} /\ row' = [row EXCEPT ![k] = r(h)]
           To1(p, a) == call' = [call EXCEPT ![c].pc = p, ![c].active = a]
<1>1. /\ QuietRow /\ call[c].pc = "claim"
      /\ \/ Taken(c) /\ To1("claimCheck", TRUE)
         \/ (Taken(None) \/ UNCHANGED row) /\ To1("catch", FALSE)
  BY DEF ClaimRow, QuietRow, people, At
<1>2. k \in Rows
  BY <1>1, CommitHand DEF HandSteps, EarlySteps
<1>3. CallShape(c) /\ c \in Calls /\ call = [d \in Calls |-> call[d]]
  BY Shapes DEF Calls, TypeInv, Types
<1>4. \A p, a : To1(p, a) => CallTo(c, p, call[c].snap, call[c].code, a)
  BY <1>3 DEF CallTo, CallShape
<1>5. \A h : r(h) = RowOf("processing", None, row[k].photo, row[k].attempted, row[k].sent,
                          row[k].key, h)
  BY <1>2, TurnIs
<1> HIDE DEF r, To1
<1>6. \A h : row' = [row EXCEPT ![k] = r(h)] => Turned(k, "processing", None, h)
  <2> TAKE h
  <2>1. row' = [row EXCEPT ![k] = r(h)] => RowTo(k, r(h))
    BY <1>2, PutRow
  <2> QED
    BY <2>1, <1>5 DEF Turned
<1> QED
  BY <1>1, <1>4, <1>6 DEF ClaimRowDoes

LEMMA DeliverIs ==
    ASSUME TypeInv, NEW c \in Commits, Current(c) \in Rows,
           call[c].snap[Current(c)] \in Snap, Deliver(c)
    PROVE  DeliverDoes(c)
<1> DEFINE s == call[c].snap[Current(c)]
<1>1. (\A pc : Go(c, pc) => To(c, pc)) /\ \A code : Break(c, code) => Failed(c, code)
  BY GoIs, BreakIs DEF Calls
<1>2. CASE s.attempted /\ ~s.sent
  BY <1>1, <1>2 DEF Deliver, DeliverDoes
<1>3. CASE s.sent
  BY <1>1, <1>3 DEF Deliver, DeliverDoes
<1>4. CASE ~s.attempted /\ ~s.sent
  BY <1>1, <1>4 DEF Deliver, DeliverDoes
<1> QED
  BY <1>2, <1>3, <1>4 DEF Snap

LEMMA AddMemberIs ==
    ASSUME TypeInv, NEW c \in Commits, AddMember(c)
    PROVE  AddMemberDoes(c)
<1> DEFINE k == Current(c)
           mine == row[k].holder = c
           Onward == IF k \in Pictured /\ ~call[c].snap[k].photo THEN Go(c, "photo") ELSE Deliver(c)
           Onwards == \/ k \in Pictured /\ To(c, "photo")
                      \/ (k \in Pictured => call[c].snap[k].photo) /\ DeliverDoes(c)
           r == [row[k] EXCEPT !.holder = None]
<1>1. /\ UNCHANGED batch /\ UNCHANGED <<image, stored, link, posts, late>>
      /\ call[c].pc = "member"
      /\ \/ mine /\ member[k] # "none" /\ Onward /\ UNCHANGED <<member, row>>
         \/ /\ mine /\ member[k] = "none" /\ member' = [member EXCEPT ![k] = "waiting"]
            /\ \/ Onward /\ UNCHANGED row
               \/ Break(c, "retry") /\ row' = [row EXCEPT ![k] = r]
         \/ mine /\ member[k] = "none" /\ Break(c, "exists") /\ UNCHANGED <<member, row>>
         \/ Break(c, "retry") /\ UNCHANGED <<member, row>>
  BY DEF AddMember, At
<1>2. k \in Rows /\ call[c].snap[k] \in Snap
  BY <1>1, CommitHand DEF HandSteps, PhotoSteps
<1>3. (\A pc : Go(c, pc) => To(c, pc)) /\ \A code : Break(c, code) => Failed(c, code)
  BY GoIs, BreakIs DEF Calls
<1>4. Onward => Onwards
  BY <1>2, <1>3, DeliverIs
<1>5. r = RowOf(row[k].status, row[k].code, row[k].photo, row[k].attempted, row[k].sent,
                row[k].key, None)
  <2>1. RowShape(k)
    BY <1>2, Shapes
  <2> QED
    BY <2>1 DEF RowShape, RowOf
<1> HIDE DEF r
<1>6. row' = [row EXCEPT ![k] = r] => Unheld(k)
  BY <1>2, <1>5, PutRow DEF Unheld, Noted
<1> HIDE DEF Onward
<1>7. CASE mine /\ member[k] # "none" /\ Onward /\ UNCHANGED <<member, row>>
  BY <1>1, <1>4, <1>7 DEF AddMemberDoes
<1>8. CASE /\ mine /\ member[k] = "none" /\ member' = [member EXCEPT ![k] = "waiting"]
           /\ Onward /\ UNCHANGED row
  BY <1>1, <1>4, <1>8 DEF AddMemberDoes
<1>9. CASE /\ mine /\ member[k] = "none" /\ member' = [member EXCEPT ![k] = "waiting"]
           /\ Break(c, "retry") /\ row' = [row EXCEPT ![k] = r]
  BY <1>1, <1>3, <1>6, <1>9 DEF AddMemberDoes
<1>10. CASE mine /\ member[k] = "none" /\ Break(c, "exists") /\ UNCHANGED <<member, row>>
  BY <1>1, <1>3, <1>10 DEF AddMemberDoes
<1>11. CASE Break(c, "retry") /\ UNCHANGED <<member, row>>
  BY <1>1, <1>3, <1>11 DEF AddMemberDoes
<1> QED
  BY <1>1, <1>7, <1>8, <1>9, <1>10, <1>11

LEMMA AttachPhotoIs ==
    ASSUME TypeInv, NEW c \in Commits, AttachPendingPhoto(c)
    PROVE  AttachPhotoDoes(c)
<1>1. (\A pc : Go(c, pc) => To(c, pc)) /\ \A code : Break(c, code) => Failed(c, code)
  BY GoIs, BreakIs DEF Calls
<1> QED
  BY <1>1 DEF AttachPendingPhoto, AttachPhotoDoes, At

LEMMA MintLinkIs ==
    ASSUME TypeInv, NEW c \in Commits, MintLink(c)
    PROVE  MintLinkDoes(c)
<1>1. (\A pc : Go(c, pc) => To(c, pc)) /\ \A code : Break(c, code) => Failed(c, code)
  BY GoIs, BreakIs DEF Calls
<1> QED
  BY <1>1 DEF MintLink, MintLinkDoes, At

LEMMA IssueIs ==
    ASSUME TypeInv, NEW c \in Reissues, Issue(c)
    PROVE  IssueDoes(c)
<1>1. (\A pc : Go(c, pc) => To(c, pc)) /\ \A code : Break(c, code) => Failed(c, code)
  BY GoIs, BreakIs DEF Calls
<1> QED
  BY <1>1 DEF Issue, IssueDoes, At

LEMMA SendIs ==
    ASSUME TypeInv, NEW c \in Senders, Send(c)
    PROVE  SendDoes(c)
<1>1. (\A pc : Go(c, pc) => To(c, pc)) /\ \A code : Break(c, code) => Failed(c, code)
  BY GoIs, BreakIs DEF Calls, Senders
<1> QED
  BY <1>1 DEF Send, SendDoes, At

LEMMA RemoveStagingIs ==
    ASSUME TypeInv, NEW c \in Reissues, RemoveStaging(c)
    PROVE  RemoveStagingDoes(c)
<1>1. End(c) => Ended(c)
  BY EndIs DEF Calls
<1>2. stored' \in [Rows -> BOOLEAN]
  BY DEF RemoveStaging, TypeInv, Types
<1> QED
  BY <1>1, <1>2 DEF RemoveStaging, RemoveStagingDoes, At

LEMMA ReclaimIs ==
    ASSUME TypeInv, NEW k \in Rows, Reclaim(k)
    PROVE  ReclaimDoes(k)
<1> DEFINE r == Turn(row[k], "failed", "unknown", None)
<1>1. /\ QuietRow /\ UNCHANGED call /\ row' = [row EXCEPT ![k] = r]
      /\ row[k].status = "processing" /\ row[k].key \in Reissues
  BY DEF Reclaim, QuietRow, people
<1>2. r = RowOf("failed", "unknown", row[k].photo, row[k].attempted, row[k].sent, row[k].key, None)
  BY TurnIs
<1> HIDE DEF r
<1> QED
  BY <1>1, <1>2, PutRow DEF ReclaimDoes, Turned

LEMMA ClaimReissueIs ==
    ASSUME TypeInv, NEW c \in Reissues, NEW k \in Rows, ClaimReissue(c, k)
    PROVE  ClaimReissueDoes(c, k)
<1> DEFINE r(h) == Reissued(row[k], c, h)
           snap == [call[c].snap EXCEPT ![k] = Seen(row[k])]
           To1 == call' = [call EXCEPT ![c].pc = "issue", ![c].snap[k] = Seen(row[k])]
<1>1. /\ QuietRow /\ call[c].pc = "off"
      /\ row[k].status = "failed" /\ row[k].code = "unknown"
      /\ member[k] # "none" /\ row[k].key # None
      /\ \/ row' = [row EXCEPT ![k] = r(c)] /\ To1
         \/ row' = [row EXCEPT ![k] = r(None)] /\ End(c)
  BY DEF ClaimReissue, QuietRow, people, At
<1>2. \A h : r(h) = RowOf("processing", None, row[k].photo, FALSE, FALSE, c, h)
  BY ReissuedIs
<1>3. CallShape(c) /\ c \in Calls /\ call = [d \in Calls |-> call[d]]
  BY Shapes DEF Calls, TypeInv, Types
<1>4. To1 => CallTo(c, "issue", snap, call[c].code, call[c].active)
  BY <1>3 DEF CallTo, CallShape
<1>5. End(c) => Ended(c)
  BY <1>3, EndIs
<1> HIDE DEF r, To1
<1>6. \A h : row' = [row EXCEPT ![k] = r(h)]
               => RowTo(k, RowOf("processing", None, row[k].photo, FALSE, FALSE, c, h))
  <2> TAKE h
  <2>1. row' = [row EXCEPT ![k] = r(h)] => RowTo(k, r(h))
    BY PutRow
  <2> QED
    BY <2>1, <1>2
<1> QED
  BY <1>1, <1>4, <1>5, <1>6 DEF ClaimReissueDoes

LEMMA SenderHand ==
    ASSUME TypeInv, NEW c \in Senders,
           call[c].pc \in {"attempt", "send", "sent", "create", "fail"}
    PROVE  /\ Current(c) \in Rows /\ Has(c, Current(c)) /\ call[c].snap[Current(c)] \in Snap
           /\ c \in Calls
  BY CommitHand, ReissueHand DEF Senders, HandSteps, MintSteps, SendSteps, ReissueSteps

WithPhoto(r, f) == [r EXCEPT !.photo = f]
WithAttempt(r, f, key) == [r EXCEPT !.attempted = f, !.key = key]
WithSent(r, f) == [r EXCEPT !.sent = f]

LEMMA WithIs ==
    ASSUME TypeInv, NEW k \in Rows, NEW f, NEW key
    PROVE  /\ WithPhoto(row[k], f) = RowOf(row[k].status, row[k].code, f, row[k].attempted,
                                          row[k].sent, row[k].key, row[k].holder)
           /\ WithAttempt(row[k], f, key) = RowOf(row[k].status, row[k].code, row[k].photo, f,
                                                 row[k].sent, key, row[k].holder)
           /\ WithSent(row[k], f) = RowOf(row[k].status, row[k].code, row[k].photo,
                                         row[k].attempted, f, row[k].key, row[k].holder)
<1>1. RowShape(k)
  BY Shapes
<1> DEFINE a == [row[k] EXCEPT !.attempted = f]
<1>2. a = RowOf(row[k].status, row[k].code, row[k].photo, f, row[k].sent, row[k].key,
                row[k].holder)
  BY <1>1 DEF RowShape, RowOf
<1> HIDE DEF a
<1>3. [a EXCEPT !.key = key] = RowOf(row[k].status, row[k].code, row[k].photo, f, row[k].sent,
                                     key, row[k].holder)
  BY <1>2 DEF RowOf
<1> USE DEF a
<1>4. WithAttempt(row[k], f, key) = [a EXCEPT !.key = key]
  BY Zenon DEF WithAttempt
<1>5. WithPhoto(row[k], f) = RowOf(row[k].status, row[k].code, f, row[k].attempted, row[k].sent,
                                   row[k].key, row[k].holder)
  BY <1>1 DEF RowShape, RowOf, WithPhoto
<1>6. WithSent(row[k], f) = RowOf(row[k].status, row[k].code, row[k].photo, row[k].attempted, f,
                                  row[k].key, row[k].holder)
  BY <1>1 DEF RowShape, RowOf, WithSent
<1> HIDE DEF a
<1> QED
  BY <1>3, <1>4, <1>5, <1>6

LEMMA MarkPhotoIs ==
    ASSUME TypeInv, NEW c \in Commits, MarkPhoto(c)
    PROVE  MarkPhotoDoes(c)
<1> DEFINE k == Current(c)
           r == WithPhoto(row[k], TRUE)
<1>1. QuietRow /\ call[c].pc = "photoMark" /\ Write(c, k, r, Deliver(c), Break(c, "retry"))
  BY Zenon DEF WithPhoto, MarkPhoto, QuietRow, people, At
<1>2. k \in Rows /\ call[c].snap[k] \in Snap
  BY <1>1, CommitHand DEF HandSteps, PhotoSteps
<1>3. (Deliver(c) => DeliverDoes(c)) /\ (Break(c, "retry") => Failed(c, "retry"))
  BY <1>2, DeliverIs, BreakIs DEF Calls
<1>4. r = RowOf(row[k].status, row[k].code, TRUE, row[k].attempted, row[k].sent,
                row[k].key, row[k].holder)
  BY <1>2, WithIs
<1> HIDE DEF r
<1>5. /\ row' = [row EXCEPT ![k] = r]
            => Noted(k, TRUE, row[k].attempted, row[k].sent, row[k].key, row[k].holder)
      /\ row' = [row EXCEPT ![k] = [r EXCEPT !.holder = None]]
            => Noted(k, TRUE, row[k].attempted, row[k].sent, row[k].key, None)
  BY <1>2, <1>4, WriteIs DEF Noted
<1> QED
  BY <1>1, <1>3, <1>5 DEF Write, MarkPhotoDoes

LEMMA IntendIs ==
    ASSUME TypeInv, NEW c \in Commits, Intend(c)
    PROVE  IntendDoes(c)
<1> DEFINE k == Current(c)
           r == [row[k] EXCEPT !.key = Import]
<1>1. QuietRow /\ call[c].pc = "intent" /\ Write(c, k, r, Go(c, "mint"), Break(c, "retry"))
  BY DEF Intend, QuietRow, people, At
<1>2. k \in Rows
  BY <1>1, CommitHand DEF HandSteps, MintSteps
<1>3. (Go(c, "mint") => To(c, "mint")) /\ (Break(c, "retry") => Failed(c, "retry"))
  BY GoIs, BreakIs DEF Calls
<1>4. r = RowOf(row[k].status, row[k].code, row[k].photo, row[k].attempted, row[k].sent,
                Import, row[k].holder)
  <2>1. RowShape(k)
    BY <1>2, Shapes
  <2> QED
    BY <2>1 DEF RowShape, RowOf
<1> HIDE DEF r
<1>5. /\ row' = [row EXCEPT ![k] = r]
            => Noted(k, row[k].photo, row[k].attempted, row[k].sent, Import, row[k].holder)
      /\ row' = [row EXCEPT ![k] = [r EXCEPT !.holder = None]]
            => Noted(k, row[k].photo, row[k].attempted, row[k].sent, Import, None)
  BY <1>2, <1>4, WriteIs DEF Noted
<1> QED
  BY <1>1, <1>3, <1>5 DEF Write, IntendDoes

LEMMA AttemptIs ==
    ASSUME TypeInv, NEW c \in Senders, Attempt(c)
    PROVE  AttemptDoes(c)
<1> DEFINE k == Current(c)
           r == WithAttempt(row[k], TRUE, KeyOf(c))
           code == IF c \in Reissues THEN "unknown" ELSE "retry"
<1>1. QuietRow /\ call[c].pc = "attempt" /\ Write(c, k, r, Go(c, "send"), Break(c, code))
  BY Zenon DEF WithAttempt, Attempt, QuietRow, people, At
<1>2. k \in Rows
  BY <1>1, SenderHand
<1>3. (Go(c, "send") => To(c, "send")) /\ (Break(c, code) => Failed(c, code))
  BY GoIs, BreakIs DEF Calls, Senders
<1>4. r = RowOf(row[k].status, row[k].code, row[k].photo, TRUE, row[k].sent,
                KeyOf(c), row[k].holder)
  BY <1>2, WithIs
<1> HIDE DEF r
<1>5. /\ row' = [row EXCEPT ![k] = r]
            => Noted(k, row[k].photo, TRUE, row[k].sent, KeyOf(c), row[k].holder)
      /\ row' = [row EXCEPT ![k] = [r EXCEPT !.holder = None]]
            => Noted(k, row[k].photo, TRUE, row[k].sent, KeyOf(c), None)
  BY <1>2, <1>4, WriteIs DEF Noted
<1>6. Failed(c, code) => \/ c \in Reissues /\ Failed(c, "unknown")
                         \/ c \in Commits /\ Failed(c, "retry")
  BY DEF Senders
<1> HIDE DEF code
<1> QED
  BY <1>1, <1>3, <1>5, <1>6 DEF Write, AttemptDoes

LEMMA SentIs ==
    ASSUME TypeInv, NEW c \in Senders, Sent(c)
    PROVE  SentDoes(c)
<1> DEFINE k == Current(c)
           r == WithSent(row[k], TRUE)
<1>1. QuietRow /\ call[c].pc = "sent" /\ Write(c, k, r, Go(c, "create"), Break(c, "unknown"))
  BY Zenon DEF WithSent, Sent, QuietRow, people, At
<1>2. k \in Rows
  BY <1>1, SenderHand
<1>3. (Go(c, "create") => To(c, "create")) /\ (Break(c, "unknown") => Failed(c, "unknown"))
  BY GoIs, BreakIs DEF Calls, Senders
<1>4. r = RowOf(row[k].status, row[k].code, row[k].photo, row[k].attempted, TRUE,
                row[k].key, row[k].holder)
  BY <1>2, WithIs
<1> HIDE DEF r
<1>5. /\ row' = [row EXCEPT ![k] = r]
            => Noted(k, row[k].photo, row[k].attempted, TRUE, row[k].key, row[k].holder)
      /\ row' = [row EXCEPT ![k] = [r EXCEPT !.holder = None]]
            => Noted(k, row[k].photo, row[k].attempted, TRUE, row[k].key, None)
  BY <1>2, <1>4, WriteIs DEF Noted
<1> QED
  BY <1>1, <1>3, <1>5 DEF Write, SentDoes

LEMMA CreateIs ==
    ASSUME TypeInv, NEW c \in Senders, Create(c)
    PROVE  CreateDoes(c)
<1> DEFINE k == Current(c)
           r == Turn(row[k], "created", None, None)
           On == IF c \in Reissues THEN Go(c, "remove")
                 ELSE call' = [call EXCEPT ![c].pc = "refresh", ![c].active = FALSE]
           code == IF c \in Reissues THEN "unknown" ELSE "retry"
<1>1. QuietRow /\ call[c].pc = "create" /\ Write(c, k, r, On, Break(c, code))
  BY Zenon DEF Create, QuietRow, people, At
<1>2. k \in Rows /\ c \in Calls
  BY <1>1, SenderHand
<1>3. Break(c, code) => \/ c \in Reissues /\ Failed(c, "unknown")
                        \/ c \in Commits /\ Failed(c, "retry")
  BY <1>2, BreakIs DEF Senders
<1>4. On => \/ c \in Reissues /\ To(c, "remove")
            \/ c \in Commits /\ CallTo(c, "refresh", call[c].snap, call[c].code, FALSE)
  <2>1. CallShape(c) /\ call = [d \in Calls |-> call[d]]
    BY <1>2, Shapes DEF TypeInv, Types
  <2> QED
    BY <1>2, <2>1, GoIs DEF Senders, CallTo, CallShape
<1>5. r = RowOf("created", None, row[k].photo, row[k].attempted, row[k].sent, row[k].key, None)
  BY <1>2, TurnIs
<1> HIDE DEF r, On, code
<1>6. /\ row' = [row EXCEPT ![k] = r] => Turned(k, "created", None, None)
      /\ row' = [row EXCEPT ![k] = [r EXCEPT !.holder = None]] => Turned(k, "created", None, None)
  BY <1>2, <1>5, WriteIs DEF Turned
<1> QED
  BY <1>1, <1>3, <1>4, <1>6 DEF Write, CreateDoes

LEMMA FailIs ==
    ASSUME TypeInv, NEW c \in Senders, Fail(c)
    PROVE  FailDoes(c)
<1> DEFINE k == Current(c)
           r == Turn(row[k], "failed", call[c].code, None)
           On == IF c \in Reissues THEN End(c)
                 ELSE call' = [call EXCEPT ![c].pc = "refresh", ![c].active = FALSE]
           Off == IF c \in Reissues THEN End(c) ELSE Go(c, "catch")
<1>1. QuietRow /\ call[c].pc = "fail" /\ Write(c, k, r, On, Off)
  BY Zenon DEF Fail, QuietRow, people, At
<1>2. k \in Rows /\ c \in Calls
  BY <1>1, SenderHand
<1>3. Off => \/ c \in Reissues /\ Ended(c)
             \/ c \in Commits /\ To(c, "catch")
  BY <1>2, EndIs, GoIs DEF Senders
<1>4. On => \/ c \in Reissues /\ Ended(c)
            \/ c \in Commits /\ CallTo(c, "refresh", call[c].snap, call[c].code, FALSE)
  <2>1. CallShape(c) /\ call = [d \in Calls |-> call[d]]
    BY <1>2, Shapes DEF TypeInv, Types
  <2> QED
    BY <1>2, <2>1, EndIs DEF Senders, CallTo, CallShape
<1>5. r = RowOf("failed", call[c].code, row[k].photo, row[k].attempted, row[k].sent, row[k].key,
                None)
  BY <1>2, TurnIs
<1> HIDE DEF r, On, Off
<1>6. /\ row' = [row EXCEPT ![k] = r] => Turned(k, "failed", call[c].code, None)
      /\ row' = [row EXCEPT ![k] = [r EXCEPT !.holder = None]]
            => Turned(k, "failed", call[c].code, None)
  BY <1>2, <1>5, WriteIs DEF Turned
<1> QED
  BY <1>1, <1>3, <1>4, <1>6 DEF Write, FailDoes

LEMMA CronIs ==
    ASSUME TypeInv, NEW c \in Crons,
           CronRead(c) \/ CronClose(c) \/ \E k \in Rows : CronRemove(c, k) \/ CronMark(c, k)
    PROVE  CronDoes(c)
<1>1. c \in Calls /\ call = [d \in Calls |-> call[d]] /\ call[c] \in Sweep
  BY DEF Calls, TypeInv, Types
<1>2. CASE CronRead(c)
  <2>1. call'[c] \in Sweep
    BY <1>1, <1>2 DEF CronRead, Sweep
  <2> QED
    BY <1>1, <1>2, <2>1 DEF CronRead, CronDoes, people, TypeInv, Types
<1>3. CASE CronClose(c)
  <2>1. Ended(c)
    BY <1>1, <1>3, EndIs DEF CronClose
  <2>2. call'[c] \in Sweep
    BY <2>1 DEF Ended, CallTo, Sweep, Codes, Nothing
  <2>3. \/ UNCHANGED batch
        \/ batch' = [status |-> "expired", owner |-> None]
    BY <1>3 DEF CronClose
  <2>4. UNCHANGED row /\ UNCHANGED <<member, image, stored, link, posts, late>>
    BY <1>3 DEF CronClose, people
  <2> QED
    BY <2>1, <2>2, <2>3, <2>4 DEF CronDoes, Ended, CallTo, TypeInv, Types
<1>4. ASSUME NEW k \in Rows, CronRemove(c, k) PROVE CronDoes(c)
  <2>1. call'[c] \in Sweep
    BY <1>1, <1>4 DEF CronRemove, Sweep
  <2> QED
    BY <1>1, <1>4, <2>1 DEF CronRemove, CronDoes, TypeInv, Types
<1>5. ASSUME NEW k \in Rows, CronMark(c, k) PROVE CronDoes(c)
  <2>1. call'[c] \in Sweep
    BY <1>1, <1>5 DEF CronMark, Sweep
  <2> DEFINE r == [row[k] EXCEPT !.holder = None]
  <2>2. r = RowOf(row[k].status, row[k].code, row[k].photo, row[k].attempted, row[k].sent,
                  row[k].key, None)
    <3>1. RowShape(k)
      BY Shapes
    <3> QED
      BY <3>1 DEF RowShape, RowOf
  <2>3. row' = [row EXCEPT ![k] = r] \/ UNCHANGED row
    BY <1>5 DEF CronMark
  <2> HIDE DEF r
  <2>4. Unheld(k) \/ UNCHANGED row
    BY <2>2, <2>3, PutRow DEF Unheld, Noted
  <2>5. \A d \in Calls : d # c => call'[d] = call[d]
    BY <1>1, <1>5 DEF CronMark
  <2>6. call' = [d \in Calls |-> call'[d]]
    BY <1>1, <1>5 DEF CronMark
  <2>7. UNCHANGED batch /\ UNCHANGED <<member, image, stored, link, posts, late>>
    BY <1>5 DEF CronMark, people
  <2> QED
    BY <2>1, <2>4, <2>5, <2>6, <2>7 DEF CronDoes, TypeInv, Types
<1> QED
  BY <1>2, <1>3, <1>4, <1>5

LEMMA CrashIs ==
    ASSUME TypeInv, NEW c \in Calls, Crash(c)
    PROVE  Ended(c) /\ UNCHANGED <<batch, row>> /\ UNCHANGED <<member, image, stored, link, posts, late>>
  BY EndIs DEF Crash, people

-----------------------------------------------------------------------------
(* Type correctness. *)

CallInv == /\ call = [c \in Calls |-> call[c]]
           /\ \A c \in Senders : call[c] \in Call
           /\ \A c \in Crons : call[c] \in Sweep
           /\ CommitsInHand /\ ReissuesInHand

CallOK(c, pc, snap, code, active) ==
    /\ pc \in Steps /\ snap \in [Rows -> Snap \cup {None}] /\ code \in Codes /\ active \in BOOLEAN
    /\ pc = "off" => \A k \in Rows : snap[k] = None
    /\ c \in Commits =>
          /\ pc \in BatchSteps \cup HandSteps
          /\ pc \in HandSteps => \E k \in Rows : snap[k] # None
          /\ active => /\ \E k \in Rows : snap[k] # None
                       /\ pc \in {"catch", "release"} \cup HandSteps
                       /\ pc # "refresh"
          /\ pc = "restage" => active
          /\ pc = "fail" => code # None
    /\ c \in Reissues =>
          /\ pc \in {"off", "done"} \cup ReissueSteps
          /\ pc \in ReissueSteps => \E k \in Rows : snap[k] # None
          /\ pc = "fail" => code = "unknown"

LEMMA CallStays ==
    ASSUME TypeInv, NEW c \in Senders, NEW pc, NEW snap, NEW code, NEW active,
           CallTo(c, pc, snap, code, active), CallOK(c, pc, snap, code, active)
    PROVE  CallInv'
<1>1. CallInv
  BY DEF TypeInv, Types, CallInv
<1>2. c \in Calls /\ c \notin Crons /\ \A d \in Senders \cup Crons : d \in Calls
  BY CallsAssumption DEF Senders, Calls
<1>3. call'[c] = [pc |-> pc, snap |-> snap, code |-> code, active |-> active]
  BY DEF CallTo
<1>4. call'[c] \in Call
  BY <1>3 DEF CallOK, Call
<1>5. \A d \in Senders : d # c => call'[d] = call[d]
  BY <1>2 DEF CallTo
<1>6. /\ call' = [d \in Calls |-> call'[d]]
      /\ \A d \in Crons : call'[d] \in Sweep
  BY <1>1, <1>2 DEF CallTo, CallInv
<1>7. \A d \in Senders : call'[d] \in Call
  BY <1>1, <1>4, <1>5 DEF CallInv
<1>8. CommitsInHand'
  <2> SUFFICES ASSUME NEW d \in Commits
               PROVE  /\ call'[d].pc \in BatchSteps \cup HandSteps
                      /\ call'[d].pc = "off" => ~HasAny(d)'
                      /\ call'[d].pc \in HandSteps => HasAny(d)'
                      /\ call'[d].active => /\ HasAny(d)'
                                            /\ call'[d].pc \in {"catch", "release"} \cup HandSteps
                                            /\ call'[d].pc # "refresh"
                      /\ call'[d].pc = "restage" => call'[d].active
                      /\ call'[d].pc = "fail" => call'[d].code # None
    BY DEF CommitsInHand
  <2>1. CASE d = c
    BY <1>3, <2>1 DEF CallOK, HasAny, Has
  <2>2. CASE d # c
    <3>1. call'[d] = call[d]
      BY <1>5, <2>2 DEF Senders
    <3> QED
      BY <1>1, <3>1 DEF CallInv, CommitsInHand, HasAny, Has
  <2> QED
    BY <2>1, <2>2
<1>9. ReissuesInHand'
  <2> SUFFICES ASSUME NEW d \in Reissues
               PROVE  /\ call'[d].pc \in {"off", "done"} \cup ReissueSteps
                      /\ call'[d].pc = "off" => ~HasAny(d)'
                      /\ call'[d].pc \in ReissueSteps => HasAny(d)'
                      /\ call'[d].pc = "fail" => call'[d].code = "unknown"
    BY DEF ReissuesInHand
  <2>1. CASE d = c
    BY <1>3, <2>1 DEF CallOK, HasAny, Has
  <2>2. CASE d # c
    <3>1. call'[d] = call[d]
      BY <1>5, <2>2 DEF Senders
    <3> QED
      BY <1>1, <3>1 DEF CallInv, ReissuesInHand, HasAny, Has
  <2> QED
    BY <2>1, <2>2
<1> QED
  BY <1>6, <1>7, <1>8, <1>9 DEF CallInv

LEMMA RowStays ==
    ASSUME TypeInv, NEW k \in Rows, NEW r \in Row, RowTo(k, r)
    PROVE  row' \in [Rows -> Row]
  BY DEF TypeInv, Types, RowTo

LEMMA RowFields ==
    ASSUME TypeInv, NEW k \in Rows
    PROVE  /\ row[k].status \in {"staged", "processing", "created", "failed"}
           /\ row[k].code \in Codes /\ row[k].photo \in BOOLEAN /\ row[k].attempted \in BOOLEAN
           /\ row[k].sent \in BOOLEAN /\ row[k].key \in Keys \cup {None}
           /\ row[k].holder \in Senders \cup {None}
  BY DEF TypeInv, Types, Row

LEMMA TurnedStays ==
    ASSUME TypeInv, NEW k \in Rows, NEW st \in {"staged", "processing", "created", "failed"},
           NEW co \in Codes, NEW ho \in Senders \cup {None}, Turned(k, st, co, ho)
    PROVE  row' \in [Rows -> Row]
<1>1. RowOf(st, co, row[k].photo, row[k].attempted, row[k].sent, row[k].key, ho) \in Row
  BY RowFields DEF RowOf, Row
<1> QED
  BY <1>1, RowStays DEF Turned

LEMMA NotedStays ==
    ASSUME TypeInv, NEW k \in Rows, NEW ph \in BOOLEAN, NEW at \in BOOLEAN, NEW se \in BOOLEAN,
           NEW ke \in Keys \cup {None}, NEW ho \in Senders \cup {None},
           Noted(k, ph, at, se, ke, ho)
    PROVE  row' \in [Rows -> Row]
<1>1. RowOf(row[k].status, row[k].code, ph, at, se, ke, ho) \in Row
  BY RowFields DEF RowOf, Row
<1> QED
  BY <1>1, RowStays DEF Noted

LEMMA CallFields ==
    ASSUME TypeInv, NEW c \in Senders
    PROVE  /\ call[c].pc \in Steps /\ call[c].snap \in [Rows -> Snap \cup {None}]
           /\ call[c].code \in Codes /\ call[c].active \in BOOLEAN
  BY DEF TypeInv, Types, Call

LEMMA EndedStays ==
    ASSUME TypeInv, NEW c \in Senders, Ended(c)
    PROVE  CallInv'
<1>1. CallOK(c, "done", Nothing, None, FALSE)
  BY DEF CallOK, Steps, Nothing, Codes, BatchSteps, HandSteps, EarlySteps, PhotoSteps, MintSteps,
         SendSteps, ReissueSteps
<1> QED
  BY <1>1, CallStays DEF Ended

LEMMA FailedStays ==
    ASSUME TypeInv, NEW c \in Senders, HasAny(c), NEW code \in {"retry", "exists", "unknown"},
           c \in Reissues => code = "unknown", Failed(c, code)
    PROVE  CallInv'
<1>1. CallOK(c, "fail", call[c].snap, code, call[c].active)
  BY CallFields, NoneAssumption
     DEF CallOK, Steps, Codes, BatchSteps, HandSteps, EarlySteps, PhotoSteps, MintSteps,
         SendSteps, ReissueSteps, HasAny, Has
<1> QED
  BY <1>1, CallStays DEF Failed

LEMMA CommitStays ==
    ASSUME TypeInv, NEW c \in Commits, NEW pc, To(c, pc),
           \/ HasAny(c) /\ pc \in HandSteps \ {"refresh", "fail", "restage"}
           \/ call[c].active /\ pc = "restage"
           \/ pc \in {"catch", "release"}
           \/ ~call[c].active /\ pc \in BatchSteps \ {"off"}
    PROVE  CallInv'
<1>1. c \in Senders /\ c \notin Reissues
  BY CallsAssumption DEF Senders
<1>2. call[c].active => HasAny(c)
  BY DEF TypeInv, CommitsInHand
<1>3. CallOK(c, pc, call[c].snap, call[c].code, call[c].active)
  BY <1>1, <1>2, CallFields
     DEF CallOK, Steps, BatchSteps, HandSteps, EarlySteps, PhotoSteps, MintSteps, SendSteps,
         HasAny, Has
<1> QED
  BY <1>1, <1>3, CallStays DEF To

LEMMA ReissueStays ==
    ASSUME TypeInv, NEW c \in Reissues, NEW pc \in ReissueSteps \ {"fail"}, HasAny(c), To(c, pc)
    PROVE  CallInv'
<1>1. c \in Senders /\ c \notin Commits
  BY CallsAssumption DEF Senders
<1>2. CallOK(c, pc, call[c].snap, call[c].code, call[c].active)
  BY <1>1, CallFields
     DEF CallOK, Steps, ReissueSteps, HasAny, Has
<1> QED
  BY <1>1, <1>2, CallStays DEF To

(* The rest of the state keeps its types when the batch, rows and calls do. *)
BatchOK == /\ batch \in [status : {"ready", "processing", "completed", "expired"},
                         owner : Commits \cup {None}]
           /\ batch.owner # None => batch.status = "processing"
DataOK == /\ member \in [Rows -> {"none", "waiting", "set"}]
          /\ image \in [Rows -> BOOLEAN]
          /\ stored \in [Rows -> BOOLEAN]
          /\ link \in [Rows -> Keys \cup {None}]
          /\ posts \in [Rows -> SUBSET Post]

LEMMA TypeParts ==
    /\ TypeInv <=> BatchOK /\ row \in [Rows -> Row] /\ CallInv /\ DataOK
    /\ TypeInv' <=> BatchOK' /\ row' \in [Rows -> Row] /\ CallInv' /\ DataOK'
<1>1. TypeInv <=> BatchOK /\ row \in [Rows -> Row] /\ CallInv /\ DataOK
  BY DEF TypeInv, Types, BatchOK, CallInv, DataOK
<1>2. TypeInv' <=> BatchOK' /\ row' \in [Rows -> Row] /\ CallInv' /\ DataOK'
  BY DEF TypeInv, Types, BatchOK, CallInv, DataOK
<1> QED
  BY <1>1, <1>2

LEMMA DataStays ==
    ASSUME TypeInv
    PROVE  /\ UNCHANGED batch => BatchOK'
           /\ UNCHANGED row => row' \in [Rows -> Row]
           /\ UNCHANGED <<member, image, stored, link, posts, late>> => DataOK'
<1>1. UNCHANGED batch => BatchOK'
  BY DEF TypeInv, Types, BatchOK
<1>2. UNCHANGED row => row' \in [Rows -> Row]
  BY DEF TypeInv, Types
<1>3. UNCHANGED <<member, image, stored, link, posts, late>> => DataOK'
  BY DEF TypeInv, Types, DataOK
<1> QED
  BY <1>1, <1>2, <1>3

LEMMA BatchTypes ==
    ASSUME TypeInv, NEW c \in Commits,
           Claim(c) \/ CheckLease(c) \/ RequeueRows(c) \/ ReadRows(c) \/ Refresh(c)
    PROVE  TypeInv'
<1>1. c \in Senders /\ c \notin Reissues /\ c # None
  BY CallsAssumption, NoneAssumption DEF Senders
<1>2. /\ call[c].active => /\ HasAny(c)
                          /\ call[c].pc \in {"catch", "release"} \cup HandSteps
                          /\ call[c].pc # "refresh"
      /\ call[c].pc \in HandSteps => HasAny(c)
  BY DEF TypeInv, CommitsInHand
<1>3. CASE Claim(c)
  <2>1. ClaimDoes(c)
    BY <1>3, ClaimIs
  <2>2. ~call[c].active
    BY <1>2, <2>1 DEF ClaimDoes, HandSteps, EarlySteps, PhotoSteps, MintSteps, SendSteps
  <2>3. CallInv'
    BY <1>1, <2>1, <2>2, CommitStays, EndedStays DEF ClaimDoes, BatchSteps
  <2>4. BatchOK'
    BY <1>1, <2>1 DEF ClaimDoes, BatchOK
  <2> QED
    BY <2>1, <2>3, <2>4, TypeParts, DataStays DEF ClaimDoes, QuietBatch
<1>4. CASE CheckLease(c)
  <2>1. CheckLeaseDoes(c)
    BY <1>4, CheckLeaseIs
  <2>2. call[c].pc \in {"rowCheck", "claimCheck"} => HasAny(c)
    BY <1>2 DEF HandSteps, EarlySteps
  <2>3. call[c].pc \in {"requeueCheck", "cleanCheck"} => ~call[c].active
    BY <1>2 DEF HandSteps, EarlySteps, PhotoSteps, MintSteps, SendSteps
  <2>4. CallInv'
    BY <2>1, <2>2, <2>3, CommitStays
       DEF CheckLeaseDoes, HandSteps, EarlySteps, PhotoSteps, BatchSteps
  <2> QED
    BY <2>1, <2>4, TypeParts, DataStays DEF CheckLeaseDoes, QuietBatch
<1>5. CASE RequeueRows(c)
  <2>1. RequeueRowsDoes(c)
    BY <1>5, RequeueRowsIs
  <2>2. ~call[c].active
    BY <1>2, <2>1 DEF RequeueRowsDoes, HandSteps, EarlySteps, PhotoSteps, MintSteps, SendSteps
  <2>3. CallInv'
    BY <2>1, <2>2, CommitStays DEF RequeueRowsDoes, BatchSteps
  <2>4. \A k \in Rows : row'[k] \in Row
    <3> TAKE k \in Rows
    <3>1. row[k] \in Row
      BY DEF TypeInv, Types
    <3>2. RowOf("staged", None, row[k].photo, row[k].attempted, row[k].sent, row[k].key, None) \in Row
      BY RowFields DEF RowOf, Row, Codes
    <3> QED
      BY <2>1, <3>1, <3>2 DEF RequeueRowsDoes
  <2>5. row' \in [Rows -> Row]
    BY <2>1, <2>4 DEF RequeueRowsDoes
  <2> QED
    BY <2>1, <2>3, <2>5, TypeParts, DataStays DEF RequeueRowsDoes, QuietRow
<1>6. CASE ReadRows(c)
  <2>1. ReadRowsDoes(c)
    BY <1>6, ReadRowsIs
  <2>2. ~call[c].active
    BY <1>2, <2>1 DEF ReadRowsDoes, HandSteps, EarlySteps, PhotoSteps, MintSteps, SendSteps
  <2>3. [k \in Rows |-> Read(k)] \in [Rows -> Snap \cup {None}]
    <3>1. \A k \in Rows : Seen(row[k]) \in Snap
      BY RowFields DEF Seen, Snap
    <3> QED
      BY <3>1 DEF Read
  <2>4. ASSUME NEW p \in {"cleanCheck", "rowCheck"},
               p = "rowCheck" => \E k \in Rows : Read(k) # None
        PROVE  CallOK(c, p, [k \in Rows |-> Read(k)], call[c].code, call[c].active)
    BY <1>1, <2>2, <2>3, <2>4, CallFields
       DEF CallOK, Steps, BatchSteps, HandSteps, EarlySteps, PhotoSteps, MintSteps, SendSteps
  <2>5. CallInv'
    BY <1>1, <2>1, <2>2, <2>4, CommitStays, CallStays DEF ReadRowsDoes
  <2> QED
    BY <2>1, <2>5, TypeParts, DataStays DEF ReadRowsDoes, QuietBatch
<1>7. CASE Refresh(c)
  <2>1. RefreshDoes(c)
    BY <1>7, RefreshIs
  <2>2. ~call[c].active
    BY <1>2, <2>1, CallFields, <1>1 DEF RefreshDoes
  <2>3. ASSUME NEW p \in {"cleanCheck", "rowCheck"}, NEW snap \in [Rows -> Snap \cup {None}],
               p = "rowCheck" => \E k \in Rows : snap[k] # None
        PROVE  CallOK(c, p, snap, call[c].code, call[c].active)
    BY <1>1, <2>2, <2>3, CallFields
       DEF CallOK, Steps, BatchSteps, HandSteps, EarlySteps, PhotoSteps, MintSteps, SendSteps
  <2>4. CallInv'
    BY <1>1, <2>1, <2>3, CommitStays, CallStays DEF RefreshDoes
  <2>5. BatchOK'
    BY <2>1, DataStays DEF RefreshDoes, BatchOK, TypeInv, Types
  <2> QED
    BY <2>1, <2>4, <2>5, TypeParts, DataStays DEF RefreshDoes, QuietBatch
<1> QED
  BY <1>3, <1>4, <1>5, <1>6, <1>7

LEMMA DeliverStays ==
    ASSUME TypeInv, NEW c \in Commits, HasAny(c), DeliverDoes(c)
    PROVE  CallInv'
<1>1. c \in Senders /\ c \notin Reissues
  BY CallsAssumption DEF Senders
<1> QED
  BY <1>1, CommitStays, FailedStays DEF DeliverDoes, HandSteps, MintSteps, SendSteps

LEMMA ReleaseTypes ==
    ASSUME TypeInv, NEW c \in Commits, ReleaseDoes(c)
    PROVE  TypeInv'
<1>1. c \in Senders /\ c # None
  BY NoneAssumption DEF Senders
<1>2. call[c].pc \in {"result", "reopen", "finish"} => ~call[c].active
  BY DEF TypeInv, CommitsInHand, HandSteps, EarlySteps, PhotoSteps, MintSteps, SendSteps
<1>3. CallInv'
  BY <1>1, <1>2, CommitStays, EndedStays DEF ReleaseDoes, BatchSteps
<1>4. BatchOK'
  BY <1>1, DataStays DEF ReleaseDoes, BatchOK
<1> QED
  BY <1>3, <1>4, TypeParts, DataStays DEF ReleaseDoes, QuietBatch

LEMMA CommitTypes ==
    ASSUME TypeInv, NEW c \in Commits,
           \/ RequeueActiveRow(c) \/ ClaimRow(c) \/ AddMember(c) \/ AttachPendingPhoto(c)
           \/ MarkPhoto(c) \/ Intend(c) \/ MintLink(c)
    PROVE  TypeInv'
<1> DEFINE k == Current(c)
<1>1. c \in Senders /\ c \notin Reissues /\ c \in Calls
  BY CallsAssumption DEF Senders, Calls
<1>2. call[c].pc \in HandSteps => HasAny(c) /\ k \in Rows
  BY CommitHand DEF TypeInv, CommitsInHand
<1>3. CASE RequeueActiveRow(c)
  <2>1. RequeueActiveRowDoes(c)
    BY <1>3, RequeueActiveRowIs
  <2>2. k \in Rows
    BY <1>2, <2>1 DEF RequeueActiveRowDoes, HandSteps
  <2>3. CallInv'
    BY <1>1, <2>1, CommitStays, EndedStays DEF RequeueActiveRowDoes
  <2>4. row' \in [Rows -> Row]
    BY <2>1, <2>2, TurnedStays, DataStays DEF RequeueActiveRowDoes, Codes
  <2> QED
    BY <2>1, <2>3, <2>4, TypeParts, DataStays DEF RequeueActiveRowDoes, QuietRow
<1>4. CASE ClaimRow(c)
  <2>1. ClaimRowDoes(c)
    BY <1>4, ClaimRowIs
  <2>2. HasAny(c) /\ k \in Rows
    BY <1>2, <2>1 DEF ClaimRowDoes, HandSteps, EarlySteps
  <2>3. /\ CallOK(c, "claimCheck", call[c].snap, call[c].code, TRUE)
        /\ CallOK(c, "catch", call[c].snap, call[c].code, FALSE)
    BY <1>1, <2>2, CallFields
       DEF CallOK, Steps, BatchSteps, HandSteps, EarlySteps, PhotoSteps, MintSteps, SendSteps,
           HasAny, Has
  <2>4. CallInv'
    BY <1>1, <2>1, <2>3, CallStays DEF ClaimRowDoes
  <2>5. row' \in [Rows -> Row]
    BY <1>1, <2>1, <2>2, TurnedStays, DataStays DEF ClaimRowDoes, Codes
  <2> QED
    BY <2>1, <2>4, <2>5, TypeParts, DataStays DEF ClaimRowDoes, QuietRow
<1>5. CASE AddMember(c)
  <2>1. AddMemberDoes(c)
    BY <1>5, AddMemberIs
  <2>2. HasAny(c) /\ k \in Rows
    BY <1>2, <2>1 DEF AddMemberDoes, HandSteps, PhotoSteps
  <2>3. CallInv'
    BY <1>1, <2>1, <2>2, CommitStays, FailedStays, DeliverStays
       DEF AddMemberDoes, HandSteps, PhotoSteps
  <2>4. row' \in [Rows -> Row]
    <3>1. ASSUME Unheld(k) PROVE row' \in [Rows -> Row]
      <4>1. PICK ph, at, se \in BOOLEAN, ke \in Keys \cup {None}, ho \in Senders \cup {None} :
              Noted(k, ph, at, se, ke, ho)
        BY <2>2, <3>1, RowFields DEF Unheld
      <4> QED
        BY <2>2, <4>1, NotedStays
    <3> QED
      BY <2>1, <3>1, DataStays DEF AddMemberDoes
  <2>5. DataOK'
    <3>1. member' \in [Rows -> {"none", "waiting", "set"}]
      BY <2>1 DEF AddMemberDoes, TypeInv, Types
    <3> QED
      BY <2>1, <3>1 DEF AddMemberDoes, DataOK, TypeInv, Types
  <2> QED
    BY <2>1, <2>3, <2>4, <2>5, TypeParts, DataStays DEF AddMemberDoes
<1>6. CASE AttachPendingPhoto(c)
  <2>1. AttachPhotoDoes(c)
    BY <1>6, AttachPhotoIs
  <2>2. HasAny(c) /\ k \in Rows
    BY <1>2, <2>1 DEF AttachPhotoDoes, HandSteps, PhotoSteps
  <2>3. CallInv'
    BY <1>1, <2>1, <2>2, CommitStays, FailedStays DEF AttachPhotoDoes, HandSteps, PhotoSteps
  <2>4. DataOK'
    <3>1. image' \in [Rows -> BOOLEAN]
      BY <2>1 DEF AttachPhotoDoes, TypeInv, Types
    <3> QED
      BY <2>1, <3>1 DEF AttachPhotoDoes, DataOK, TypeInv, Types
  <2> QED
    BY <2>1, <2>3, <2>4, TypeParts, DataStays DEF AttachPhotoDoes
<1>7. CASE MarkPhoto(c)
  <2>1. MarkPhotoDoes(c)
    BY <1>7, MarkPhotoIs
  <2>2. HasAny(c) /\ k \in Rows
    BY <1>2, <2>1 DEF MarkPhotoDoes, HandSteps, PhotoSteps
  <2>3. CallInv'
    BY <1>1, <2>1, <2>2, FailedStays, DeliverStays DEF MarkPhotoDoes
  <2>4. row' \in [Rows -> Row]
    <3>1. row[k].attempted \in BOOLEAN /\ row[k].sent \in BOOLEAN /\ row[k].key \in Keys \cup {None}
      BY <2>2, RowFields
    <3>2. \A h \in {c, None} :
             RowOf(row[k].status, row[k].code, TRUE, row[k].attempted, row[k].sent, row[k].key, h)
                \in Row
      BY <1>1, <2>2, <3>1, RowFields DEF RowOf, Row
    <3> QED
      BY <2>1, <2>2, <3>2, RowStays, DataStays DEF MarkPhotoDoes, Noted
  <2> QED
    BY <2>1, <2>3, <2>4, TypeParts, DataStays DEF MarkPhotoDoes, QuietRow
<1>8. CASE Intend(c)
  <2>1. IntendDoes(c)
    BY <1>8, IntendIs
  <2>2. HasAny(c) /\ k \in Rows
    BY <1>2, <2>1 DEF IntendDoes, HandSteps, MintSteps
  <2>3. CallInv'
    BY <1>1, <2>1, <2>2, FailedStays, CommitStays DEF IntendDoes, HandSteps, MintSteps
  <2>4. row' \in [Rows -> Row]
    <3>1. row[k].photo \in BOOLEAN /\ row[k].attempted \in BOOLEAN /\ row[k].sent \in BOOLEAN
      BY <2>2, RowFields
    <3>2. \A h \in {c, None} : Noted(k, row[k].photo, row[k].attempted, row[k].sent, Import, h)
                                 => row' \in [Rows -> Row]
      BY <1>1, <2>2, <3>1, NotedStays DEF Keys
    <3> QED
      BY <2>1, <3>2, DataStays DEF IntendDoes
  <2> QED
    BY <2>1, <2>3, <2>4, TypeParts, DataStays DEF IntendDoes, QuietRow
<1>9. CASE MintLink(c)
  <2>1. MintLinkDoes(c)
    BY <1>9, MintLinkIs
  <2>2. HasAny(c) /\ k \in Rows
    BY <1>2, <2>1 DEF MintLinkDoes, HandSteps, MintSteps
  <2>3. CallInv'
    BY <1>1, <2>1, <2>2, FailedStays, CommitStays DEF MintLinkDoes, HandSteps, MintSteps
  <2>4. DataOK'
    <3>1. link' \in [Rows -> Keys \cup {None}]
      BY <2>1 DEF MintLinkDoes, TypeInv, Types, Keys
    <3> QED
      BY <2>1, <3>1 DEF MintLinkDoes, DataOK, TypeInv, Types
  <2> QED
    BY <2>1, <2>3, <2>4, TypeParts, DataStays DEF MintLinkDoes
<1> QED
  BY <1>3, <1>4, <1>5, <1>6, <1>7, <1>8, <1>9

LEMMA KeyOfIs ==
    ASSUME TypeInv, NEW c \in Senders, Current(c) \in Rows, Has(c, Current(c))
    PROVE  /\ KeyOf(c) \in Keys
           /\ Message(c) \in Post /\ Message(c).key = KeyOf(c)
           /\ c \in Reissues => KeyOf(c) = c
           /\ c \in Commits => KeyOf(c) = Name(call[c].snap[Current(c)].key)
<1>1. call[c].snap[Current(c)] \in Snap
  BY CallFields DEF Has
<1>2. c \in Reissues => KeyOf(c) = c
  BY DEF KeyOf
<1>3. c \in Commits => KeyOf(c) = Name(call[c].snap[Current(c)].key)
  BY CallsAssumption DEF KeyOf, Name
<1>4. KeyOf(c) \in Keys
  BY <1>1, <1>2, <1>3 DEF Senders, Keys, Name, Snap
<1>5. Message(c) \in Post /\ Message(c).key = KeyOf(c)
  BY <1>4 DEF Message, Post, Keys
<1> QED
  BY <1>2, <1>3, <1>4, <1>5

LEMMA SenderTypes ==
    ASSUME TypeInv, NEW c \in Senders,
           Attempt(c) \/ Send(c) \/ Sent(c) \/ Create(c) \/ Fail(c)
    PROVE  TypeInv'
<1> DEFINE k == Current(c)
<1>1. c \in Calls /\ (c \in Commits \/ c \in Reissues) /\ ~(c \in Commits /\ c \in Reissues)
  BY CallsAssumption DEF Senders, Calls
<1>2. /\ k \in Rows /\ Has(c, k) /\ HasAny(c)
      /\ call[c].pc \in {"attempt", "send", "sent", "create", "fail"}
  BY SenderHand, AttemptIs, SendIs, SentIs, CreateIs, FailIs
     DEF AttemptDoes, SendDoes, SentDoes, CreateDoes, FailDoes, HasAny
<1>3. CASE Attempt(c)
  <2>1. AttemptDoes(c)
    BY <1>3, AttemptIs
  <2>2. CallInv'
    BY <1>1, <1>2, <2>1, FailedStays, CommitStays, ReissueStays
       DEF AttemptDoes, HandSteps, SendSteps, ReissueSteps
  <2>3. row' \in [Rows -> Row]
    <3>1. PICK key \in Keys \cup {None} : key = KeyOf(c)
      BY <1>2, KeyOfIs
    <3>2. \/ UNCHANGED row
          \/ \E ho \in Senders \cup {None} : Noted(k, row[k].photo, TRUE, row[k].sent, key, ho)
      BY <2>1, <3>1 DEF AttemptDoes
    <3>3. row[k].photo \in BOOLEAN /\ row[k].sent \in BOOLEAN
      BY <1>2, RowFields
    <3> QED
      BY <1>2, <3>2, <3>3, NotedStays, DataStays
  <2> QED
    BY <2>1, <2>2, <2>3, TypeParts, DataStays DEF AttemptDoes, QuietRow
<1>4. CASE Send(c)
  <2>1. SendDoes(c)
    BY <1>4, SendIs
  <2>2. CallInv'
    BY <1>1, <1>2, <2>1, FailedStays, CommitStays, ReissueStays
       DEF SendDoes, HandSteps, SendSteps, ReissueSteps
  <2>3. DataOK'
    <3>1. posts' \in [Rows -> SUBSET Post]
      BY <1>2, <2>1, KeyOfIs DEF SendDoes, TypeInv, Types
    <3> QED
      BY <2>1, <3>1 DEF SendDoes, DataOK, TypeInv, Types
  <2> QED
    BY <2>1, <2>2, <2>3, TypeParts, DataStays DEF SendDoes
<1>5. CASE Sent(c)
  <2>1. SentDoes(c)
    BY <1>5, SentIs
  <2>2. CallInv'
    BY <1>1, <1>2, <2>1, FailedStays, CommitStays, ReissueStays
       DEF SentDoes, HandSteps, SendSteps, ReissueSteps
  <2>3. row' \in [Rows -> Row]
    BY <1>2, <2>1, RowFields, NotedStays, DataStays DEF SentDoes
  <2> QED
    BY <2>1, <2>2, <2>3, TypeParts, DataStays DEF SentDoes, QuietRow
<1>6. /\ c \in Commits => CallOK(c, "refresh", call[c].snap, call[c].code, FALSE)
  BY <1>1, <1>2, CallFields
     DEF CallOK, Steps, BatchSteps, HandSteps, EarlySteps, PhotoSteps, MintSteps, SendSteps, Has
<1>7. CASE Create(c)
  <2>1. CreateDoes(c)
    BY <1>7, CreateIs
  <2>2. CallInv'
    BY <1>1, <1>2, <1>6, <2>1, FailedStays, CallStays, ReissueStays
       DEF CreateDoes, ReissueSteps
  <2>3. row' \in [Rows -> Row]
    BY <1>2, <2>1, TurnedStays, DataStays DEF CreateDoes, Codes
  <2> QED
    BY <2>1, <2>2, <2>3, TypeParts, DataStays DEF CreateDoes, QuietRow
<1>8. CASE Fail(c)
  <2>1. FailDoes(c)
    BY <1>8, FailIs
  <2>2. CallInv'
    BY <1>1, <1>2, <1>6, <2>1, EndedStays, CallStays, CommitStays DEF FailDoes
  <2>3. row' \in [Rows -> Row]
    BY <1>2, <2>1, CallFields, TurnedStays, DataStays DEF FailDoes
  <2> QED
    BY <2>1, <2>2, <2>3, TypeParts, DataStays DEF FailDoes, QuietRow
<1> QED
  BY <1>3, <1>4, <1>5, <1>7, <1>8

LEMMA ReissueTypes ==
    ASSUME TypeInv, NEW c \in Reissues,
           (\E k \in Rows : ClaimReissue(c, k)) \/ Issue(c) \/ RemoveStaging(c)
    PROVE  TypeInv'
<1>1. c \in Senders /\ c \notin Commits /\ c \in Calls
  BY CallsAssumption DEF Senders, Calls
<1>2. ASSUME NEW k \in Rows, ClaimReissue(c, k) PROVE TypeInv'
  <2>1. ClaimReissueDoes(c, k)
    BY <1>2, ClaimReissueIs
  <2> DEFINE snap == [call[c].snap EXCEPT ![k] = Seen(row[k])]
  <2>2. Seen(row[k]) \in Snap /\ Seen(row[k]) # None
    BY RowFields, NoneAssumption DEF Seen, Snap, Keys
  <2>3. snap \in [Rows -> Snap \cup {None}] /\ snap[k] # None
    BY <1>1, <2>2, CallFields
  <2> HIDE DEF snap
  <2>4. CallOK(c, "issue", snap, call[c].code, call[c].active)
    BY <1>1, <2>3, CallFields DEF CallOK, Steps, ReissueSteps
  <2>5. CallInv'
    BY <1>1, <2>1, <2>4, CallStays, EndedStays DEF ClaimReissueDoes, snap
  <2>6. \A h \in {c, None} :
           RowOf("processing", None, row[k].photo, FALSE, FALSE, c, h) \in Row
    BY <1>1, RowFields DEF RowOf, Row, Codes, Keys
  <2>7. row' \in [Rows -> Row]
    BY <2>1, <2>6, RowStays DEF ClaimReissueDoes
  <2> QED
    BY <2>1, <2>5, <2>7, TypeParts, DataStays DEF ClaimReissueDoes, QuietRow
<1>3. CASE Issue(c)
  <2>1. IssueDoes(c)
    BY <1>3, IssueIs
  <2>2. HasAny(c)
    BY <2>1 DEF IssueDoes, TypeInv, ReissuesInHand, ReissueSteps
  <2>3. CallInv'
    BY <1>1, <2>1, <2>2, FailedStays, ReissueStays DEF IssueDoes, ReissueSteps
  <2>4. DataOK'
    <3>1. link' \in [Rows -> Keys \cup {None}]
      BY <2>1 DEF IssueDoes, TypeInv, Types, Keys
    <3> QED
      BY <2>1, <3>1 DEF IssueDoes, DataOK, TypeInv, Types
  <2> QED
    BY <2>1, <2>3, <2>4, TypeParts, DataStays DEF IssueDoes
<1>4. CASE RemoveStaging(c)
  <2>1. RemoveStagingDoes(c)
    BY <1>4, RemoveStagingIs
  <2>2. CallInv'
    BY <1>1, <2>1, EndedStays DEF RemoveStagingDoes
  <2>3. DataOK'
    BY <2>1 DEF RemoveStagingDoes, DataOK, TypeInv, Types
  <2> QED
    BY <2>1, <2>2, <2>3, TypeParts, DataStays DEF RemoveStagingDoes
<1> QED
  BY <1>2, <1>3, <1>4

LEMMA CronTypes ==
    ASSUME TypeInv, NEW c \in Crons, CronDoes(c)
    PROVE  TypeInv'
<1>1. c \notin Commits /\ c \notin Reissues /\ Crons \subseteq Calls /\ Senders \subseteq Calls
  BY CallsAssumption DEF Calls, Senders
<1>2. CallInv
  BY TypeParts
<1>3. \A d \in Senders : call'[d] = call[d]
  BY <1>1 DEF CronDoes, Senders
<1>4. CommitsInHand' /\ ReissuesInHand'
  BY <1>2, <1>3 DEF CallInv, CommitsInHand, ReissuesInHand, HasAny, Has, Senders
<1>5. /\ call' = [d \in Calls |-> call'[d]]
      /\ \A d \in Crons : call'[d] \in Sweep
      /\ \A d \in Senders : call'[d] \in Call
  BY <1>1, <1>2, <1>3 DEF CallInv, CronDoes
<1>6. CallInv'
  BY <1>4, <1>5 DEF CallInv
<1>7. row' \in [Rows -> Row]
  <2>1. ASSUME NEW k \in Rows, Unheld(k) PROVE row' \in [Rows -> Row]
    BY <2>1, RowFields, NotedStays DEF Unheld
  <2> QED
    BY <2>1, DataStays DEF CronDoes
<1>8. BatchOK'
  BY DataStays DEF CronDoes, BatchOK
<1>9. DataOK'
  BY DEF CronDoes, DataOK, TypeInv, Types
<1> QED
  BY <1>6, <1>7, <1>8, <1>9, TypeParts

LEMMA CrashTypes ==
    ASSUME TypeInv, NEW c \in Calls, Crash(c)
    PROVE  TypeInv'
<1>1. /\ Ended(c) /\ UNCHANGED <<batch, row>>
      /\ UNCHANGED <<member, image, stored, link, posts, late>>
  BY CrashIs
<1>2. CASE c \in Senders
  BY <1>1, <1>2, EndedStays, TypeParts, DataStays
<1>3. CASE c \in Crons
  <2>1. call'[c] \in Sweep
    BY <1>1 DEF Ended, CallTo, Sweep, Codes, Nothing
  <2>2. CronDoes(c)
    BY <1>1, <2>1 DEF CronDoes, Ended, CallTo, TypeInv, Types
  <2> QED
    BY <1>3, <2>2, CronTypes
<1> QED
  BY <1>2, <1>3 DEF Calls, Senders

LEMMA TypeInit == Init => TypeInv
<1> SUFFICES ASSUME Init PROVE TypeInv
  OBVIOUS
<1>1. \A c \in Calls : call[c] = [pc |-> "off", snap |-> Nothing, code |-> None, active |-> FALSE]
  BY DEF Init, Idle
<1>2. CallInv
  <2>1. \A c \in Senders : call[c] \in Call
    <3>1. [pc |-> "off", snap |-> Nothing, code |-> None, active |-> FALSE] \in Call
      BY DEF Call, Steps, Nothing, Codes
    <3> QED
      BY <1>1, <3>1 DEF Senders, Calls
  <2>2. \A c \in Crons : call[c] \in Sweep
    <3>1. [pc |-> "off", snap |-> Nothing, code |-> None, active |-> FALSE] \in Sweep
      BY DEF Sweep, Nothing, Codes
    <3> QED
      BY <1>1, <3>1 DEF Calls
  <2>3. CommitsInHand /\ ReissuesInHand
    BY <1>1 DEF CommitsInHand, ReissuesInHand, Calls, Nothing, HasAny, Has, BatchSteps, HandSteps,
                EarlySteps, PhotoSteps, MintSteps, SendSteps, ReissueSteps
  <2>4. call = [c \in Calls |-> call[c]]
    BY DEF Init
  <2> QED
    BY <2>1, <2>2, <2>3, <2>4 DEF CallInv
<1>3. row \in [Rows -> Row]
  BY DEF Init, Row, Codes
<1>4. BatchOK
  BY DEF Init, BatchOK
<1>5. DataOK
  BY RowsAssumption DEF Init, DataOK
<1> QED
  BY <1>2, <1>3, <1>4, <1>5, TypeParts

LEMMA TypeStep ==
    ASSUME TypeInv, [Next]_vars
    PROVE  TypeInv'
<1>1. ASSUME NEW c \in Commits,
             \/ Claim(c) \/ CheckLease(c) \/ RequeueRows(c) \/ ReadRows(c) \/ Refresh(c)
             \/ ReadResults(c) \/ CloseBatch(c) \/ Catch(c) \/ RequeueActiveRow(c) \/ Release(c)
             \/ ClaimRow(c) \/ AddMember(c) \/ AttachPendingPhoto(c) \/ MarkPhoto(c)
             \/ Intend(c) \/ MintLink(c)
      PROVE  TypeInv'
  BY <1>1, BatchTypes, ReleaseIs, ReleaseTypes, CommitTypes
<1>2. ASSUME NEW k \in Rows, Reclaim(k) PROVE TypeInv'
  <2>1. ReclaimDoes(k)
    BY <1>2, ReclaimIs
  <2>2. row' \in [Rows -> Row]
    BY <2>1, TurnedStays DEF ReclaimDoes, Codes
  <2>3. CallInv'
    BY <2>1, TypeParts DEF ReclaimDoes, CallInv, CommitsInHand, ReissuesInHand, HasAny, Has
  <2> QED
    BY <2>1, <2>2, <2>3, TypeParts, DataStays DEF ReclaimDoes, QuietRow
<1>3. UNCHANGED call => CallInv'
  BY TypeParts DEF CallInv, CommitsInHand, ReissuesInHand, HasAny, Has
<1>4. ASSUME NEW k \in Rows, SetPassword(k) PROVE TypeInv'
  <2>1. DataOK'
    BY <1>4 DEF SetPassword, DataOK, TypeInv, Types
  <2> QED
    BY <1>3, <1>4, <2>1, TypeParts, DataStays DEF SetPassword
<1>5. CASE Lapse
  <2>1. DataOK'
    BY <1>5 DEF Lapse, DataOK, TypeInv, Types
  <2> QED
    BY <1>3, <1>5, <2>1, TypeParts, DataStays DEF Lapse
<1>6. CASE UNCHANGED vars
  <2>1. DataOK'
    BY <1>6 DEF vars, DataOK, TypeInv, Types
  <2> QED
    BY <1>3, <1>6, <2>1, TypeParts, DataStays DEF vars
<1>7. ASSUME NEW c \in Crons,
             CronRead(c) \/ CronClose(c) \/ \E k \in Rows : CronRemove(c, k) \/ CronMark(c, k)
      PROVE  TypeInv'
  BY <1>7, CronIs, CronTypes
<1>8. ASSUME NEW c \in Reissues,
             (\E k \in Rows : ClaimReissue(c, k)) \/ Issue(c) \/ RemoveStaging(c)
      PROVE  TypeInv'
  BY <1>8, ReissueTypes
<1>9. ASSUME NEW c \in Senders, Attempt(c) \/ Send(c) \/ Sent(c) \/ Create(c) \/ Fail(c)
      PROVE  TypeInv'
  BY <1>9, SenderTypes
<1>10. ASSUME NEW c \in Calls, Crash(c) PROVE TypeInv'
  BY <1>10, CrashTypes
<1> QED
  BY <1>1, <1>2, <1>4, <1>5, <1>6, <1>7, <1>8, <1>9, <1>10 DEF Next, Senders

-----------------------------------------------------------------------------
(* What is ready stays ready. *)

(* What every step leaves to all but the call that makes it. *)
Gentle(c) ==
    /\ \A d \in Senders : d # c => call'[d] = call[d]
    /\ \A k \in Rows :
          /\ member[k] # "none" => member'[k] # "none"
          /\ image[k] => image'[k]
          /\ posts[k] \subseteq posts'[k]
          /\ row[k].key # None => row'[k].key # None
          /\ \A d \in Senders : d # c /\ row'[k].holder = d => row'[k] = row[k]
          /\ member[k] = "none" /\ member'[k] # "none" => row[k].holder = c /\ c # None
          /\ posts'[k] # {} => posts[k] # {} \/ Ready(k)

Keeps(k) == /\ member[k] # "none" => member'[k] # "none"
            /\ image[k] => image'[k]
            /\ posts[k] # {} => posts'[k] # {}
            /\ row[k].key # None => row'[k].key # None
            /\ Ready(k) => Ready(k)'

LEMMA CurrentStays ==
    ASSUME NEW c, call'[c].snap = call[c].snap
    PROVE  Current(c)' = Current(c)
  BY DEF Current

LEMMA RestReady ==
    ASSUME TypeInv, ReadyInv, NEW c, Gentle(c)
    PROVE  /\ \A d \in Commits : d # c => SnapReady(d)' /\ CommitReady(d)'
           /\ \A d \in Reissues : d # c => ReissueReady(d)'
           /\ \A k \in Rows : row'[k] = row[k] => RowReady(k)'
           /\ c \in Commits /\ call'[c].snap = call[c].snap => SnapReady(c)'
           /\ \A k \in Rows : Ready(k) => Ready(k)'
<1>1. \A k \in Rows : Keeps(k)
  BY DEF Gentle, Ready, Keeps
<1>2. ASSUME NEW d \in Commits, call'[d].snap = call[d].snap
      PROVE  SnapReady(d)'
  <2> SUFFICES ASSUME NEW k \in Rows, call[d].snap[k] # None
               PROVE  /\ call[d].snap[k].photo => image'[k]
                      /\ call[d].snap[k].attempted => call[d].snap[k].key # None
                      /\ call[d].snap[k].sent => call[d].snap[k].attempted /\ posts'[k] # {}
                      /\ call[d].snap[k].key # None => row'[k].key # None
    BY <1>2 DEF SnapReady, Has
  <2>1. /\ call[d].snap[k].photo => image[k]
        /\ call[d].snap[k].attempted => call[d].snap[k].key # None
        /\ call[d].snap[k].sent => call[d].snap[k].attempted /\ posts[k] # {}
        /\ call[d].snap[k].key # None => row[k].key # None
    BY DEF ReadyInv, SnapReady, Has
  <2> QED
    BY <2>1 DEF Gentle
<1>3. ASSUME NEW d \in Commits, d # c
      PROVE  CommitReady(d)'
  <2>1. call'[d] = call[d] /\ Current(d)' = Current(d) /\ CommitReady(d)
    BY <1>3, CurrentStays DEF Gentle, Senders, ReadyInv
  <2>2. CASE call[d].pc \in {"photo", "photoMark", "fail"} \cup MintSteps \cup SendSteps
    <3>1. Current(d) \in Rows
      BY <2>2, CommitHand DEF HandSteps, PhotoSteps
    <3>2. row'[Current(d)].holder = d => row'[Current(d)] = row[Current(d)]
      BY <1>3, <3>1 DEF Gentle, Senders
    <3>3. row[Current(d)].holder = d /\ member[Current(d)] = "none" => member'[Current(d)] = "none"
      BY <1>3, <3>1 DEF Gentle
    <3> DEFINE k == Current(d)
    <3>4. Keeps(k)
      BY <1>1, <3>1
    <3>5. call'[d].code = call[d].code /\ call'[d].pc = call[d].pc
      BY <2>1
    <3> QED
      BY <2>1, <3>2, <3>3, <3>4, <3>5 DEF CommitReady, Keeps
  <2>3. CASE call[d].pc \notin {"photo", "photoMark", "fail"} \cup MintSteps \cup SendSteps
    BY <2>1, <2>3 DEF CommitReady, SendSteps
  <2> QED
    BY <2>2, <2>3
<1>4. ASSUME NEW d \in Reissues, d # c
      PROVE  ReissueReady(d)'
  <2>1. call'[d] = call[d] /\ Current(d)' = Current(d) /\ ReissueReady(d)
    BY <1>4, CurrentStays DEF Gentle, Senders, ReadyInv
  <2>2. CASE call[d].pc \in ReissueSteps
    <3>1. Current(d) \in Rows
      BY <2>2, ReissueHand
    <3>2. row'[Current(d)].holder = d => row'[Current(d)] = row[Current(d)]
      BY <1>4, <3>1 DEF Gentle, Senders
    <3> QED
      BY <1>1, <2>1, <3>1, <3>2 DEF ReissueReady, Keeps
  <2>3. CASE call[d].pc \notin ReissueSteps
    BY <2>1, <2>3 DEF ReissueReady, ReissueSteps
  <2> QED
    BY <2>2, <2>3
<1>5. ASSUME NEW k \in Rows, row'[k] = row[k]
      PROVE  RowReady(k)'
  <2>1. RowReady(k)
    BY DEF ReadyInv
  <2>2. row[k].code = "exists" => row[k].holder = None
    BY <2>1, NoneAssumption DEF RowReady
  <2>3. row[k].code = "exists" => member'[k] = "none"
    BY <2>1, <2>2 DEF Gentle, RowReady
  <2>4. /\ posts[k] # {} => posts'[k] # {}
        /\ image[k] => image'[k]
        /\ posts'[k] # {} => posts[k] # {} \/ Ready(k)
        /\ Ready(k) => Ready(k)'
    BY <1>1 DEF Gentle, Keeps
  <2> QED
    BY <1>5, <2>1, <2>3, <2>4 DEF RowReady, Ready
<1>6. \A d \in Commits : d # c => call'[d].snap = call[d].snap
  BY DEF Gentle, Senders
<1> QED
  BY <1>1, <1>2, <1>3, <1>4, <1>5, <1>6 DEF Keeps

LEMMA ReadyAgain ==
    ASSUME TypeInv, ReadyInv, NEW c, Gentle(c),
           \A k \in Rows : row'[k] # row[k] => RowReady(k)',
           c \in Commits => /\ call'[c].snap = call[c].snap \/ SnapReady(c)'
                           /\ CommitReady(c)',
           c \in Reissues => ReissueReady(c)'
    PROVE  ReadyInv'
  BY RestReady DEF ReadyInv

(* Steps that leave the rows, or change one. *)
LEMMA GentleQuiet ==
    ASSUME NEW c, \A d \in Senders : d # c => call'[d] = call[d],
           UNCHANGED <<row, member, image, posts>>
    PROVE  Gentle(c)
  BY DEF Gentle

LEMMA GentleRow ==
    ASSUME NEW c, \A d \in Senders : d # c => call'[d] = call[d],
           UNCHANGED <<member, image, posts>>, NEW k \in Rows, NEW r, RowTo(k, r),
           r.key = None => row[k].key = None, r.holder \in {c, None}
    PROVE  Gentle(c)
  BY NoneAssumption DEF Gentle, RowTo, Senders

LEMMA CallToOthers ==
    ASSUME NEW c, NEW pc, NEW snap, NEW code, NEW active, CallTo(c, pc, snap, code, active)
    PROVE  /\ \A d \in Senders : d # c => call'[d] = call[d]
           /\ call'[c].pc = pc /\ call'[c].snap = snap /\ call'[c].code = code
           /\ call'[c].active = active
  BY DEF CallTo, Senders, Calls

LEMMA MovesOthers ==
    ASSUME NEW c
    PROVE  /\ \A pc : To(c, pc) =>
                 /\ \A d \in Senders : d # c => call'[d] = call[d]
                 /\ call'[c].pc = pc /\ call'[c].snap = call[c].snap /\ Current(c)' = Current(c)
           /\ \A code : Failed(c, code) =>
                 /\ \A d \in Senders : d # c => call'[d] = call[d]
                 /\ call'[c].pc = "fail" /\ call'[c].code = code
                 /\ call'[c].snap = call[c].snap /\ Current(c)' = Current(c)
           /\ Ended(c) =>
                 /\ \A d \in Senders : d # c => call'[d] = call[d]
                 /\ call'[c].pc = "done" /\ call'[c].snap = Nothing
<1>1. \A pc, snap, code, active : CallTo(c, pc, snap, code, active) =>
         /\ \A d \in Senders : d # c => call'[d] = call[d]
         /\ call'[c].pc = pc /\ call'[c].snap = snap /\ call'[c].code = code
  BY CallToOthers
<1>2. call'[c].snap = call[c].snap => Current(c)' = Current(c)
  BY CurrentStays
<1>3. ASSUME NEW pc, To(c, pc)
      PROVE  /\ \A d \in Senders : d # c => call'[d] = call[d]
             /\ call'[c].pc = pc /\ call'[c].snap = call[c].snap
  BY <1>1, <1>3 DEF To
<1>4. ASSUME NEW code, Failed(c, code)
      PROVE  /\ \A d \in Senders : d # c => call'[d] = call[d]
             /\ call'[c].pc = "fail" /\ call'[c].code = code /\ call'[c].snap = call[c].snap
  BY <1>1, <1>4 DEF Failed
<1>5. Ended(c) => /\ \A d \in Senders : d # c => call'[d] = call[d]
                  /\ call'[c].pc = "done" /\ call'[c].snap = Nothing
  BY <1>1 DEF Ended
<1> QED
  BY <1>2, <1>3, <1>4, <1>5

LEMMA CalmReady ==
    ASSUME NEW c,
           \/ call'[c].pc \notin {"photo", "photoMark", "fail"} \cup MintSteps \cup SendSteps
           \/ call'[c].pc = "fail" /\ call'[c].code = "retry"
    PROVE  CommitReady(c)'
  BY DEF CommitReady, MintSteps, SendSteps

LEMMA NothingReady ==
    ASSUME NEW c, call'[c].snap = Nothing
    PROVE  SnapReady(c)'
  BY DEF SnapReady, Has, Nothing

LEMMA TurnedReady ==
    ASSUME TypeInv, ReadyInv, NEW k \in Rows, NEW st, NEW co, NEW ho, Turned(k, st, co, ho),
           UNCHANGED <<member, image, posts>>,
           co # None <=> st = "failed", ho # None => st = "processing",
           co = "unknown" => Ready(k) /\ row[k].key # None,
           co = "exists" => member[k] = "none", st = "created" => Ready(k)
    PROVE  RowReady(k)'
<1>1. RowReady(k)
  BY DEF ReadyInv
<1>2. Ready(k)' <=> Ready(k)
  BY DEF Ready
<1> QED
  BY <1>1, <1>2 DEF Turned, RowTo, RowOf, RowReady

LEMMA NotedReady ==
    ASSUME TypeInv, ReadyInv, NEW c, Gentle(c), NEW k \in Rows,
           NEW ph, NEW at, NEW se, NEW ke, NEW ho, Noted(k, ph, at, se, ke, ho),
           UNCHANGED posts, row[k].status = "processing",
           at => ke # None, se => at /\ posts[k] # {},
           ke \in Reissues => Ready(k), ph => image[k]
    PROVE  RowReady(k)'
<1>1. RowReady(k)
  BY DEF ReadyInv
<1>2. /\ Ready(k) => Ready(k)'
      /\ image[k] => image'[k]
  BY RestReady DEF Gentle
<1>3. row[k].code = None
  BY <1>1 DEF RowReady
<1>4. row'[k] = RowOf("processing", None, ph, at, se, ke, ho)
  BY <1>3 DEF Noted, RowTo
<1> QED
  BY <1>1, <1>2, <1>4, NoneAssumption DEF RowOf, RowReady

LEMMA UnheldReady ==
    ASSUME TypeInv, ReadyInv, NEW c, Gentle(c), NEW k \in Rows, Unheld(k), UNCHANGED posts,
           member'[k] = member[k] \/ row[k].status = "processing"
    PROVE  RowReady(k)'
<1>1. RowReady(k)
  BY DEF ReadyInv
<1>2. /\ Ready(k) => Ready(k)'
      /\ image[k] => image'[k]
  BY RestReady DEF Gentle
<1>3. row'[k] = RowOf(row[k].status, row[k].code, row[k].photo, row[k].attempted, row[k].sent,
                      row[k].key, None)
  BY DEF Unheld, Noted, RowTo
<1>4. row[k].code = "exists" => member'[k] = "none"
  BY <1>1, NoneAssumption DEF RowReady
<1> QED
  BY <1>1, <1>2, <1>3, <1>4 DEF RowOf, RowReady

LEMMA BatchReady ==
    ASSUME TypeInv, ReadyInv, NEW c \in Commits,
           ClaimDoes(c) \/ CheckLeaseDoes(c) \/ ReleaseDoes(c)
    PROVE  ReadyInv'
<1>1. c \notin Reissues
  BY CallsAssumption
<1>2. /\ \A d \in Senders : d # c => call'[d] = call[d]
      /\ call'[c].snap \in {call[c].snap, Nothing}
      /\ call'[c].pc \in {"read", "requeueCheck", "requeue", "claim", "member", "result", "catch",
                         "reopen", "finish", "restage", "release", "done"}
  BY MovesOthers DEF ClaimDoes, CheckLeaseDoes, ReleaseDoes
<1>3. Gentle(c) /\ UNCHANGED row
  BY <1>2, GentleQuiet DEF ClaimDoes, CheckLeaseDoes, ReleaseDoes, QuietBatch
<1>4. CommitReady(c)'
  BY <1>2, CalmReady DEF MintSteps, SendSteps
<1> QED
  BY <1>1, <1>2, <1>3, <1>4, NothingReady, ReadyAgain

LEMMA RequeueRowsReady ==
    ASSUME TypeInv, ReadyInv, NEW c \in Commits, RequeueRowsDoes(c)
    PROVE  ReadyInv'
<1>1. c \notin Reissues
  BY CallsAssumption
<1>2. /\ \A d \in Senders : d # c => call'[d] = call[d]
      /\ call'[c].snap = call[c].snap
      /\ call'[c].pc \in {"read", "catch"}
  BY MovesOthers DEF RequeueRowsDoes
<1>3. /\ \A k \in Rows : row'[k] # row[k] =>
               /\ row[k].status = "processing"
               /\ row'[k] = RowOf("staged", None, row[k].photo, row[k].attempted, row[k].sent,
                                  row[k].key, None)
      /\ UNCHANGED <<member, image, posts>>
  BY DEF RequeueRowsDoes, QuietRow
<1>4. ASSUME NEW k \in Rows, row'[k] # row[k]
      PROVE  row'[k].key = row[k].key /\ row'[k].holder = None
  <2>1. row'[k] = RowOf("staged", None, row[k].photo, row[k].attempted, row[k].sent,
                        row[k].key, None)
    BY <1>3, <1>4
  <2> QED
    BY <2>1 DEF RowOf
<1> None \notin Senders
  BY NoneAssumption DEF Senders
<1>5. Gentle(c)
  <2>1. ASSUME NEW k \in Rows
        PROVE  /\ row[k].key # None => row'[k].key # None
               /\ \A d \in Senders : d # c /\ row'[k].holder = d => row'[k] = row[k]
    BY <1>4
  <2> QED
    BY <1>2, <1>3, <2>1 DEF Gentle
<1>6. ASSUME NEW k \in Rows, row'[k] # row[k] PROVE RowReady(k)'
  <2>1. RowReady(k)
    BY DEF ReadyInv
  <2>2. Ready(k)' <=> Ready(k)
    BY <1>3 DEF Ready
  <2> QED
    <3>1. row'[k] = RowOf("staged", None, row[k].photo, row[k].attempted, row[k].sent,
                          row[k].key, None)
      BY <1>3, <1>6
    <3>2. /\ row'[k].status = "staged" /\ row'[k].code = None /\ row'[k].holder = None
          /\ row'[k].photo = row[k].photo /\ row'[k].attempted = row[k].attempted
          /\ row'[k].sent = row[k].sent /\ row'[k].key = row[k].key
      BY <3>1 DEF RowOf
    <3>3. UNCHANGED <<member, image, posts>>
      BY <1>3
    <3> QED
      BY <2>1, <2>2, <3>2, <3>3, NoneAssumption DEF RowReady
<1>7. CommitReady(c)'
  BY <1>2, CalmReady DEF MintSteps, SendSteps
<1> QED
  BY <1>1, <1>2, <1>5, <1>6, <1>7, ReadyAgain

LEMMA ReadRowsReady ==
    ASSUME TypeInv, ReadyInv, NEW c \in Commits, ReadRowsDoes(c)
    PROVE  ReadyInv'
<1>1. c \notin Reissues
  BY CallsAssumption
<1>2. /\ \A d \in Senders : d # c => call'[d] = call[d]
      /\ call'[c].snap = call[c].snap \/ call'[c].snap = [k \in Rows |-> Read(k)]
      /\ call'[c].pc \in {"cleanCheck", "rowCheck", "catch"}
  BY MovesOthers, CallToOthers DEF ReadRowsDoes
<1>3. Gentle(c) /\ UNCHANGED <<row, image, posts>>
  BY <1>2, GentleQuiet DEF ReadRowsDoes, QuietBatch
<1>4. ASSUME call'[c].snap = [k \in Rows |-> Read(k)] PROVE SnapReady(c)'
  <2> SUFFICES ASSUME NEW k \in Rows, Read(k) # None
               PROVE  /\ Read(k).photo => image'[k]
                      /\ Read(k).attempted => Read(k).key # None
                      /\ Read(k).sent => Read(k).attempted /\ posts'[k] # {}
                      /\ Read(k).key # None => row'[k].key # None
    BY <1>4 DEF SnapReady, Has
  <2>1. Read(k) = Seen(row[k]) /\ RowReady(k)
    BY DEF Read, ReadyInv
  <2> QED
    BY <1>3, <2>1 DEF Seen, RowReady
<1>5. CommitReady(c)'
  BY <1>2, CalmReady DEF MintSteps, SendSteps
<1> QED
  BY <1>1, <1>2, <1>3, <1>4, <1>5, ReadyAgain

LEMMA RefreshReady ==
    ASSUME TypeInv, ReadyInv, NEW c \in Commits, RefreshDoes(c)
    PROVE  ReadyInv'
<1>1. c \notin Reissues
  BY CallsAssumption
<1>2. /\ \A d \in Senders : d # c => call'[d] = call[d]
      /\ \/ call'[c].snap = call[c].snap
         \/ /\ call'[c].snap[Current(c)] = None
            /\ \A k \in Rows : k # Current(c) => call'[c].snap[k] = call[c].snap[k]
      /\ call'[c].pc \in {"cleanCheck", "rowCheck", "catch"}
  <2>1. ASSUME NEW p \in {"cleanCheck", "rowCheck"}, NEW snap,
               CallTo(c, p, snap, call[c].code, call[c].active),
               /\ snap[Current(c)] = None
               /\ \A k \in Rows : k # Current(c) => snap[k] = call[c].snap[k]
        PROVE  <1>2!1 /\ <1>2!2 /\ <1>2!3
    BY <2>1, CallToOthers
  <2> QED
    BY <2>1, MovesOthers DEF RefreshDoes
<1>3. Gentle(c) /\ UNCHANGED <<row, image, posts>>
  BY <1>2, GentleQuiet DEF RefreshDoes, QuietBatch
<1>4. SnapReady(c)
  BY DEF ReadyInv
<1>5. ASSUME call'[c].snap # call[c].snap PROVE SnapReady(c)'
  <2> SUFFICES ASSUME NEW k \in Rows, Has(c, k)'
               PROVE  /\ call'[c].snap[k].photo => image'[k]
                      /\ call'[c].snap[k].attempted => call'[c].snap[k].key # None
                      /\ call'[c].snap[k].sent => call'[c].snap[k].attempted /\ posts'[k] # {}
                      /\ call'[c].snap[k].key # None => row'[k].key # None
    BY DEF SnapReady
  <2>1. call'[c].snap[k] = call[c].snap[k] /\ Has(c, k)
    BY <1>2, <1>5 DEF Has
  <2> QED
    BY <1>3, <1>4, <2>1 DEF SnapReady
<1>6. CommitReady(c)'
  BY <1>2, CalmReady DEF MintSteps, SendSteps
<1> QED
  BY <1>1, <1>2, <1>3, <1>5, <1>6, ReadyAgain

(* A row written by the call c, in its own hand. *)
LEMMA GentleTurned ==
    ASSUME NEW c, \A d \in Senders : d # c => call'[d] = call[d],
           UNCHANGED <<member, image, posts>>, NEW k \in Rows,
           NEW st, NEW co, NEW ho \in {c, None}, Turned(k, st, co, ho)
    PROVE  Gentle(c)
<1> DEFINE r == RowOf(st, co, row[k].photo, row[k].attempted, row[k].sent, row[k].key, ho)
<1>1. RowTo(k, r) /\ r.key = row[k].key /\ r.holder = ho
  BY DEF Turned, RowOf
<1> HIDE DEF r
<1> QED
  BY <1>1, GentleRow

LEMMA GentleNoted ==
    ASSUME NEW c, \A d \in Senders : d # c => call'[d] = call[d],
           UNCHANGED <<member, image, posts>>, NEW k \in Rows,
           NEW ph, NEW at, NEW se, NEW ke, ke = None => row[k].key = None,
           NEW ho \in {c, None}, Noted(k, ph, at, se, ke, ho)
    PROVE  Gentle(c)
<1> DEFINE r == RowOf(row[k].status, row[k].code, ph, at, se, ke, ho)
<1>1. RowTo(k, r) /\ r.key = ke /\ r.holder = ho
  BY DEF Noted, RowOf
<1> HIDE DEF r
<1> QED
  BY <1>1, GentleRow

LEMMA OnlyRow ==
    ASSUME NEW k, NEW a, NEW b, NEW d, NEW e, NEW f, NEW g,
           Turned(k, a, b, g) \/ Noted(k, a, b, d, e, g)
    PROVE  \A j \in Rows : j # k => row'[j] = row[j]
  BY DEF Turned, Noted, RowTo

LEMMA DeliverReady ==
    ASSUME TypeInv, ReadyInv, NEW c \in Commits, Current(c) \in Rows, Has(c, Current(c)),
           Gentle(c), Ready(Current(c))', DeliverDoes(c)
    PROVE  CommitReady(c)'
<1> DEFINE k == Current(c)
           s == call[c].snap[k]
<1>1. Current(c)' = k /\ call'[c].snap = call[c].snap
  BY MovesOthers DEF DeliverDoes
<1>2. s.attempted => s.key # None /\ row[k].key # None
  BY DEF ReadyInv, SnapReady
<1>3. row[k].key # None => row'[k].key # None
  BY DEF Gentle
<1>4. \/ call'[c].pc = "fail" /\ call'[c].code = "unknown" /\ s.attempted
      \/ call'[c].pc \in {"create", "intent", "mint"}
  BY MovesOthers DEF DeliverDoes
<1>5. Ready(Current(c))'
  OBVIOUS
<1> QED
  BY <1>1, <1>2, <1>3, <1>4, <1>5 DEF CommitReady

LEMMA ClaimRowReady ==
    ASSUME TypeInv, ReadyInv, NEW c \in Commits, ClaimRowDoes(c)
    PROVE  ReadyInv'
<1>0. PICK k : k = Current(c)
  OBVIOUS
<1>1. c \notin Reissues
  BY CallsAssumption
<1>2. k \in Rows
  BY <1>0, CommitHand DEF ClaimRowDoes, HandSteps, EarlySteps
<1>3. /\ \A d \in Senders : d # c => call'[d] = call[d]
      /\ call'[c].snap = call[c].snap
      /\ call'[c].pc \in {"claimCheck", "catch"}
  <2>1. \A pc, active : CallTo(c, pc, call[c].snap, call[c].code, active) =>
           /\ \A d \in Senders : d # c => call'[d] = call[d]
           /\ call'[c].snap = call[c].snap /\ call'[c].pc = pc
    BY CallToOthers
  <2> QED
    BY <2>1 DEF ClaimRowDoes
<1>4. /\ UNCHANGED row \/ \E ho \in {c, None} : Turned(k, "processing", None, ho)
      /\ UNCHANGED <<member, image, posts>>
  BY <1>0 DEF ClaimRowDoes, QuietRow
<1>5. Gentle(c)
  BY <1>2, <1>3, <1>4, GentleQuiet, GentleTurned
<1>6. \A j \in Rows : row'[j] # row[j] => RowReady(j)'
  <2>1. ASSUME NEW ho \in {c, None}, Turned(k, "processing", None, ho) PROVE RowReady(k)'
    BY <1>2, <1>4, <2>1, TurnedReady, NoneAssumption
  <2>2. ASSUME NEW ho, Turned(k, "processing", None, ho)
        PROVE  \A j \in Rows : j # k => row'[j] = row[j]
    BY <2>2 DEF Turned, RowTo
  <2> QED
    BY <1>4, <2>1, <2>2
<1>7. CommitReady(c)'
  BY <1>3, CalmReady DEF MintSteps, SendSteps
<1> QED
  BY <1>1, <1>3, <1>5, <1>6, <1>7, ReadyAgain

LEMMA RequeueActiveRowReady ==
    ASSUME TypeInv, ReadyInv, NEW c \in Commits, RequeueActiveRowDoes(c)
    PROVE  ReadyInv'
<1>0. PICK k : k = Current(c)
  OBVIOUS
<1>1. c \notin Reissues
  BY CallsAssumption
<1>2. k \in Rows
  BY <1>0, CommitHand DEF RequeueActiveRowDoes, HandSteps
<1>3. /\ \A d \in Senders : d # c => call'[d] = call[d]
      /\ call'[c].snap \in {call[c].snap, Nothing}
      /\ call'[c].pc \in {"release", "done"}
  BY MovesOthers DEF RequeueActiveRowDoes
<1>4. /\ UNCHANGED row \/ Turned(k, "staged", None, None)
      /\ UNCHANGED <<member, image, posts>>
  BY <1>0 DEF RequeueActiveRowDoes, QuietRow
<1>5. Gentle(c)
  BY <1>2, <1>3, <1>4, GentleQuiet, GentleTurned
<1>6. \A j \in Rows : row'[j] # row[j] => RowReady(j)'
  BY <1>2, <1>4, OnlyRow, TurnedReady, NoneAssumption
<1>7. CommitReady(c)'
  BY <1>3, CalmReady DEF MintSteps, SendSteps
<1> QED
  BY <1>1, <1>3, <1>5, <1>6, <1>7, NothingReady, ReadyAgain

LEMMA AddMemberReady ==
    ASSUME TypeInv, ReadyInv, NEW c \in Commits, AddMemberDoes(c)
    PROVE  ReadyInv'
<1>0. PICK k : k = Current(c)
  OBVIOUS
<1>1. c \notin Reissues /\ c \in Senders /\ c # None
  BY CallsAssumption, NoneAssumption DEF Senders
<1>2. k \in Rows /\ Has(c, k)
  BY <1>0, CommitHand DEF AddMemberDoes, HandSteps, PhotoSteps
<1>3. /\ \A d \in Senders : d # c => call'[d] = call[d]
      /\ call'[c].snap = call[c].snap /\ Current(c)' = k
  BY <1>0, MovesOthers DEF AddMemberDoes, DeliverDoes
<1>4. /\ UNCHANGED <<image, posts>>
      /\ UNCHANGED row \/ Unheld(k)
      /\ \/ UNCHANGED member
         \/ /\ row[k].holder = c /\ member[k] = "none"
            /\ member' = [member EXCEPT ![k] = "waiting"]
  BY <1>0 DEF AddMemberDoes
<1>5. row[k].holder = c => row[k].status = "processing"
  BY <1>1, <1>2 DEF ReadyInv, RowReady
<1>6. Gentle(c)
  <2>1. \A j \in Rows : row'[j] = row[j] \/ (row'[j].key = row[j].key /\ row'[j].holder = None)
    BY <1>2, <1>4 DEF Unheld, Noted, RowTo, RowOf
  <2>2. \A j \in Rows : /\ member[j] # "none" => member'[j] # "none"
                        /\ member[j] = "none" /\ member'[j] # "none" => row[j].holder = c /\ c # None
    BY <1>1, <1>2, <1>4 DEF TypeInv, Types
  <2>3. \A d \in Senders : d # None
    BY NoneAssumption DEF Senders
  <2> QED
    BY <1>3, <1>4, <2>1, <2>2, <2>3 DEF Gentle
<1>7. \A j \in Rows : row'[j] # row[j] => RowReady(j)'
  <2>1. Unheld(k) => \/ member'[k] = member[k]
                     \/ row[k].status = "processing"
    BY <1>4, <1>5
  <2>2. Unheld(k) => RowReady(k)'
    BY <1>2, <1>4, <1>6, <2>1, UnheldReady
  <2>3. \A j \in Rows : row'[j] # row[j] => j = k /\ Unheld(k)
    BY <1>4 DEF Unheld, Noted, RowTo
  <2> QED
    BY <2>2, <2>3
<1>8. CommitReady(c)'
  <2>1. member'[k] # "none" \/ Failed(c, "retry") \/ Failed(c, "exists")
    BY <1>0, <1>2 DEF AddMemberDoes, TypeInv, Types
  <2>2. CASE Failed(c, "retry")
    BY <2>2, MovesOthers, CalmReady
  <2>3. CASE Failed(c, "exists")
    <3>1. call'[c].pc = "fail" /\ call'[c].code = "exists"
      BY <2>3, MovesOthers
    <3>2. UNCHANGED member /\ member[k] = "none"
      BY <1>3, <3>1, MovesOthers DEF AddMemberDoes, DeliverDoes
    <3> QED
      BY <1>3, <3>1, <3>2 DEF CommitReady, MintSteps, SendSteps
  <2>4. CASE To(c, "photo")
    BY <1>3, <2>1, <2>4, MovesOthers DEF CommitReady, MintSteps, SendSteps
  <2>5. CASE DeliverDoes(c) /\ (k \in Pictured => call[c].snap[k].photo) /\ member'[k] # "none"
    <3>1. Ready(k)'
      BY <1>2, <1>4, <2>5 DEF Ready, ReadyInv, SnapReady
    <3>2. Ready(Current(c))'
      BY <1>3, <3>1 DEF Ready
    <3> QED
      BY <1>0, <1>2, <1>6, <2>5, <3>2, DeliverReady
  <2> QED
    BY <1>0, <2>1, <2>2, <2>3, <2>4, <2>5 DEF AddMemberDoes
<1> QED
  BY <1>1, <1>3, <1>6, <1>7, <1>8, ReadyAgain

LEMMA AttachPhotoReady ==
    ASSUME TypeInv, ReadyInv, NEW c \in Commits, AttachPhotoDoes(c)
    PROVE  ReadyInv'
<1>0. PICK k : k = Current(c)
  OBVIOUS
<1>1. c \notin Reissues
  BY CallsAssumption
<1>2. k \in Rows /\ CommitReady(c) /\ call[c].pc = "photo"
  BY <1>0, CommitHand DEF AttachPhotoDoes, HandSteps, PhotoSteps, ReadyInv
<1>3. /\ \A d \in Senders : d # c => call'[d] = call[d]
      /\ call'[c].snap = call[c].snap /\ Current(c)' = k
      /\ \/ call'[c].pc = "photoMark" /\ image' = [image EXCEPT ![k] = TRUE]
         \/ call'[c].pc = "fail" /\ call'[c].code = "retry"
  BY <1>0, MovesOthers DEF AttachPhotoDoes
<1>4. /\ UNCHANGED <<row, member, posts>>
      /\ UNCHANGED image \/ image' = [image EXCEPT ![k] = TRUE]
  BY <1>0 DEF AttachPhotoDoes
<1>5. Gentle(c)
  BY <1>3, <1>4 DEF Gentle, TypeInv, Types
<1>6. CommitReady(c)'
  <2>1. CASE call'[c].pc = "photoMark" /\ image' = [image EXCEPT ![k] = TRUE]
    <3>1. member[k] # "none" /\ image'[k]
      BY <1>0, <1>2, <2>1 DEF CommitReady, TypeInv, Types
    <3> QED
      BY <1>3, <1>4, <2>1, <3>1 DEF CommitReady, MintSteps, SendSteps
  <2> QED
    BY <1>3, <2>1, CalmReady
<1> QED
  BY <1>1, <1>3, <1>4, <1>5, <1>6, ReadyAgain

LEMMA MarkPhotoReady ==
    ASSUME TypeInv, ReadyInv, NEW c \in Commits, MarkPhotoDoes(c)
    PROVE  ReadyInv'
<1>0. PICK k : k = Current(c)
  OBVIOUS
<1>1. c \notin Reissues /\ c # None
  BY CallsAssumption, NoneAssumption
<1>2. k \in Rows /\ Has(c, k) /\ CommitReady(c) /\ RowReady(k) /\ call[c].pc = "photoMark"
  BY <1>0, CommitHand DEF MarkPhotoDoes, HandSteps, PhotoSteps, ReadyInv
<1>3. /\ \A d \in Senders : d # c => call'[d] = call[d]
      /\ call'[c].snap = call[c].snap /\ Current(c)' = k
  BY <1>0, MovesOthers DEF MarkPhotoDoes, DeliverDoes
<1>4. /\ UNCHANGED <<member, image, posts>>
      /\ \/ UNCHANGED row
         \/ /\ row[k].holder = c
            /\ \E ho \in {c, None} :
                  Noted(k, TRUE, row[k].attempted, row[k].sent, row[k].key, ho)
  BY <1>0 DEF MarkPhotoDoes, QuietRow
<1>5. Gentle(c)
  BY <1>2, <1>3, <1>4, GentleQuiet, GentleNoted
<1>6. Ready(k) /\ image[k]
  BY <1>0, <1>2 DEF CommitReady, Ready
<1>7. ASSUME NEW ph, NEW ho, row[k].holder = c,
             Noted(k, ph, row[k].attempted, row[k].sent, row[k].key, ho)
      PROVE  RowReady(k)'
  <2>1. /\ row[k].status = "processing"
        /\ row[k].attempted => row[k].key # None
        /\ row[k].sent => row[k].attempted /\ posts[k] # {}
    BY <1>1, <1>2, <1>7 DEF RowReady
  <2>2. UNCHANGED posts
    BY <1>4
  <2> QED
    BY <1>2, <1>5, <1>6, <1>7, <2>1, <2>2, NotedReady
<1>8. \A j \in Rows : row'[j] # row[j] => RowReady(j)'
  <2>1. \A j \in Rows : row'[j] # row[j] => j = k
    BY <1>4 DEF Noted, RowTo
  <2> QED
    BY <1>4, <1>7, <2>1
<1>9. CommitReady(c)'
  <2>1. Ready(Current(c))'
    BY <1>3, <1>4, <1>6 DEF Ready
  <2>2. DeliverDoes(c) \/ Failed(c, "retry")
    BY <1>0 DEF MarkPhotoDoes
  <2>3. DeliverDoes(c) => CommitReady(c)'
    BY <1>0, <1>2, <1>5, <2>1, DeliverReady
  <2> QED
    BY <2>2, <2>3, MovesOthers, CalmReady
<1> QED
  BY <1>1, <1>3, <1>5, <1>8, <1>9, ReadyAgain

LEMMA IntendReady ==
    ASSUME TypeInv, ReadyInv, NEW c \in Commits, IntendDoes(c)
    PROVE  ReadyInv'
<1>0. PICK k : k = Current(c)
  OBVIOUS
<1>1. c \notin Reissues /\ c # None /\ Import # None /\ Import \notin Reissues
  BY CallsAssumption, NoneAssumption
<1>2. k \in Rows /\ CommitReady(c) /\ RowReady(k) /\ call[c].pc = "intent"
  BY <1>0, CommitHand DEF IntendDoes, HandSteps, MintSteps, ReadyInv
<1>3. /\ \A d \in Senders : d # c => call'[d] = call[d]
      /\ call'[c].snap = call[c].snap /\ Current(c)' = k
      /\ call'[c].pc = "mint" \/ (call'[c].pc = "fail" /\ call'[c].code = "retry")
  BY <1>0, MovesOthers DEF IntendDoes
<1>4. /\ UNCHANGED <<member, image, posts>>
      /\ \/ UNCHANGED row
         \/ /\ row[k].holder = c
            /\ \E ho \in {c, None} :
                  Noted(k, row[k].photo, row[k].attempted, row[k].sent, Import, ho)
  BY <1>0 DEF IntendDoes, QuietRow
<1>5. Gentle(c)
  BY <1>1, <1>2, <1>3, <1>4, GentleQuiet, GentleNoted
<1>6. Ready(k)
  BY <1>0, <1>2 DEF CommitReady, MintSteps
<1>7. ASSUME NEW ho, row[k].holder = c,
             Noted(k, row[k].photo, row[k].attempted, row[k].sent, Import, ho)
      PROVE  RowReady(k)'
  <2>1. /\ row[k].status = "processing"
        /\ row[k].sent => row[k].attempted /\ posts[k] # {}
        /\ row[k].photo => image[k]
    BY <1>1, <1>2, <1>7 DEF RowReady
  <2>2. UNCHANGED posts
    BY <1>4
  <2> QED
    BY <1>1, <1>2, <1>5, <1>6, <1>7, <2>1, <2>2, NotedReady
<1>8. \A j \in Rows : row'[j] # row[j] => RowReady(j)'
  <2>1. \A j \in Rows : row'[j] # row[j] => j = k
    BY <1>4 DEF Noted, RowTo
  <2> QED
    BY <1>4, <1>7, <2>1
<1>9. CommitReady(c)'
  <2>1. Ready(Current(c))'
    BY <1>3, <1>4, <1>6 DEF Ready
  <2>2. CASE call'[c].pc = "mint"
    BY <2>1, <2>2 DEF CommitReady
  <2> QED
    BY <1>3, <2>2, CalmReady
<1> QED
  BY <1>1, <1>3, <1>5, <1>8, <1>9, ReadyAgain

LEMMA MintLinkReady ==
    ASSUME TypeInv, ReadyInv, NEW c \in Commits, MintLinkDoes(c)
    PROVE  ReadyInv'
<1>0. PICK k : k = Current(c)
  OBVIOUS
<1>1. c \notin Reissues
  BY CallsAssumption
<1>2. k \in Rows /\ CommitReady(c) /\ call[c].pc = "mint"
  BY <1>0, CommitHand DEF MintLinkDoes, HandSteps, MintSteps, ReadyInv
<1>3. /\ \A d \in Senders : d # c => call'[d] = call[d]
      /\ call'[c].snap = call[c].snap /\ Current(c)' = k
      /\ call'[c].pc = "attempt" \/ (call'[c].pc = "fail" /\ call'[c].code = "retry")
  BY <1>0, MovesOthers DEF MintLinkDoes
<1>4. UNCHANGED <<row, member, image, posts>>
  BY <1>0 DEF MintLinkDoes
<1>5. Gentle(c)
  BY <1>3, <1>4, GentleQuiet
<1>6. Ready(k)
  BY <1>0, <1>2 DEF CommitReady, MintSteps
<1>7. CommitReady(c)'
  <2>1. Ready(Current(c))'
    BY <1>3, <1>4, <1>6 DEF Ready
  <2>2. CASE call'[c].pc = "attempt"
    BY <2>1, <2>2 DEF CommitReady
  <2> QED
    BY <1>3, <2>2, CalmReady
<1> QED
  BY <1>1, <1>3, <1>4, <1>5, <1>7, ReadyAgain

LEMMA SenderIsReady ==
    ASSUME TypeInv, ReadyInv, NEW c \in Senders,
           call[c].pc \in {"attempt", "send", "sent", "create"}
    PROVE  /\ Ready(Current(c))
           /\ call[c].pc \in {"send", "sent"} \/ c \in Reissues => row[Current(c)].key # None
           /\ call[c].pc = "sent" => posts[Current(c)] # {}
           /\ call[c].pc \in {"send", "sent"} /\ row[Current(c)].holder = c
                 => row[Current(c)].attempted
<1>1. CASE c \in Commits
  BY <1>1, CallsAssumption DEF ReadyInv, CommitReady, MintSteps, SendSteps
<1>2. CASE c \in Reissues
  BY <1>2 DEF ReadyInv, ReissueReady, ReissueSteps
<1> QED
  BY <1>1, <1>2 DEF Senders

LEMMA SenderAgain ==
    ASSUME TypeInv, NEW c \in Senders, NEW k, Current(c)' = k,
           Ready(k)', row'[k].key # None,
           \/ call'[c].pc = "fail" /\ call'[c].code = "unknown"
           \/ call'[c].pc = "remove" /\ c \in Reissues
           \/ /\ call'[c].pc \in {"send", "sent", "create"}
              /\ call'[c].pc = "sent" => posts'[k] # {}
              /\ call'[c].pc \in {"send", "sent"} /\ row'[k].holder = c => row'[k].attempted
    PROVE  /\ c \in Commits => CommitReady(c)'
           /\ c \in Reissues => ReissueReady(c)'
<1>1. Ready(Current(c))'
  BY DEF Ready
<1>2. ReissueReady(c)'
  BY <1>1 DEF ReissueReady
<1>3. ASSUME c \in Commits PROVE CommitReady(c)'
  <2>1. c \notin Reissues
    BY <1>3, CallsAssumption
  <2> QED
    BY <1>1, <2>1 DEF CommitReady
<1> QED
  BY <1>2, <1>3

LEMMA SenderRests ==
    ASSUME NEW c,
           \/ c \in Commits /\ call'[c].pc = "fail" /\ call'[c].code = "retry"
           \/ c \in Commits /\ call'[c].pc \in {"refresh", "catch"}
           \/ c \in Reissues /\ call'[c].pc = "done"
    PROVE  /\ c \in Commits => CommitReady(c)'
           /\ c \in Reissues => ReissueReady(c)'
<1>1. c \in Commits => c \notin Reissues
  BY CallsAssumption
<1>2. ASSUME c \in Commits PROVE CommitReady(c)'
  BY <1>1, <1>2, CalmReady DEF MintSteps, SendSteps
<1>3. ASSUME c \in Reissues PROVE ReissueReady(c)'
  BY <1>1, <1>3 DEF ReissueReady, ReissueSteps
<1> QED
  BY <1>2, <1>3

LEMMA AttemptReady ==
    ASSUME TypeInv, ReadyInv, NEW c \in Senders, AttemptDoes(c)
    PROVE  ReadyInv'
<1>0. PICK k : k = Current(c)
  OBVIOUS
<1>1. c # None /\ Has(c, k) /\ k \in Rows /\ call[c].pc = "attempt"
  BY <1>0, SenderHand, NoneAssumption DEF Senders, AttemptDoes
<1>2. Ready(k) /\ RowReady(k) /\ (c \in Reissues => row[k].key # None)
  BY <1>0, <1>1, SenderIsReady DEF ReadyInv
<1>3. KeyOf(c) # None /\ (KeyOf(c) \in Reissues => Ready(k))
  BY <1>0, <1>1, <1>2, KeyOfIs, NoneAssumption DEF Keys
<1>4. /\ \A d \in Senders : d # c => call'[d] = call[d]
      /\ call'[c].snap = call[c].snap /\ Current(c)' = k
  BY <1>0, MovesOthers DEF AttemptDoes
<1>5. /\ UNCHANGED <<member, image, posts>>
      /\ \/ UNCHANGED row
         \/ /\ row[k].holder = c
            /\ \E ho \in {c, None} : Noted(k, row[k].photo, TRUE, row[k].sent, KeyOf(c), ho)
  BY <1>0 DEF AttemptDoes, QuietRow
<1>6. Gentle(c)
  <2>1. ASSUME NEW at, NEW ho \in {c, None},
               Noted(k, row[k].photo, at, row[k].sent, KeyOf(c), ho)
        PROVE  Gentle(c)
    BY <1>1, <1>3, <1>4, <1>5, <2>1, GentleNoted
  <2> QED
    BY <1>4, <1>5, <2>1, GentleQuiet
<1>7. ASSUME NEW ho, row[k].holder = c,
             Noted(k, row[k].photo, TRUE, row[k].sent, KeyOf(c), ho)
      PROVE  RowReady(k)'
  <2>1. /\ row[k].status = "processing"
        /\ row[k].sent => posts[k] # {}
        /\ row[k].photo => image[k]
    BY <1>1, <1>2, <1>7 DEF RowReady
  <2>2. UNCHANGED posts
    BY <1>5
  <2>3. row[k].code = None
    BY <1>2, <2>1 DEF RowReady
  <2>4. /\ row'[k].status = "processing" /\ row'[k].code = None
        /\ row'[k].photo = row[k].photo /\ row'[k].attempted = TRUE
        /\ row'[k].sent = row[k].sent /\ row'[k].key = KeyOf(c)
    BY <1>7, <2>1, <2>3 DEF Noted, RowTo, RowOf
  <2>5. Ready(k)' /\ image'[k] = image[k]
    BY <1>2, <1>5 DEF Ready
  <2> QED
    BY <1>3, <2>1, <2>2, <2>4, <2>5, NoneAssumption DEF RowReady
<1>8. \A j \in Rows : row'[j] # row[j] => RowReady(j)'
  <2>1. \A j \in Rows : row'[j] # row[j] => j = k
    BY <1>5 DEF Noted, RowTo
  <2> QED
    BY <1>5, <1>7, <2>1
<1>9. /\ c \in Commits => CommitReady(c)'
      /\ c \in Reissues => ReissueReady(c)'
  <2>1. Ready(k)'
    BY <1>2, <1>5 DEF Ready
  <2>2. CASE To(c, "send") /\ row[k].holder = c /\ Noted(k, row[k].photo, TRUE, row[k].sent, KeyOf(c), c)
    <3>1. row'[k].key # None /\ row'[k].attempted
      BY <1>3, <2>2 DEF Noted, RowTo, RowOf
    <3>2. call'[c].pc = "send"
      BY <2>2, MovesOthers
    <3> QED
      BY <1>4, <2>1, <3>1, <3>2, SenderAgain
  <2>3. CASE c \in Reissues /\ Failed(c, "unknown")
    <3>1. row'[k].key # None
      BY <1>1, <1>2, <1>6, <2>3 DEF Gentle
    <3>2. call'[c].pc = "fail" /\ call'[c].code = "unknown"
      BY <2>3, MovesOthers
    <3> QED
      BY <1>4, <2>1, <3>1, <3>2, SenderAgain
  <2>4. CASE c \in Commits /\ Failed(c, "retry")
    BY <2>4, MovesOthers, SenderRests
  <2> QED
    BY <1>0, <2>2, <2>3, <2>4 DEF AttemptDoes
<1> QED
  BY <1>4, <1>6, <1>8, <1>9, ReadyAgain

LEMMA SendReady ==
    ASSUME TypeInv, ReadyInv, NEW c \in Senders, SendDoes(c)
    PROVE  ReadyInv'
<1>0. PICK k : k = Current(c)
  OBVIOUS
<1>1. k \in Rows /\ call[c].pc = "send"
  BY <1>0, SenderHand DEF SendDoes
<1>2. Ready(k) /\ row[k].key # None /\ (row[k].holder = c => row[k].attempted)
  BY <1>0, <1>1, SenderIsReady
<1>3. /\ \A d \in Senders : d # c => call'[d] = call[d]
      /\ call'[c].snap = call[c].snap /\ Current(c)' = k
      /\ \/ call'[c].pc = "sent" /\ posts' = [posts EXCEPT ![k] = posts[k] \cup {Message(c)}]
         \/ call'[c].pc = "fail" /\ call'[c].code = "unknown"
  BY <1>0, MovesOthers DEF SendDoes
<1>4. /\ UNCHANGED <<row, member, image>>
      /\ UNCHANGED posts \/ posts' = [posts EXCEPT ![k] = posts[k] \cup {Message(c)}]
  BY <1>0 DEF SendDoes
<1>5. \A j \in Rows : /\ posts[j] \subseteq posts'[j]
                      /\ posts'[j] # {} => posts[j] # {} \/ Ready(j)
  BY <1>1, <1>2, <1>4 DEF TypeInv, Types
<1>6. Gentle(c)
  BY <1>3, <1>4, <1>5 DEF Gentle
<1>7. /\ c \in Commits => CommitReady(c)'
      /\ c \in Reissues => ReissueReady(c)'
  <2>1. Ready(k)' /\ row'[k].key # None /\ (row'[k].holder = c => row'[k].attempted)
    BY <1>2, <1>4 DEF Ready
  <2>2. call'[c].pc = "sent" => posts'[k] # {}
    BY <1>1, <1>3 DEF TypeInv, Types
  <2> QED
    BY <1>3, <2>1, <2>2, SenderAgain
<1> QED
  BY <1>3, <1>4, <1>6, <1>7, ReadyAgain

LEMMA SentReady ==
    ASSUME TypeInv, ReadyInv, NEW c \in Senders, SentDoes(c)
    PROVE  ReadyInv'
<1>0. PICK k : k = Current(c)
  OBVIOUS
<1>1. c # None /\ k \in Rows /\ call[c].pc = "sent"
  BY <1>0, SenderHand, NoneAssumption DEF Senders, SentDoes
<1>2. /\ Ready(k) /\ RowReady(k) /\ row[k].key # None /\ posts[k] # {}
      /\ row[k].holder = c => row[k].attempted
  BY <1>0, <1>1, SenderIsReady DEF ReadyInv
<1>3. /\ \A d \in Senders : d # c => call'[d] = call[d]
      /\ call'[c].snap = call[c].snap /\ Current(c)' = k
      /\ \/ call'[c].pc = "create"
         \/ call'[c].pc = "fail" /\ call'[c].code = "unknown"
  BY <1>0, MovesOthers DEF SentDoes
<1>4. /\ UNCHANGED <<member, image, posts>>
      /\ \/ UNCHANGED row
         \/ /\ row[k].holder = c
            /\ \E ho \in {c, None} : Noted(k, row[k].photo, row[k].attempted, TRUE, row[k].key, ho)
  BY <1>0 DEF SentDoes, QuietRow
<1>5. Gentle(c)
  <2>1. ASSUME NEW se, NEW ho \in {c, None},
               Noted(k, row[k].photo, row[k].attempted, se, row[k].key, ho)
        PROVE  Gentle(c)
    BY <1>1, <1>3, <1>4, <2>1, GentleNoted
  <2> QED
    BY <1>3, <1>4, <2>1, GentleQuiet
<1>6. ASSUME NEW se, NEW ho, row[k].holder = c,
             Noted(k, row[k].photo, row[k].attempted, se, row[k].key, ho)
      PROVE  RowReady(k)'
  <2>1. /\ row[k].status = "processing" /\ row[k].attempted
        /\ row[k].photo => image[k]
    BY <1>1, <1>2, <1>6 DEF RowReady
  <2>2. UNCHANGED posts
    BY <1>4
  <2> QED
    BY <1>1, <1>2, <1>5, <1>6, <2>1, <2>2, NotedReady
<1>7. \A j \in Rows : row'[j] # row[j] => RowReady(j)'
  <2>1. \A j \in Rows : row'[j] # row[j] => j = k
    BY <1>4 DEF Noted, RowTo
  <2> QED
    BY <1>4, <1>6, <2>1
<1>8. /\ c \in Commits => CommitReady(c)'
      /\ c \in Reissues => ReissueReady(c)'
  <2>1. Ready(k)' /\ row'[k].key # None
    BY <1>1, <1>2, <1>4, <1>5 DEF Ready, Gentle
  <2> QED
    BY <1>3, <2>1, SenderAgain
<1> QED
  BY <1>3, <1>5, <1>7, <1>8, ReadyAgain

LEMMA CreateReady ==
    ASSUME TypeInv, ReadyInv, NEW c \in Senders, CreateDoes(c)
    PROVE  ReadyInv'
<1>0. PICK k : k = Current(c)
  OBVIOUS
<1>1. k \in Rows /\ call[c].pc = "create"
  BY <1>0, SenderHand DEF CreateDoes
<1>2. Ready(k) /\ (c \in Reissues => row[k].key # None)
  BY <1>0, <1>1, SenderIsReady
<1>3. \A pc, active : CallTo(c, pc, call[c].snap, call[c].code, active) =>
         /\ \A d \in Senders : d # c => call'[d] = call[d]
         /\ call'[c].snap = call[c].snap /\ call'[c].pc = pc
  BY CallToOthers
<1>4. /\ \A d \in Senders : d # c => call'[d] = call[d]
      /\ call'[c].snap = call[c].snap
      /\ \/ c \in Reissues /\ call'[c].pc = "remove"
         \/ c \in Reissues /\ call'[c].pc = "fail" /\ call'[c].code = "unknown"
         \/ c \in Commits /\ call'[c].pc = "refresh"
         \/ c \in Commits /\ call'[c].pc = "fail" /\ call'[c].code = "retry"
  BY <1>3, MovesOthers DEF CreateDoes
<1>5. Current(c)' = k
  BY <1>0, <1>4, CurrentStays
<1>6. /\ UNCHANGED <<member, image, posts>>
      /\ UNCHANGED row \/ Turned(k, "created", None, None)
  BY <1>0 DEF CreateDoes, QuietRow
<1>7. Gentle(c)
  BY <1>1, <1>4, <1>6, GentleQuiet, GentleTurned
<1>8. \A j \in Rows : row'[j] # row[j] => RowReady(j)'
  BY <1>1, <1>2, <1>6, OnlyRow, TurnedReady, NoneAssumption
<1>9. /\ c \in Commits => CommitReady(c)'
      /\ c \in Reissues => ReissueReady(c)'
  <2>1. Ready(k)' /\ (c \in Reissues => row'[k].key # None)
    BY <1>1, <1>2, <1>6, <1>7 DEF Ready, Gentle
  <2> QED
    BY <1>4, <1>5, <2>1, SenderAgain, SenderRests
<1> QED
  BY <1>4, <1>7, <1>8, <1>9, ReadyAgain

LEMMA FailReady ==
    ASSUME TypeInv, ReadyInv, NEW c \in Senders, FailDoes(c)
    PROVE  ReadyInv'
<1>0. PICK k : k = Current(c)
  OBVIOUS
<1>1. k \in Rows /\ call[c].pc = "fail"
  BY <1>0, SenderHand DEF FailDoes
<1>2. /\ call[c].code \in Codes \ {None}
      /\ call[c].code = "unknown" => Ready(k) /\ row[k].key # None
      /\ call[c].code = "exists" /\ row[k].holder = c => member[k] = "none"
  <2>1. CASE c \in Commits
    BY <1>0, <1>1, <2>1, CallFields DEF ReadyInv, CommitReady, TypeInv, CommitsInHand
  <2>2. CASE c \in Reissues
    BY <1>0, <1>1, <2>2, CallFields, NoneAssumption
       DEF ReadyInv, ReissueReady, ReissueSteps, TypeInv, ReissuesInHand
  <2> QED
    BY <2>1, <2>2 DEF Senders
<1>3. \A pc, active : CallTo(c, pc, call[c].snap, call[c].code, active) =>
         /\ \A d \in Senders : d # c => call'[d] = call[d]
         /\ call'[c].snap = call[c].snap /\ call'[c].pc = pc
  BY CallToOthers
<1>4. /\ \A d \in Senders : d # c => call'[d] = call[d]
      /\ c \in Commits => call'[c].snap = call[c].snap
      /\ \/ c \in Reissues /\ call'[c].pc = "done"
         \/ c \in Commits /\ call'[c].pc \in {"refresh", "catch"}
  BY <1>3, MovesOthers, CallsAssumption DEF FailDoes
<1>5. /\ UNCHANGED <<member, image, posts>>
      /\ UNCHANGED row \/ (row[k].holder = c /\ Turned(k, "failed", call[c].code, None))
  BY <1>0 DEF FailDoes, QuietRow
<1>6. Gentle(c)
  BY <1>1, <1>4, <1>5, GentleQuiet, GentleTurned
<1>7. \A j \in Rows : row'[j] # row[j] => RowReady(j)'
  <2>1. ASSUME Turned(k, "failed", call[c].code, None), row[k].holder = c PROVE RowReady(k)'
    BY <1>1, <1>2, <1>5, <2>1, TurnedReady
  <2> QED
    BY <1>5, <2>1, OnlyRow
<1>8. /\ c \in Commits => CommitReady(c)'
      /\ c \in Reissues => ReissueReady(c)'
  BY <1>4, SenderRests
<1> QED
  BY <1>4, <1>6, <1>7, <1>8, ReadyAgain

LEMMA ClaimReissueHand ==
    ASSUME TypeInv, NEW c \in Reissues, NEW k \in Rows, ClaimReissueDoes(c, k),
           call'[c].pc = "issue"
    PROVE  /\ Current(c)' = k
           /\ \A j \in Rows : j # k => row'[j] = row[j]
           /\ row'[k].status = "processing" /\ row'[k].key = c /\ row'[k].holder = c
           /\ ~row'[k].attempted /\ ~row'[k].sent
<1>1. c \in Senders /\ Seen(row[k]) # None
  BY RowFields, NoneAssumption DEF Senders, Seen, Snap, Keys
<1>2. /\ RowTo(k, RowOf("processing", None, row[k].photo, FALSE, FALSE, c, c))
      /\ call'[c].snap = [call[c].snap EXCEPT ![k] = Seen(row[k])]
  <2> DEFINE snap == [call[c].snap EXCEPT ![k] = Seen(row[k])]
  <2>1. ~Ended(c)
    BY MovesOthers
  <2>2. /\ RowTo(k, RowOf("processing", None, row[k].photo, FALSE, FALSE, c, c))
        /\ CallTo(c, "issue", snap, call[c].code, call[c].active)
    BY <2>1 DEF ClaimReissueDoes
  <2> HIDE DEF snap
  <2>3. call'[c].snap = snap
    BY <2>2, CallToOthers
  <2> QED
    BY <2>2, <2>3 DEF snap
<1>3. \A j \in Rows : call[c].snap[j] = None
  BY DEF ClaimReissueDoes, TypeInv, ReissuesInHand, HasAny, Has
<1>4. call[c].snap \in [Rows -> Snap \cup {None}]
  BY <1>1, CallFields
<1>5. /\ call'[c].snap[k] # None
      /\ \A j \in Rows : j # k => call'[c].snap[j] = None
  BY <1>1, <1>2, <1>3, <1>4
<1>6. Foremost(call'[c].snap) \in Rows /\ call'[c].snap[Foremost(call'[c].snap)] # None
  BY <1>5, ForemostIs
<1>7. Current(c)' = k
  BY <1>5, <1>6 DEF Current
<1> QED
  BY <1>2, <1>7 DEF RowTo, RowOf

LEMMA ClaimReissueReady ==
    ASSUME TypeInv, ReadyInv, NEW c \in Reissues, NEW k \in Rows, ClaimReissueDoes(c, k)
    PROVE  ReadyInv'
<1>1. c \notin Commits /\ c # None
  BY CallsAssumption, NoneAssumption
<1>2. /\ \A d \in Senders : d # c => call'[d] = call[d]
      /\ call'[c].pc \in {"issue", "done"}
  <2>1. ASSUME NEW snap, CallTo(c, "issue", snap, call[c].code, call[c].active)
        PROVE  (\A d \in Senders : d # c => call'[d] = call[d]) /\ call'[c].pc = "issue"
    BY <2>1, CallToOthers
  <2>2. Ended(c) => (\A d \in Senders : d # c => call'[d] = call[d]) /\ call'[c].pc = "done"
    BY MovesOthers
  <2> QED
    BY <2>1, <2>2 DEF ClaimReissueDoes
<1>3. RowReady(k) /\ Ready(k)
  BY DEF ReadyInv, RowReady, ClaimReissueDoes
<1>4. /\ UNCHANGED <<member, image, posts>>
      /\ \E ho \in {c, None} :
            RowTo(k, RowOf("processing", None, row[k].photo, FALSE, FALSE, c, ho))
  BY DEF ClaimReissueDoes, QuietRow
<1>5. Gentle(c)
  <2>1. ASSUME NEW ho \in {c, None}, NEW r,
               r = RowOf("processing", None, row[k].photo, FALSE, FALSE, c, ho), RowTo(k, r)
        PROVE  Gentle(c)
    <3>1. r.key = c /\ r.holder = ho
      BY <2>1 DEF RowOf
    <3> QED
      BY <1>1, <1>2, <1>4, <2>1, <3>1, GentleRow
  <2> QED
    BY <1>4, <2>1
<1>6. ASSUME NEW ho \in {c, None},
             RowTo(k, RowOf("processing", None, row[k].photo, FALSE, FALSE, c, ho))
      PROVE  RowReady(k)'
  <2>1. /\ row'[k].status = "processing" /\ row'[k].code = None
        /\ row'[k].photo = row[k].photo /\ ~row'[k].attempted
        /\ ~row'[k].sent /\ row'[k].key = c
    BY <1>6 DEF RowTo, RowOf
  <2>2. Ready(k)' /\ image'[k] = image[k]
    BY <1>3, <1>4 DEF Ready
  <2> QED
    BY <1>1, <1>3, <2>1, <2>2, NoneAssumption DEF RowReady
<1>7. \A j \in Rows : row'[j] # row[j] => RowReady(j)'
  <2>1. \A j \in Rows : row'[j] # row[j] => j = k
    BY <1>4 DEF RowTo
  <2> QED
    BY <1>4, <1>6, <2>1
<1>8. ReissueReady(c)'
  <2>1. CASE call'[c].pc = "issue"
    <3>1. Current(c)' = k /\ row'[k].key = c
      BY <2>1, ClaimReissueHand
    <3>2. Ready(Current(c))'
      BY <1>3, <1>4, <3>1 DEF Ready
    <3> QED
      BY <1>1, <2>1, <3>1, <3>2 DEF ReissueReady
  <2>2. CASE call'[c].pc = "done"
    BY <2>2, SenderRests
  <2> QED
    BY <1>2, <2>1, <2>2
<1> QED
  BY <1>1, <1>5, <1>7, <1>8, ReadyAgain

LEMMA ReissueStepsReady ==
    ASSUME TypeInv, ReadyInv, NEW c \in Reissues, IssueDoes(c) \/ RemoveStagingDoes(c)
    PROVE  ReadyInv'
<1>0. PICK k : k = Current(c)
  OBVIOUS
<1>1. c \notin Commits /\ c \in Senders
  BY CallsAssumption DEF Senders
<1>2. k \in Rows /\ Ready(k) /\ row[k].key # None
  BY <1>0, ReissueHand DEF IssueDoes, RemoveStagingDoes, ReadyInv, ReissueReady, ReissueSteps
<1>3. /\ \A d \in Senders : d # c => call'[d] = call[d]
      /\ \/ call'[c].pc = "done"
         \/ /\ Current(c)' = k
            /\ \/ call'[c].pc = "attempt"
               \/ call'[c].pc = "fail" /\ call'[c].code = "unknown"
  BY <1>0, MovesOthers DEF IssueDoes, RemoveStagingDoes
<1>4. UNCHANGED <<row, member, image, posts>>
  BY DEF IssueDoes, RemoveStagingDoes
<1>5. Gentle(c)
  BY <1>3, <1>4, GentleQuiet
<1>6. ReissueReady(c)'
  <2>1. CASE call'[c].pc = "done"
    BY <2>1, SenderRests
  <2>2. CASE Current(c)' = k /\ call'[c].pc \in {"attempt", "fail"}
    <3>1. Ready(Current(c))'
      BY <1>2, <1>4, <2>2 DEF Ready
    <3> QED
      BY <1>2, <1>4, <2>2, <3>1 DEF ReissueReady
  <2> QED
    BY <1>3, <2>1, <2>2
<1> QED
  BY <1>1, <1>4, <1>5, <1>6, ReadyAgain

LEMMA ReclaimReady ==
    ASSUME TypeInv, ReadyInv, NEW k \in Rows, ReclaimDoes(k)
    PROVE  ReadyInv'
<1>1. None \notin Commits /\ None \notin Reissues
  BY NoneAssumption
<1>2. /\ UNCHANGED <<member, image, posts>> /\ UNCHANGED call
      /\ Turned(k, "failed", "unknown", None)
  BY DEF ReclaimDoes, QuietRow
<1>3. Gentle(None)
  BY <1>2, GentleTurned
<1>4. Ready(k) /\ row[k].key # None
  BY NoneAssumption DEF ReadyInv, RowReady, ReclaimDoes
<1>5. \A j \in Rows : row'[j] # row[j] => RowReady(j)'
  BY <1>2, <1>4, OnlyRow, TurnedReady, NoneAssumption
<1> QED
  BY <1>1, <1>3, <1>5, ReadyAgain

LEMMA OutsideReady ==
    ASSUME TypeInv, ReadyInv,
           (\E k \in Rows : SetPassword(k)) \/ Lapse \/ UNCHANGED vars
    PROVE  ReadyInv'
<1>1. None \notin Commits /\ None \notin Reissues
  BY NoneAssumption
<1>2. /\ UNCHANGED <<row, call, image, posts>>
      /\ UNCHANGED member \/ \E k \in Rows : posts[k] # {} /\ member' = [member EXCEPT ![k] = "set"]
  BY DEF SetPassword, Lapse, vars
<1>3. \A k \in Rows : posts[k] # {} => member[k] # "none"
  BY DEF ReadyInv, RowReady, Ready
<1>4. \A j \in Rows : /\ member[j] # "none" => member'[j] # "none"
                      /\ member[j] = "none" => member'[j] = "none"
  BY <1>2, <1>3 DEF TypeInv, Types
<1>5. Gentle(None)
  BY <1>2, <1>4 DEF Gentle
<1> QED
  BY <1>1, <1>2, <1>5, ReadyAgain

LEMMA CronReady ==
    ASSUME TypeInv, ReadyInv, NEW c \in Crons, CronDoes(c)
    PROVE  ReadyInv'
<1>1. c \notin Commits /\ c \notin Reissues
  BY CallsAssumption
<1>2. /\ \A d \in Senders : call'[d] = call[d]
      /\ UNCHANGED <<member, image, posts>>
      /\ UNCHANGED row \/ \E k \in Rows : Unheld(k)
  BY <1>1 DEF CronDoes, Senders, Calls
<1>3. Gentle(c)
  <2>1. ASSUME NEW k \in Rows, Unheld(k) PROVE Gentle(c)
    <3> DEFINE r == RowOf(row[k].status, row[k].code, row[k].photo, row[k].attempted,
                          row[k].sent, row[k].key, None)
    <3>1. RowTo(k, r) /\ r.key = row[k].key /\ r.holder = None
      BY <2>1 DEF Unheld, Noted, RowOf
    <3> HIDE DEF r
    <3> QED
      BY <1>2, <3>1, GentleRow
  <2> QED
    BY <1>2, <2>1, GentleQuiet
<1>4. \A j \in Rows : row'[j] # row[j] => RowReady(j)'
  <2>1. ASSUME NEW k \in Rows, Unheld(k) PROVE RowReady(k)'
    BY <1>2, <1>3, <2>1, UnheldReady
  <2>2. ASSUME NEW k \in Rows, NEW j \in Rows, Unheld(k), row'[j] # row[j] PROVE j = k
    BY <2>2 DEF Unheld, Noted, RowTo
  <2> QED
    BY <1>2, <2>1, <2>2
<1> QED
  BY <1>1, <1>3, <1>4, ReadyAgain

(* The steps, told apart by what they do. *)
CommitDoes(c) ==
    \/ ClaimDoes(c) \/ CheckLeaseDoes(c) \/ RequeueRowsDoes(c) \/ ReadRowsDoes(c)
    \/ RefreshDoes(c) \/ ReleaseDoes(c) \/ RequeueActiveRowDoes(c) \/ ClaimRowDoes(c)
    \/ AddMemberDoes(c) \/ AttachPhotoDoes(c) \/ MarkPhotoDoes(c) \/ IntendDoes(c)
    \/ MintLinkDoes(c)
SenderDoes(c) == \/ AttemptDoes(c) \/ SendDoes(c) \/ SentDoes(c) \/ CreateDoes(c) \/ FailDoes(c)
ReissueDoes(c) == \/ \E k \in Rows : ClaimReissueDoes(c, k)
                  \/ IssueDoes(c) \/ RemoveStagingDoes(c)
CrashDoes(c) == /\ Ended(c) /\ UNCHANGED <<batch, row>>
                /\ UNCHANGED <<member, image, stored, link, posts, late>>
Outside == (\E k \in Rows : SetPassword(k)) \/ Lapse \/ UNCHANGED vars

LEMMA StepIs ==
    ASSUME TypeInv, [Next]_vars
    PROVE  \/ \E c \in Commits : CommitDoes(c)
           \/ \E c \in Senders : SenderDoes(c)
           \/ \E c \in Reissues : ReissueDoes(c)
           \/ \E c \in Crons : CronDoes(c)
           \/ \E c \in Calls : CrashDoes(c)
           \/ \E k \in Rows : ReclaimDoes(k)
           \/ Outside
<1>1. ASSUME NEW c \in Commits,
             \/ Claim(c) \/ CheckLease(c) \/ RequeueRows(c) \/ ReadRows(c) \/ Refresh(c)
             \/ ReadResults(c) \/ CloseBatch(c) \/ Catch(c) \/ RequeueActiveRow(c) \/ Release(c)
             \/ ClaimRow(c) \/ AddMember(c) \/ AttachPendingPhoto(c) \/ MarkPhoto(c)
             \/ Intend(c) \/ MintLink(c)
      PROVE  CommitDoes(c)
  BY <1>1, ClaimIs, CheckLeaseIs, RequeueRowsIs, ReadRowsIs, RefreshIs, ReleaseIs,
     RequeueActiveRowIs, ClaimRowIs, AddMemberIs, AttachPhotoIs, MarkPhotoIs, IntendIs, MintLinkIs
     DEF CommitDoes
<1>2. ASSUME NEW c \in Senders, Attempt(c) \/ Send(c) \/ Sent(c) \/ Create(c) \/ Fail(c)
      PROVE  SenderDoes(c)
  BY <1>2, AttemptIs, SendIs, SentIs, CreateIs, FailIs DEF SenderDoes
<1>3. ASSUME NEW c \in Reissues,
             (\E k \in Rows : ClaimReissue(c, k)) \/ Issue(c) \/ RemoveStaging(c)
      PROVE  ReissueDoes(c)
  BY <1>3, ClaimReissueIs, IssueIs, RemoveStagingIs DEF ReissueDoes
<1>4. ASSUME NEW c \in Crons,
             CronRead(c) \/ CronClose(c) \/ \E k \in Rows : CronRemove(c, k) \/ CronMark(c, k)
      PROVE  CronDoes(c)
  BY <1>4, CronIs
<1>5. ASSUME NEW c \in Calls, Crash(c) PROVE CrashDoes(c)
  BY <1>5, CrashIs DEF CrashDoes
<1>6. ASSUME NEW k \in Rows, Reclaim(k) PROVE ReclaimDoes(k)
  BY <1>6, ReclaimIs
<1> QED
  BY <1>1, <1>2, <1>3, <1>4, <1>5, <1>6 DEF Next, Outside, Senders

LEMMA CrashReady ==
    ASSUME TypeInv, ReadyInv, NEW c \in Calls, CrashDoes(c)
    PROVE  ReadyInv'
<1>1. Ended(c) /\ UNCHANGED <<row, member, image, posts>>
  BY DEF CrashDoes
<1>2. /\ \A d \in Senders : d # c => call'[d] = call[d]
      /\ call'[c].pc = "done" /\ call'[c].snap = Nothing
  BY <1>1, MovesOthers
<1>3. Gentle(c)
  BY <1>1, <1>2, GentleQuiet
<1>4. CommitReady(c)'
  BY <1>2, CalmReady DEF MintSteps, SendSteps
<1>5. ReissueReady(c)'
  BY <1>2 DEF ReissueReady, ReissueSteps
<1> QED
  BY <1>1, <1>2, <1>3, <1>4, <1>5, NothingReady, ReadyAgain

LEMMA ReadyStep ==
    ASSUME TypeInv, ReadyInv, [Next]_vars
    PROVE  ReadyInv'
<1>1. ASSUME NEW c \in Commits, CommitDoes(c) PROVE ReadyInv'
  BY <1>1, BatchReady, RequeueRowsReady, ReadRowsReady, RefreshReady, RequeueActiveRowReady,
     ClaimRowReady, AddMemberReady, AttachPhotoReady, MarkPhotoReady, IntendReady, MintLinkReady
     DEF CommitDoes
<1>2. ASSUME NEW c \in Senders, SenderDoes(c) PROVE ReadyInv'
  BY <1>2, AttemptReady, SendReady, SentReady, CreateReady, FailReady DEF SenderDoes
<1>3. ASSUME NEW c \in Reissues, ReissueDoes(c) PROVE ReadyInv'
  BY <1>3, ClaimReissueReady, ReissueStepsReady DEF ReissueDoes
<1>4. ASSUME NEW c \in Calls, CrashDoes(c) PROVE ReadyInv'
  BY <1>4, CrashReady
<1> QED
  BY <1>1, <1>2, <1>3, <1>4, StepIs, CronReady, ReclaimReady, OutsideReady DEF Outside

LEMMA ReadyInit == Init => ReadyInv
<1> SUFFICES ASSUME Init PROVE ReadyInv
  OBVIOUS
<1>1. \A c \in Calls : call[c].pc = "off" /\ call[c].snap = Nothing
  BY DEF Init, Idle
<1>2. ASSUME NEW k \in Rows PROVE RowReady(k)
  <2>1. /\ row[k].status = "staged" /\ row[k].code = None /\ ~row[k].photo /\ ~row[k].attempted
        /\ ~row[k].sent /\ row[k].key = None /\ row[k].holder = None /\ posts[k] = {}
    BY DEF Init
  <2> QED
    BY <2>1, NoneAssumption DEF RowReady
<1>3. ASSUME NEW c \in Commits PROVE SnapReady(c) /\ CommitReady(c)
  BY <1>1 DEF Calls, SnapReady, Has, Nothing, CommitReady, MintSteps, SendSteps
<1>4. ASSUME NEW c \in Reissues PROVE ReissueReady(c)
  BY <1>1 DEF Calls, ReissueReady, ReissueSteps
<1> QED
  BY <1>2, <1>3, <1>4 DEF ReadyInv

LEMMA TypeIsOK == TypeInv /\ ReadyInv => TypeOK
<1> SUFFICES ASSUME TypeInv, ReadyInv PROVE TypeOK
  OBVIOUS
<1>1. /\ batch.status \in {"ready", "processing", "completed", "expired"}
      /\ batch.owner \in Commits \cup {None}
      /\ batch.owner # None => batch.status = "processing"
  BY DEF TypeInv, Types
<1>2. ASSUME NEW k \in Rows
      PROVE  /\ row[k].status \in {"staged", "processing", "created", "failed"}
             /\ row[k].code \in {None, "retry", "exists", "unknown"}
             /\ row[k].code # None <=> row[k].status = "failed"
             /\ row[k].key \in Keys \cup {None}
             /\ row[k].attempted => row[k].key # None
             /\ row[k].sent => row[k].attempted
             /\ row[k].holder \in Commits \cup Reissues \cup {None}
             /\ row[k].holder # None => row[k].status = "processing"
             /\ member[k] \in {"none", "waiting", "set"}
             /\ link[k] \in Keys \cup {None}
             /\ posts[k] \subseteq [key : Keys, by : Commits \cup Reissues, link : Keys]
  <2>1. RowReady(k)
    BY DEF ReadyInv
  <2>2. posts[k] \subseteq [key : Keys, by : Commits \cup Reissues, link : Keys]
    BY DEF TypeInv, Types, Post, Senders
  <2>3. member[k] \in {"none", "waiting", "set"} /\ link[k] \in Keys \cup {None}
    BY DEF TypeInv, Types
  <2> QED
    BY <2>1, <2>2, <2>3, RowFields DEF RowReady, Codes, Senders
<1>3. ASSUME NEW c \in Calls PROVE call[c].pc \in Steps
  BY DEF TypeInv, Types, Calls, Senders, Call, Sweep, Steps
<1> QED
  BY <1>1, <1>2, <1>3 DEF TypeOK

(* Types, and the check constraints of the rows on what was attempted and  *)
(* sent, hold after every step of any commits, reissues and expiry runs.   *)
THEOREM TypeCorrect == Spec => []TypeOK
<1>1. Init => TypeInv /\ ReadyInv
  BY TypeInit, ReadyInit
<1>2. TypeInv /\ ReadyInv /\ [Next]_vars => (TypeInv /\ ReadyInv)'
  BY TypeStep, ReadyStep
<1> QED
  BY <1>1, <1>2, TypeIsOK, PTL DEF Spec

(* What the error of a failed row says of it is true: a row in doubt can   *)
(* be reissued, a row that "already exists" has made and sent nothing.     *)
THEOREM FailuresHold == Spec => []FailuresAreTrue
<1>1. Init => TypeInv /\ ReadyInv
  BY TypeInit, ReadyInit
<1>2. TypeInv /\ ReadyInv /\ [Next]_vars => (TypeInv /\ ReadyInv)'
  BY TypeStep, ReadyStep
<1>3. TypeInv /\ ReadyInv => FailuresAreTrue
  BY DEF ReadyInv, RowReady, Ready, FailuresAreTrue
<1> QED
  BY <1>1, <1>2, <1>3, PTL DEF Spec

-----------------------------------------------------------------------------
(* Every key is used once. *)

LEMMA OtherStays ==
    ASSUME NEW d, call'[d] = call[d]
    PROVE  /\ Current(d)' = Current(d) /\ KeyOf(d)' = KeyOf(d)
           /\ \A k : (Has(d, k)' <=> Has(d, k)) /\ (Pending(d, k)' <=> Pending(d, k))
           /\ \A k, key : Flies(d, k, key)' <=> Flies(d, k, key)
  BY DEF Current, KeyOf, Has, Pending, Flies

(* What a step of c does to row k's key, and to what c has read of it. *)
Rekeys(c, k) ==
    \/ row'[k].key = row[k].key /\ row'[k].attempted = row[k].attempted
    \/ /\ row'[k].attempted \/ Fresh(k, Name(row'[k].key))
       /\ \A e \in Reissues : e # c /\ row'[k].key = e => ~Unseen(e)
Takes(c, k) == Retryable(row[k]) /\ row'[k] = row[k] /\ call'[c].snap[k] = Seen(row[k])
Retains(c, k) ==
    /\ Has(c, k) /\ call'[c].snap[k] = call[c].snap[k]
    /\ batch'.owner = c => batch.owner = c
    /\ Pending(c, k)' => /\ Pending(c, k)
                         /\ k = Current(c) /\ call[c].pc \in {"mint", "attempt"}
                               => Current(c)' = k /\ call'[c].pc \in {"mint", "attempt"}

Eases(c) ==
    /\ \A d \in Senders : d # c => call'[d] = call[d] /\ (batch'.owner = d => batch.owner = d)
    /\ \A k \in Rows : /\ Rekeys(c, k)
                       /\ \A d \in Senders : d # c /\ row'[k].holder = d => row'[k] = row[k]
    /\ c \in Commits => \A k \in Rows :
          /\ Has(c, k)' => Takes(c, k) \/ Retains(c, k)
          /\ Grips(c, k)' => Grips(c, k) \/ (batch.owner = c /\ batch'.owner = c)
    /\ c \in Reissues =>
          /\ call'[c].pc # "off"
          /\ Unseen(c)' => /\ Unseen(c)
                           /\ call[c].pc = "off" \/ Current(c)' = Current(c)
                           /\ \A k \in Rows : k # Current(c)' => row'[k].key = row[k].key

LEMMA TakenIsFree ==
    ASSUME TypeInv, ReadyInv, NEW c, NEW k \in Rows, Takes(c, k)
    PROVE  row[k].holder = None
  BY DEF ReadyInv, RowReady, Takes, Retryable

LEMMA OthersHold ==
    ASSUME NEW c, Eases(c), NEW d \in Senders, d # c, NEW k \in Rows
    PROVE  /\ Grips(d, k)' => Grips(d, k)
           /\ Held(d, k)' => Held(d, k)
<1>1. call'[d] = call[d] /\ (batch'.owner = d => batch.owner = d)
  BY DEF Eases
<1>2. Current(d)' = Current(d)
  BY <1>1, OtherStays
<1>3. row'[k].holder = d => row[k].holder = d
  BY DEF Eases
<1> QED
  BY <1>1, <1>2, <1>3 DEF Grips, Held

LEMMA EasesOneHand ==
    ASSUME TypeInv, ReadyInv, OneHand, NEW c, Eases(c)
    PROVE  OneHand'
<1> SUFFICES ASSUME NEW a \in Commits, NEW d \in Commits, NEW k \in Rows,
                    Grips(a, k)', batch'.owner = d, a # d, Has(d, k)'
             PROVE  FALSE
  BY DEF OneHand
<1>1. a \in Senders /\ d \in Senders /\ a # None
  BY NoneAssumption DEF Senders
<1>2. d # c => batch.owner = d /\ Has(d, k)
  BY <1>1, OtherStays DEF Eases
<1>3. a # c => Grips(a, k)
  BY <1>1, OthersHold
<1>4. CASE a # c /\ d # c
  BY <1>2, <1>3, <1>4 DEF OneHand
<1>5. CASE a = c
  BY <1>2, <1>5 DEF OneHand, Eases
<1>6. CASE d = c
  <2>1. row[k].holder = a
    BY <1>3, <1>6 DEF Grips
  <2>2. Retains(c, k)
    BY <1>1, <1>6, <2>1, TakenIsFree DEF Eases
  <2> QED
    BY <1>3, <1>6, <2>2 DEF Retains, OneHand
<1> QED
  BY <1>4, <1>5, <1>6

LEMMA EasesUnseen ==
    ASSUME TypeInv, ReadyInv, ReissueUnseen, NEW c, Eases(c),
           \A e \in Reissues : call'[e].pc = "off" => \A k \in Rows : \A p \in posts'[k] : p.key # e
    PROVE  ReissueUnseen'
<1> SUFFICES ASSUME NEW e \in Reissues
             PROVE  /\ call'[e].pc = "off" => \A k \in Rows : /\ row'[k].key # e
                                                            /\ \A p \in posts'[k] : p.key # e
                    /\ Unseen(e)' => \A k \in Rows :
                          /\ call'[e].pc # "off" /\ k # Current(e)' => row'[k].key # e
                          /\ \A d \in Commits : Has(d, k)' => call'[d].snap[k].key # e
  BY DEF ReissueUnseen
<1>1. e \in Senders /\ e \notin Commits /\ e # None
  BY CallsAssumption, NoneAssumption DEF Senders
<1>2. CASE e # c
  <2>1. call'[e] = call[e] /\ Current(e)' = Current(e)
    BY <1>1, <1>2, OtherStays DEF Eases
  <2>2. Unseen(e)' => Unseen(e)
    <3>1. CASE call[e].pc = "off"
      BY <3>1 DEF Unseen
    <3>2. CASE call[e].pc \in {"issue", "attempt"}
      <4>1. Current(e) \in Rows
        BY <3>2, ReissueHand DEF ReissueSteps
      <4> QED
        BY <1>1, <1>2, <2>1, <4>1 DEF Unseen, Eases
    <3> QED
      BY <2>1, <3>1, <3>2 DEF Unseen
  <2>3. ASSUME NEW k \in Rows, Unseen(e), call[e].pc = "off" \/ k # Current(e)
        PROVE  row[k].key # e /\ row'[k].key # e
    <3>1. row[k].key # e
      BY <2>3 DEF ReissueUnseen
    <3> QED
      BY <1>2, <2>3, <3>1 DEF Eases, Rekeys
  <2>4. ASSUME NEW k \in Rows, NEW d \in Commits, Has(d, k)', Unseen(e)
        PROVE  call'[d].snap[k].key # e
    <3>1. Has(d, k) => call[d].snap[k].key # e
      BY <2>4 DEF ReissueUnseen
    <3>2. CASE d # c
      BY <2>4, <3>1, <3>2, OtherStays DEF Eases, Senders
    <3>3. CASE d = c /\ Retains(c, k)
      BY <3>1, <3>3 DEF Retains
    <3>4. CASE d = c /\ Takes(c, k)
      <4>1. row[k].holder # e
        BY <1>1, <3>4, TakenIsFree
      <4>2. call[e].pc = "off" \/ k # Current(e)
        BY <2>4, <4>1 DEF Unseen
      <4> QED
        BY <2>3, <2>4, <3>4, <4>2 DEF Takes, Seen
    <3> QED
      BY <2>4, <3>2, <3>3, <3>4 DEF Eases
  <2>5. call[e].pc = "off" => Unseen(e)
    BY DEF Unseen
  <2> QED
    BY <2>1, <2>2, <2>3, <2>4, <2>5
<1>3. CASE e = c
  <2>1. call'[c].pc # "off"
    BY <1>3 DEF Eases
  <2>2. ASSUME Unseen(c)', NEW k \in Rows
        PROVE  /\ k # Current(c)' => row'[k].key # c
               /\ \A d \in Commits : Has(d, k)' => call'[d].snap[k].key # c
    <3>1. /\ Unseen(c)
          /\ call[c].pc = "off" \/ Current(c)' = Current(c)
          /\ k # Current(c)' => row'[k].key = row[k].key
      BY <1>3, <2>2 DEF Eases
    <3>2. k # Current(c)' => row[k].key # c
      BY <1>3, <3>1 DEF ReissueUnseen
    <3>3. ASSUME NEW d \in Commits, Has(d, k)' PROVE call'[d].snap[k].key # c
      <4>1. call'[d] = call[d]
        BY <1>1, <1>3 DEF Eases, Senders
      <4> QED
        BY <1>3, <3>1, <3>3, <4>1, OtherStays DEF ReissueUnseen
    <3> QED
      BY <3>1, <3>2, <3>3
  <2> QED
    BY <1>3, <2>1, <2>2
<1> QED
  BY <1>2, <1>3

LEMMA EasesFresh ==
    ASSUME TypeInv, ReadyInv, RowKeyFresh, SnapKeyFresh, NEW c, Eases(c),
           \A k \in Rows : \A key : Fresh(k, key) => Fresh(k, key)'
    PROVE  RowKeyFresh' /\ SnapKeyFresh'
<1>1. ASSUME NEW k \in Rows, NEW key, key = Name(row'[k].key), ~row'[k].attempted
      PROVE  Fresh(k, key)'
  <2>1. Fresh(k, key)
    BY <1>1 DEF RowKeyFresh, Eases, Rekeys
  <2> QED
    BY <2>1
<1>2. ASSUME NEW d \in Commits, NEW k \in Rows, NEW key, key = Name(call'[d].snap[k].key),
             Pending(d, k)', Held(d, k)', ~call'[d].snap[k].attempted
      PROVE  Fresh(k, key)'
  <2>1. d \in Senders
    BY DEF Senders
  <2>2. CASE d # c
    <3>1. call'[d] = call[d] /\ Pending(d, k) /\ Held(d, k)
      BY <1>2, <2>1, <2>2, OtherStays, OthersHold DEF Eases
    <3>2. Fresh(k, key)
      BY <1>2, <3>1 DEF SnapKeyFresh
    <3> QED
      BY <3>2
  <2>3. CASE d = c /\ Retains(c, k)
    <3>1. Pending(c, k) /\ Held(c, k) /\ call'[c].snap[k] = call[c].snap[k]
      BY <1>2, <2>3 DEF Retains, Held, Eases
    <3>2. Fresh(k, key)
      BY <1>2, <2>3, <3>1 DEF SnapKeyFresh
    <3> QED
      BY <3>2
  <2>4. CASE d = c /\ Takes(c, k)
    <3>1. call'[c].snap[k].key = row[k].key /\ call'[c].snap[k].attempted = row[k].attempted
      BY <2>4 DEF Takes, Seen
    <3>2. Fresh(k, key)
      BY <1>2, <2>4, <3>1 DEF RowKeyFresh
    <3> QED
      BY <3>2
  <2>5. d = c => Takes(c, k) \/ Retains(c, k)
    BY <1>2 DEF Pending, Eases
  <2> QED
    BY <2>2, <2>3, <2>4, <2>5
<1>3. RowKeyFresh'
  BY <1>1 DEF RowKeyFresh
<1>4. SnapKeyFresh'
  BY <1>2 DEF SnapKeyFresh
<1> QED
  BY <1>3, <1>4

LEMMA EasesKnows ==
    ASSUME TypeInv, NEW c, Eases(c), NEW d \in Senders, d # c, Knows(d)
    PROVE  Knows(d)'
<1>1. call'[d] = call[d]
  BY DEF Eases
<1>2. Current(d)' = Current(d) /\ KeyOf(d)' = KeyOf(d)
  BY <1>1, OtherStays
<1>3. call[d].pc \in {"issue", "attempt", "send", "sent"} => Current(d) \in Rows
  BY CommitHand, ReissueHand DEF Senders, HandSteps, MintSteps, SendSteps, ReissueSteps,
     TypeInv, CommitsInHand, BatchSteps, EarlySteps, PhotoSteps
<1>4. Current(d) \in Rows /\ row'[Current(d)].holder = d => row'[Current(d)] = row[Current(d)]
  BY DEF Eases
<1> QED
  BY <1>1, <1>2, <1>3, <1>4 DEF Knows

(* A step under which no message leaves. *)
LEMMA QuietPosts ==
    ASSUME TypeInv, ReissueUnseen, FliesAlone, SentOncePerKey,
           NEW c, \A d \in Senders : d # c => call'[d] = call[d],
           UNCHANGED posts, c \in Senders => call'[c].pc \notin {"send", "off"}
    PROVE  /\ \A k \in Rows : \A key : Fresh(k, key) => Fresh(k, key)'
           /\ \A e \in Reissues : call'[e].pc = "off" =>
                 \A k \in Rows : \A p \in posts'[k] : p.key # e
           /\ FliesAlone' /\ SentOncePerKey'
<1>1. \A d \in Senders, k \in Rows : \A key : Flies(d, k, key)' => Flies(d, k, key)
  <2> TAKE d \in Senders, k \in Rows
  <2>1. CASE d = c
    BY <2>1 DEF Flies
  <2>2. CASE d # c
    BY <2>2, OtherStays
  <2> QED
    BY <2>1, <2>2
<1>2. \A k \in Rows : \A key : Fresh(k, key) => Fresh(k, key)'
  BY <1>1 DEF Fresh
<1>3. ASSUME NEW e \in Reissues, call'[e].pc = "off", NEW k \in Rows, NEW p \in posts'[k]
      PROVE  p.key # e
  BY <1>3 DEF ReissueUnseen, Senders
<1>4. FliesAlone'
  <2> SUFFICES ASSUME NEW d \in Senders, NEW k \in Rows, NEW key \in Keys, Flies(d, k, key)'
               PROVE  /\ \A p \in posts'[k] : p.key # key
                      /\ \A e \in Senders \ {d} : ~Flies(e, k, key)'
    BY DEF FliesAlone
  <2>1. Flies(d, k, key)
    BY <1>1
  <2>2. /\ \A p \in posts[k] : p.key # key
        /\ \A e \in Senders \ {d} : ~Flies(e, k, key)
    BY <2>1 DEF FliesAlone
  <2> QED
    BY <1>1, <2>2
<1>5. SentOncePerKey'
  BY DEF SentOncePerKey
<1> QED
  BY <1>2, <1>3, <1>4, <1>5

LEMMA KeyAgain ==
    ASSUME TypeInv, ReadyInv, KeyInv, NEW c, Eases(c), UNCHANGED posts,
           c \in Senders => call'[c].pc \notin {"send", "off"} /\ Knows(c)'
    PROVE  KeyInv'
<1>1. \A d \in Senders : d # c => call'[d] = call[d]
  BY DEF Eases
<1>2. /\ \A k \in Rows : \A key : Fresh(k, key) => Fresh(k, key)'
      /\ \A e \in Reissues : call'[e].pc = "off" => \A k \in Rows : \A p \in posts'[k] : p.key # e
      /\ FliesAlone' /\ SentOncePerKey'
  BY <1>1, QuietPosts DEF KeyInv
<1>3. \A d \in Senders : Knows(d)'
  BY EasesKnows DEF KeyInv
<1> QED
  BY <1>2, <1>3, EasesOneHand, EasesUnseen, EasesFresh DEF KeyInv

-----------------------------------------------------------------------------
(* What is marked as sent was sent. *)

(* What a step of c does to what row k says of its message. *)
Same(k) == /\ row'[k].key = row[k].key /\ row'[k].sent = row[k].sent
           /\ row'[k].status = "created" => row[k].status = "created"
Marks(c, k) ==
    /\ SentIsSent(k)' /\ CreatedIsSent(k)'
    /\ \/ c \in Commits /\ Grips(c, k) /\ SnapKnows(c, k)'
       \/ /\ c \notin Commits /\ row[k].key # None
          /\ row'[k].sent => row[k].sent \/ Issued(k)'
          /\ row'[k].sent \/ row'[k].key \in Reissues

LEMMA OthersSent ==
    ASSUME TypeInv, NEW c, Eases(c), \A k \in Rows : posts[k] \subseteq posts'[k],
           \A k \in Rows : Issued(k) => Issued(k)',
           NEW d \in Senders, d # c, HolderSent(d)
    PROVE  HolderSent(d)'
<1>1. call'[d] = call[d]
  BY DEF Eases
<1>2. Current(d)' = Current(d) /\ KeyOf(d)' = KeyOf(d)
  BY <1>1, OtherStays
<1>3. call[d].pc \in {"issue", "attempt", "send", "sent", "create"} => Current(d) \in Rows
  BY CommitHand, ReissueHand DEF Senders, HandSteps, MintSteps, SendSteps, ReissueSteps,
     TypeInv, CommitsInHand, BatchSteps, EarlySteps, PhotoSteps
<1>4. PICK k : k = Current(d)
  OBVIOUS
<1>5. k \in Rows => /\ row'[k].holder = d => row'[k] = row[k]
                    /\ posts[k] \subseteq posts'[k]
                    /\ Issued(k) => Issued(k)'
  BY DEF Eases
<1>6. Issued(Current(d)) /\ k \in Rows => Issued(Current(d))'
  BY <1>2, <1>4, <1>5 DEF Issued
<1> QED
  BY <1>1, <1>2, <1>3, <1>4, <1>5, <1>6 DEF HolderSent

LEMMA SnapsAgain ==
    ASSUME TypeInv, ReadyInv, OneHand, NEW c, Eases(c),
           \A k \in Rows : Issued(k) => Issued(k)',
           NEW d \in Commits, NEW k \in Rows, SnapKnows(d, k), Same(k) \/ Marks(c, k)
    PROVE  SnapKnows(d, k)'
<1> SUFFICES ASSUME Pending(d, k)', Held(d, k)'
             PROVE  /\ /\ call'[d].snap[k].key = None
                       /\ k = Current(d)' => call'[d].pc \notin {"mint", "attempt"}
                       => row'[k].key = None
                    /\ ~call'[d].snap[k].sent /\ row'[k].sent => Issued(k)'
                    /\ call'[d].snap[k].sent => row'[k].sent \/ row'[k].key \in Reissues
  BY DEF SnapKnows
<1>1. d \in Senders
  BY DEF Senders
<1>2. CASE d # c
  <2>1. call'[d] = call[d] /\ Current(d)' = Current(d) /\ Pending(d, k) /\ Held(d, k)
    BY <1>1, <1>2, OtherStays, OthersHold DEF Eases
  <2>2. CASE Same(k)
    BY <2>1, <2>2 DEF SnapKnows, Same
  <2>3. CASE Marks(c, k) /\ c \in Commits /\ Grips(c, k)
    <3>1. ~Has(d, k) \/ batch.owner # d
      BY <1>2, <2>3 DEF OneHand
    <3>2. Grips(d, k)
      BY <2>1, <3>1 DEF Pending, Held
    <3> QED
      BY <1>2, <2>3, <3>2 DEF Grips
  <2>4. CASE Marks(c, k) /\ ~(c \in Commits /\ Grips(c, k))
    BY <2>1, <2>4 DEF SnapKnows, Marks
  <2> QED
    BY <2>2, <2>3, <2>4
<1>3. CASE d = c /\ Takes(c, k)
  BY <1>3 DEF Takes, Seen
<1>4. CASE d = c /\ Retains(c, k)
  <2>1. Pending(c, k) /\ Held(c, k) /\ call'[c].snap[k] = call[c].snap[k]
    BY <1>4 DEF Retains, Held, Eases
  <2>2. k = Current(c) /\ call[c].pc \in {"mint", "attempt"}
           => Current(c)' = k /\ call'[c].pc \in {"mint", "attempt"}
    BY <1>4 DEF Retains
  <2>3. CASE Same(k)
    BY <1>4, <2>1, <2>2, <2>3 DEF SnapKnows, Same
  <2>4. CASE Marks(c, k)
    <3>1. SnapKnows(c, k)'
      BY <1>4, <2>4 DEF Marks
    <3> QED
      BY <1>4, <3>1 DEF SnapKnows
  <2> QED
    BY <2>3, <2>4
<1>5. d = c => Takes(c, k) \/ Retains(c, k)
  BY DEF Pending, Eases
<1> QED
  BY <1>2, <1>3, <1>4, <1>5

LEMMA MessageAgain ==
    ASSUME TypeInv, ReadyInv, OneHand, MessageInv, NEW c, Eases(c),
           \A k \in Rows : posts[k] \subseteq posts'[k],
           \A k \in Rows : Issued(k) => Issued(k)',
           \A k \in Rows : Same(k) \/ Marks(c, k),
           c \in Senders => HolderSent(c)'
    PROVE  MessageInv'
<1>1. ASSUME NEW k \in Rows PROVE SentIsSent(k)' /\ CreatedIsSent(k)'
  <2>1. SentIsSent(k) /\ CreatedIsSent(k) /\ posts[k] \subseteq posts'[k]
    BY DEF MessageInv
  <2>2. CASE Same(k)
    BY <2>1, <2>2 DEF Same, SentIsSent, CreatedIsSent
  <2>3. CASE Marks(c, k)
    BY <2>3 DEF Marks
  <2> QED
    BY <2>2, <2>3
<1>2. ASSUME NEW d \in Commits, NEW k \in Rows PROVE SnapKnows(d, k)'
  BY SnapsAgain DEF MessageInv
<1>3. ASSUME NEW d \in Senders PROVE HolderSent(d)'
  BY OthersSent DEF MessageInv
<1> QED
  BY <1>1, <1>2, <1>3 DEF MessageInv

MailInv == KeyInv /\ MessageInv

(* A step that neither sends nor marks, and moves its call out of the delivery. *)
LEMMA CalmMail ==
    ASSUME TypeInv, ReadyInv, MailInv, NEW c, Eases(c), UNCHANGED posts,
           \A k \in Rows : Same(k) /\ (Issued(k) => Issued(k)'),
           c \in Senders => call'[c].pc \notin MintSteps \cup SendSteps \cup {"issue", "off"}
    PROVE  MailInv'
<1>1. c \in Senders => Knows(c)' /\ HolderSent(c)'
  BY DEF Knows, HolderSent, MintSteps, SendSteps
<1>2. KeyInv'
  BY <1>1, KeyAgain DEF MailInv, SendSteps
<1>3. MessageInv'
  BY <1>1, MessageAgain DEF MailInv, KeyInv
<1> QED
  BY <1>2, <1>3 DEF MailInv

(* Steps of a commit that keep what it has read, and those that drop it.   *)
WorkSteps == EarlySteps \cup PhotoSteps \cup MintSteps
GripSteps == PhotoSteps \cup MintSteps \cup SendSteps

LEMMA CommitEases ==
    ASSUME NEW c \in Commits,
           \A d \in Senders : d # c => call'[d] = call[d],
           call'[c].snap = call[c].snap, Current(c)' = Current(c),
           \A d \in Senders : batch'.owner = d => batch.owner = d,
           \A k \in Rows : /\ Rekeys(c, k)
                           /\ \A d \in Senders : d # c /\ row'[k].holder = d => row'[k] = row[k],
           call'[c].pc \in WorkSteps =>
               /\ call[c].pc \in WorkSteps
               /\ call[c].pc \in {"mint", "attempt"} => call'[c].pc \in {"mint", "attempt"},
           call'[c].pc \in GripSteps =>
               \/ batch.owner = c /\ batch'.owner = c
               \/ /\ call[c].pc \in GripSteps
                  /\ \A k \in Rows : row'[k].holder = c => row[k].holder = c
    PROVE  Eases(c)
<1>1. c \notin Reissues /\ c \in Senders
  BY CallsAssumption DEF Senders
<1>2. ASSUME NEW k \in Rows, Has(c, k)' PROVE Retains(c, k)
  <2>1. Has(c, k) /\ call'[c].snap[k] = call[c].snap[k] /\ (batch'.owner = c => batch.owner = c)
    BY <1>1, <1>2 DEF Has
  <2>2. ASSUME Pending(c, k)'
        PROVE  /\ Pending(c, k)
               /\ k = Current(c) /\ call[c].pc \in {"mint", "attempt"}
                     => Current(c)' = k /\ call'[c].pc \in {"mint", "attempt"}
    BY <2>1, <2>2 DEF Pending, WorkSteps
  <2> QED
    BY <2>1, <2>2 DEF Retains
<1>3. ASSUME NEW k \in Rows, Grips(c, k)'
      PROVE  Grips(c, k) \/ (batch.owner = c /\ batch'.owner = c)
  BY <1>3 DEF Grips, GripSteps
<1> QED
  BY <1>1, <1>2, <1>3 DEF Eases

LEMMA EndedEases ==
    ASSUME NEW c \in Senders,
           \A d \in Senders : d # c => call'[d] = call[d],
           call'[c].snap = Nothing, call'[c].pc = "done",
           \A d \in Senders : batch'.owner = d => batch.owner = d,
           \A k \in Rows : /\ Rekeys(c, k)
                           /\ \A d \in Senders : d # c /\ row'[k].holder = d => row'[k] = row[k]
    PROVE  Eases(c)
<1>1. \A k \in Rows : ~Has(c, k)' /\ ~Grips(c, k)'
  BY DEF Has, Nothing, Grips, PhotoSteps, MintSteps, SendSteps
<1>2. ~Unseen(c)'
  BY DEF Unseen
<1> QED
  BY <1>1, <1>2 DEF Eases

(* Rows that stay, and a row of which c writes neither key nor attempt. *)
LEMMA RowsStay ==
    ASSUME NEW c, UNCHANGED row
    PROVE  \A k \in Rows : /\ Rekeys(c, k) /\ Same(k)
                           /\ \A d \in Senders : d # c /\ row'[k].holder = d => row'[k] = row[k]
  BY DEF Rekeys, Same

LEMMA TurnedStaysPut ==
    ASSUME NEW c, NEW j \in Rows, NEW st, NEW co, NEW ho \in {c, None}, Turned(j, st, co, ho)
    PROVE  \A k \in Rows : /\ Rekeys(c, k) /\ (st # "created" => Same(k))
                           /\ \A d \in Senders : d # c /\ row'[k].holder = d => row'[k] = row[k]
                           /\ k # j => row'[k] = row[k]
<1>1. /\ row'[j].key = row[j].key /\ row'[j].attempted = row[j].attempted
      /\ row'[j].sent = row[j].sent /\ row'[j].status = st /\ row'[j].holder = ho
      /\ \A k \in Rows : k # j => row'[k] = row[k]
  BY DEF Turned, RowTo, RowOf
<1>2. \A d \in Senders : d # None
  BY NoneAssumption DEF Senders
<1> QED
  BY <1>1, <1>2 DEF Rekeys, Same

LEMMA NotedFields ==
    ASSUME NEW j \in Rows, NEW ph, NEW at, NEW se, NEW ke, NEW ho, Noted(j, ph, at, se, ke, ho)
    PROVE  /\ row'[j].key = ke /\ row'[j].attempted = at /\ row'[j].sent = se
           /\ row'[j].holder = ho /\ row'[j].status = row[j].status
           /\ \A k \in Rows : k # j => row'[k] = row[k]
  BY DEF Noted, RowTo, RowOf

LEMMA RestEases ==
    ASSUME NEW c \in Commits,
           \A d \in Senders : d # c => call'[d] = call[d],
           call'[c].snap = call[c].snap \/ call'[c].snap = Nothing,
           call'[c].pc \notin WorkSteps \cup GripSteps,
           \A d \in Senders : batch'.owner = d => batch.owner = d,
           \A k \in Rows : /\ Rekeys(c, k)
                           /\ \A d \in Senders : d # c /\ row'[k].holder = d => row'[k] = row[k]
    PROVE  Eases(c)
<1>1. CASE call'[c].snap = call[c].snap
  BY <1>1, CurrentStays, CommitEases
<1>2. CASE call'[c].snap = Nothing
  <2>1. \A k \in Rows : ~Has(c, k)' /\ ~Grips(c, k)'
    BY <1>2 DEF Has, Nothing, Grips, GripSteps
  <2> QED
    BY <2>1, CallsAssumption DEF Eases, Senders
<1> QED
  BY <1>1, <1>2

LEMMA SameIssued ==
    UNCHANGED <<member, link>> => \A k : Issued(k) => Issued(k)'
  BY DEF Issued

LEMMA BatchMail ==
    ASSUME TypeInv, ReadyInv, MailInv, NEW c \in Commits,
           CheckLeaseDoes(c) \/ ReleaseDoes(c)
    PROVE  MailInv'
<1>1. /\ \A d \in Senders : d # c => call'[d] = call[d]
      /\ call'[c].snap = call[c].snap \/ call'[c].snap = Nothing
      /\ \/ /\ call'[c].pc \in {"claim", "member"} /\ batch.owner = c /\ UNCHANGED batch
            /\ call[c].pc \in {"rowCheck", "claimCheck"} /\ call'[c].snap = call[c].snap
         \/ call'[c].pc \in {"requeue", "result", "catch", "reopen", "finish", "restage",
                             "release", "done"}
  BY MovesOthers DEF CheckLeaseDoes, ReleaseDoes
<1>2. /\ UNCHANGED <<row, member, link, posts>>
      /\ \A d \in Senders : batch'.owner = d => batch.owner = d
  BY NoneAssumption DEF CheckLeaseDoes, ReleaseDoes, QuietBatch, Senders
<1>3. \A k \in Rows : /\ Rekeys(c, k) /\ Same(k)
                      /\ \A d \in Senders : d # c /\ row'[k].holder = d => row'[k] = row[k]
  BY <1>2, RowsStay
<1>4. Eases(c)
  <2>1. CASE /\ call'[c].pc \in {"claim", "member"} /\ batch.owner = c /\ UNCHANGED batch
             /\ call[c].pc \in {"rowCheck", "claimCheck"} /\ call'[c].snap = call[c].snap
    <3>1. /\ call[c].pc \in WorkSteps
          /\ batch.owner = c /\ batch'.owner = c
      BY <2>1 DEF WorkSteps, EarlySteps
    <3>2. call[c].pc \notin {"mint", "attempt"} /\ Current(c)' = Current(c)
      BY <2>1, CurrentStays
    <3> QED
      BY <1>1, <1>2, <1>3, <2>1, <3>1, <3>2, CommitEases
  <2>2. CASE call'[c].pc \in {"requeue", "result", "catch", "reopen", "finish", "restage",
                              "release", "done"}
    <3>1. call'[c].pc \notin WorkSteps \cup GripSteps
      BY <2>2 DEF WorkSteps, GripSteps, EarlySteps, PhotoSteps, MintSteps, SendSteps
    <3> QED
      BY <1>1, <1>2, <1>3, <3>1, RestEases
  <2> QED
    BY <1>1, <2>1, <2>2
<1>5. call'[c].pc \notin MintSteps \cup SendSteps \cup {"issue", "off"}
  BY <1>1 DEF MintSteps, SendSteps
<1> QED
  BY <1>2, <1>3, <1>4, <1>5, SameIssued, CalmMail

LEMMA ClaimMail ==
    ASSUME TypeInv, ReadyInv, MailInv, NEW c \in Commits, ClaimDoes(c)
    PROVE  MailInv'
<1>1. /\ \A d \in Senders : d # c => call'[d] = call[d]
      /\ call'[c].snap = call[c].snap \/ call'[c].snap = Nothing
      /\ call'[c].pc \in {"read", "requeueCheck", "done"}
  BY MovesOthers DEF ClaimDoes
<1>2. /\ UNCHANGED <<row, member, link, posts>> /\ c \notin Reissues
      /\ \A d \in Senders : d # c => (batch'.owner = d => batch.owner = d)
  BY NoneAssumption, CallsAssumption DEF ClaimDoes, QuietBatch, Senders
<1>3. \A k \in Rows : ~Has(c, k)
  BY DEF ClaimDoes, TypeInv, CommitsInHand, HasAny
<1>4. \A k \in Rows : ~Has(c, k)' /\ ~Grips(c, k)'
  BY <1>1, <1>3 DEF Has, Nothing, Grips, PhotoSteps, MintSteps, SendSteps
<1>5. \A k \in Rows : /\ Rekeys(c, k) /\ Same(k)
                      /\ \A d \in Senders : d # c /\ row'[k].holder = d => row'[k] = row[k]
  BY <1>2, RowsStay
<1>6. Eases(c)
  BY <1>1, <1>2, <1>4, <1>5 DEF Eases
<1>7. call'[c].pc \notin MintSteps \cup SendSteps \cup {"issue", "off"}
  BY <1>1 DEF MintSteps, SendSteps
<1> QED
  BY <1>2, <1>5, <1>6, <1>7, SameIssued, CalmMail

LEMMA RequeueRowsMail ==
    ASSUME TypeInv, ReadyInv, MailInv, NEW c \in Commits, RequeueRowsDoes(c)
    PROVE  MailInv'
<1>1. /\ \A d \in Senders : d # c => call'[d] = call[d]
      /\ call'[c].snap = call[c].snap
      /\ call'[c].pc \in {"read", "catch"}
  BY MovesOthers DEF RequeueRowsDoes
<1>2. UNCHANGED <<batch, member, link, posts>>
  BY DEF RequeueRowsDoes, QuietRow
<1>3. ASSUME NEW k \in Rows
      PROVE  /\ Rekeys(c, k) /\ Same(k)
             /\ \A d \in Senders : d # c /\ row'[k].holder = d => row'[k] = row[k]
  <2>1. CASE row'[k] = row[k]
    BY <2>1 DEF Rekeys, Same
  <2>2. CASE row'[k] = RowOf("staged", None, row[k].photo, row[k].attempted, row[k].sent,
                             row[k].key, None)
    <3>1. /\ row'[k].key = row[k].key /\ row'[k].attempted = row[k].attempted
          /\ row'[k].sent = row[k].sent /\ row'[k].status = "staged" /\ row'[k].holder = None
      BY <2>2 DEF RowOf
    <3>2. None \notin Senders
      BY NoneAssumption DEF Senders
    <3> QED
      BY <3>1, <3>2 DEF Rekeys, Same
  <2> QED
    BY <2>1, <2>2 DEF RequeueRowsDoes
<1>4. call'[c].pc \notin WorkSteps \cup GripSteps
  BY <1>1 DEF WorkSteps, GripSteps, EarlySteps, PhotoSteps, MintSteps, SendSteps
<1>5. Eases(c)
  BY <1>1, <1>2, <1>3, <1>4, RestEases
<1>6. call'[c].pc \notin MintSteps \cup SendSteps \cup {"issue", "off"}
  BY <1>1 DEF MintSteps, SendSteps
<1> QED
  BY <1>2, <1>3, <1>5, <1>6, SameIssued, CalmMail

LEMMA ReadRowsMail ==
    ASSUME TypeInv, ReadyInv, MailInv, NEW c \in Commits, ReadRowsDoes(c)
    PROVE  MailInv'
<1>1. /\ \A d \in Senders : d # c => call'[d] = call[d]
      /\ \/ call'[c].snap = call[c].snap /\ call'[c].pc = "catch"
         \/ call'[c].snap = [k \in Rows |-> Read(k)]
      /\ call'[c].pc \in {"cleanCheck", "rowCheck", "catch"}
  BY MovesOthers, CallToOthers DEF ReadRowsDoes
<1>2. UNCHANGED <<batch, row, member, link, posts>> /\ c \notin Reissues
  BY CallsAssumption DEF ReadRowsDoes, QuietBatch
<1>3. \A k \in Rows : /\ Rekeys(c, k) /\ Same(k)
                      /\ \A d \in Senders : d # c /\ row'[k].holder = d => row'[k] = row[k]
  BY <1>2, RowsStay
<1>4. CASE call'[c].snap = call[c].snap /\ call'[c].pc = "catch"
  <2>1. call'[c].pc \notin WorkSteps \cup GripSteps
    BY <1>4 DEF WorkSteps, GripSteps, EarlySteps, PhotoSteps, MintSteps, SendSteps
  <2>2. Eases(c)
    BY <1>1, <1>2, <1>3, <1>4, <2>1, RestEases
  <2>3. call'[c].pc \notin MintSteps \cup SendSteps \cup {"issue", "off"}
    BY <1>4 DEF MintSteps, SendSteps
  <2> QED
    BY <1>2, <1>3, <2>2, <2>3, SameIssued, CalmMail
<1>5. CASE call'[c].snap = [k \in Rows |-> Read(k)]
  <2>1. \A k \in Rows : Has(c, k)' => Takes(c, k)
    BY <1>2, <1>5 DEF Has, Takes, Read
  <2>2. \A k \in Rows : ~Grips(c, k)'
    BY <1>1 DEF Grips, PhotoSteps, MintSteps, SendSteps
  <2>3. Eases(c)
    BY <1>1, <1>2, <1>3, <2>1, <2>2 DEF Eases
  <2>4. call'[c].pc \notin MintSteps \cup SendSteps \cup {"issue", "off"}
    BY <1>1 DEF MintSteps, SendSteps
  <2> QED
    BY <1>2, <1>3, <2>3, <2>4, SameIssued, CalmMail
<1> QED
  BY <1>1, <1>4, <1>5

LEMMA RefreshMail ==
    ASSUME TypeInv, ReadyInv, MailInv, NEW c \in Commits, RefreshDoes(c)
    PROVE  MailInv'
<1>1. /\ \A d \in Senders : d # c => call'[d] = call[d]
      /\ \/ call'[c].snap = call[c].snap /\ call'[c].pc = "catch"
         \/ /\ call'[c].snap[Current(c)] = None
            /\ \A k \in Rows : k # Current(c) => call'[c].snap[k] = call[c].snap[k]
            /\ UNCHANGED batch
      /\ call'[c].pc \in {"cleanCheck", "rowCheck", "catch"}
  <2>1. ASSUME NEW p \in {"cleanCheck", "rowCheck"}, NEW snap,
               CallTo(c, p, snap, call[c].code, call[c].active),
               /\ snap[Current(c)] = None
               /\ \A k \in Rows : k # Current(c) => snap[k] = call[c].snap[k]
               /\ UNCHANGED batch
        PROVE  <1>1!1 /\ <1>1!2 /\ <1>1!3
    BY <2>1, CallToOthers
  <2> QED
    BY <2>1, MovesOthers DEF RefreshDoes
<1>2. /\ UNCHANGED <<row, member, link, posts>> /\ c \notin Reissues
      /\ \A d \in Senders : batch'.owner = d => batch.owner = d
  BY NoneAssumption, CallsAssumption DEF RefreshDoes, QuietBatch, Senders
<1>3. \A k \in Rows : /\ Rekeys(c, k) /\ Same(k)
                      /\ \A d \in Senders : d # c /\ row'[k].holder = d => row'[k] = row[k]
  BY <1>2, RowsStay
<1>4. call'[c].pc \notin MintSteps \cup SendSteps \cup {"issue", "off"}
  BY <1>1 DEF MintSteps, SendSteps
<1>5. Eases(c)
  <2>1. CASE call'[c].snap = call[c].snap /\ call'[c].pc = "catch"
    <3>1. call'[c].pc \notin WorkSteps \cup GripSteps
      BY <2>1 DEF WorkSteps, GripSteps, EarlySteps, PhotoSteps, MintSteps, SendSteps
    <3> QED
      BY <1>1, <1>2, <1>3, <2>1, <3>1, RestEases
  <2>2. CASE /\ call'[c].snap[Current(c)] = None
             /\ \A k \in Rows : k # Current(c) => call'[c].snap[k] = call[c].snap[k]
             /\ UNCHANGED batch
    <3>1. ASSUME NEW k \in Rows, Has(c, k)' PROVE Retains(c, k)
      <4>1. k # Current(c) /\ call'[c].snap[k] = call[c].snap[k] /\ Has(c, k)
        BY <2>2, <3>1 DEF Has
      <4> QED
        BY <2>2, <4>1 DEF Retains, Pending
    <3>2. \A k \in Rows : ~Grips(c, k)'
      BY <1>1 DEF Grips, PhotoSteps, MintSteps, SendSteps
    <3> QED
      BY <1>1, <1>2, <1>3, <3>1, <3>2 DEF Eases
  <2> QED
    BY <1>1, <2>1, <2>2
<1> QED
  BY <1>2, <1>3, <1>4, <1>5, SameIssued, CalmMail

LEMMA TurnsMail ==
    ASSUME TypeInv, ReadyInv, MailInv, NEW c \in Commits,
           ClaimRowDoes(c) \/ RequeueActiveRowDoes(c)
    PROVE  MailInv'
<1>0. PICK k : k = Current(c)
  OBVIOUS
<1>1. k \in Rows
  BY <1>0, CommitHand DEF ClaimRowDoes, RequeueActiveRowDoes, HandSteps, EarlySteps
<1>2. \A pc, active : CallTo(c, pc, call[c].snap, call[c].code, active) =>
         /\ \A d \in Senders : d # c => call'[d] = call[d]
         /\ call'[c].snap = call[c].snap /\ call'[c].pc = pc
  BY CallToOthers
<1>3. /\ \A d \in Senders : d # c => call'[d] = call[d]
      /\ call'[c].snap = call[c].snap \/ call'[c].snap = Nothing
      /\ \/ /\ call'[c].pc = "claimCheck" /\ call[c].pc = "claim"
            /\ call'[c].snap = call[c].snap
         \/ call'[c].pc \in {"catch", "release", "done"}
  BY <1>2, MovesOthers DEF ClaimRowDoes, RequeueActiveRowDoes
<1>4. /\ UNCHANGED <<batch, member, link, posts>>
      /\ \/ UNCHANGED row
         \/ \E ho \in {c, None} : \/ Turned(k, "processing", None, ho)
                                  \/ Turned(k, "staged", None, ho)
  BY <1>0 DEF ClaimRowDoes, RequeueActiveRowDoes, QuietRow
<1>5. \A j \in Rows : /\ Rekeys(c, j) /\ Same(j)
                      /\ \A d \in Senders : d # c /\ row'[j].holder = d => row'[j] = row[j]
  <2>1. CASE UNCHANGED row
    BY <2>1, RowsStay
  <2>2. ASSUME NEW ho \in {c, None}, NEW st, st # "created", Turned(k, st, None, ho)
        PROVE  \A j \in Rows :
                 /\ Rekeys(c, j) /\ Same(j)
                 /\ \A d \in Senders : d # c /\ row'[j].holder = d => row'[j] = row[j]
    BY <1>1, <2>2, TurnedStaysPut
  <2> QED
    BY <1>4, <2>1, <2>2
<1>6. Eases(c)
  <2>1. CASE /\ call'[c].pc = "claimCheck" /\ call[c].pc = "claim"
             /\ call'[c].snap = call[c].snap
    <3>1. call[c].pc \in WorkSteps /\ call'[c].pc \notin GripSteps
      BY <2>1 DEF WorkSteps, GripSteps, EarlySteps, PhotoSteps, MintSteps, SendSteps
    <3>2. call[c].pc \notin {"mint", "attempt"} /\ Current(c)' = Current(c)
      BY <2>1, CurrentStays
    <3> QED
      BY <1>3, <1>4, <1>5, <2>1, <3>1, <3>2, CommitEases
  <2>2. CASE call'[c].pc \in {"catch", "release", "done"}
    <3>1. call'[c].pc \notin WorkSteps \cup GripSteps
      BY <2>2 DEF WorkSteps, GripSteps, EarlySteps, PhotoSteps, MintSteps, SendSteps
    <3> QED
      BY <1>3, <1>4, <1>5, <3>1, RestEases
  <2> QED
    BY <1>3, <2>1, <2>2
<1>7. call'[c].pc \notin MintSteps \cup SendSteps \cup {"issue", "off"}
  BY <1>3 DEF MintSteps, SendSteps
<1> QED
  BY <1>4, <1>5, <1>6, <1>7, SameIssued, CalmMail

LEMMA CalmKnows ==
    ASSUME NEW c, call'[c].pc \notin MintSteps \cup SendSteps \cup {"issue", "off"}
    PROVE  Knows(c)' /\ HolderSent(c)'
  BY DEF Knows, HolderSent, MintSteps, SendSteps

(* A step of a delivery under which no message leaves. *)
LEMMA WorkMail ==
    ASSUME TypeInv, ReadyInv, MailInv, NEW c \in Senders, Eases(c), UNCHANGED posts,
           \A k \in Rows : Same(k) \/ Marks(c, k),
           \A k \in Rows : Issued(k) => Issued(k)',
           call'[c].pc \notin {"send", "off"}, Knows(c)', HolderSent(c)'
    PROVE  MailInv'
<1>1. KeyInv'
  BY KeyAgain DEF MailInv
<1>2. MessageInv'
  BY MessageAgain DEF MailInv, KeyInv
<1> QED
  BY <1>1, <1>2 DEF MailInv

LEMMA DeliverMail ==
    ASSUME TypeInv, ReadyInv, MailInv, NEW c \in Commits, DeliverDoes(c),
           call[c].pc \in PhotoSteps, row[Current(c)].holder = c, UNCHANGED posts,
           Same(Current(c))
    PROVE  Knows(c)' /\ HolderSent(c)'
<1>0. PICK k : k = Current(c)
  OBVIOUS
<1>1. k \in Rows /\ Has(c, k) /\ c \notin Reissues /\ call[c].snap[k] \in Snap
  BY <1>0, CommitHand, CallsAssumption DEF HandSteps
<1>2. call[c].snap[k].sent => posts[k] # {}
  BY <1>1 DEF ReadyInv, SnapReady
<1>3. call[c].snap[k].sent => row[k].sent \/ row[k].key \in Reissues
  <2>1. Pending(c, k) /\ Held(c, k)
    BY <1>0, <1>1 DEF Pending, Held, Grips
  <2>2. SnapKnows(c, k)
    BY <1>1 DEF MailInv, MessageInv
  <2> QED
    BY <2>1, <2>2 DEF SnapKnows
<1>4. row'[k].key = row[k].key /\ row'[k].sent = row[k].sent
  BY <1>0 DEF Same
<1>5. \/ call'[c].pc = "fail"
      \/ call'[c].pc = "create" /\ call[c].snap[k].sent /\ Current(c)' = k
      \/ /\ call'[c].pc \in {"intent", "mint"} /\ Current(c)' = k
         /\ call'[c].snap = call[c].snap /\ ~call[c].snap[k].attempted
         /\ call'[c].pc = "intent" => call[c].snap[k].key = None
  BY <1>0, MovesOthers DEF DeliverDoes
<1>6. CASE call'[c].pc = "fail"
  BY <1>6, CalmKnows DEF MintSteps, SendSteps
<1>7. CASE call'[c].pc = "create" /\ call[c].snap[k].sent /\ Current(c)' = k
  BY <1>1, <1>2, <1>3, <1>4, <1>7 DEF Knows, HolderSent, MintSteps
<1>8. CASE /\ call'[c].pc \in {"intent", "mint"} /\ Current(c)' = k
           /\ call'[c].snap = call[c].snap /\ ~call[c].snap[k].attempted
           /\ call'[c].pc = "intent" => call[c].snap[k].key = None
  BY <1>1, <1>8 DEF Knows, HolderSent
<1> QED
  BY <1>5, <1>6, <1>7, <1>8

LEMMA AddMemberMail ==
    ASSUME TypeInv, ReadyInv, MailInv, NEW c \in Commits, AddMemberDoes(c)
    PROVE  MailInv'
<1>0. PICK k : k = Current(c)
  OBVIOUS
<1>1. k \in Rows /\ call[c].pc = "member" /\ c \in Senders
  BY <1>0, CommitHand DEF AddMemberDoes, HandSteps, PhotoSteps, Senders
<1>2. /\ \A d \in Senders : d # c => call'[d] = call[d]
      /\ call'[c].snap = call[c].snap /\ Current(c)' = Current(c)
      /\ \/ call'[c].pc \in {"photo", "fail"}
         \/ DeliverDoes(c) /\ row[k].holder = c /\ call'[c].pc \notin {"send", "off", "attempt"}
  BY <1>0, MovesOthers DEF AddMemberDoes, DeliverDoes
<1>3. /\ UNCHANGED <<batch, link, posts>>
      /\ UNCHANGED row \/ Unheld(k)
      /\ \/ UNCHANGED member
         \/ member[k] = "none" /\ member' = [member EXCEPT ![k] = "waiting"]
  BY <1>0 DEF AddMemberDoes
<1>4. \A j \in Rows : /\ Rekeys(c, j) /\ Same(j)
                      /\ \A d \in Senders : d # c /\ row'[j].holder = d => row'[j] = row[j]
                      /\ row'[j].holder = c => row[j].holder = c
  <2>1. CASE UNCHANGED row
    BY <2>1, RowsStay
  <2>2. CASE Unheld(k)
    <3>1. /\ row'[k].key = row[k].key /\ row'[k].attempted = row[k].attempted
          /\ row'[k].sent = row[k].sent /\ row'[k].holder = None
          /\ row'[k].status = row[k].status
          /\ \A j \in Rows : j # k => row'[j] = row[j]
      BY <1>1, <2>2, NotedFields DEF Unheld
    <3>2. None \notin Senders
      BY NoneAssumption DEF Senders
    <3> QED
      BY <1>1, <3>1, <3>2 DEF Rekeys, Same
  <2> QED
    BY <1>3, <2>1, <2>2
<1>5. Eases(c)
  <2>1. call[c].pc \in WorkSteps /\ call[c].pc \in GripSteps /\ call[c].pc \notin {"mint", "attempt"}
    BY <1>1 DEF WorkSteps, GripSteps, PhotoSteps
  <2> QED
    BY <1>2, <1>3, <1>4, <2>1, CommitEases
<1>6. \A j \in Rows : Issued(j) => Issued(j)'
  BY <1>1, <1>3 DEF Issued, TypeInv, Types
<1>7. Knows(c)' /\ HolderSent(c)'
  <2>1. CASE call'[c].pc \in {"photo", "fail"}
    BY <2>1, CalmKnows DEF MintSteps, SendSteps
  <2>2. CASE DeliverDoes(c) /\ row[k].holder = c
    BY <1>0, <1>1, <1>3, <1>4, <2>2, DeliverMail DEF PhotoSteps
  <2> QED
    BY <1>2, <2>1, <2>2
<1>8. call'[c].pc \notin {"send", "off"}
  BY <1>2
<1> QED
  BY <1>1, <1>3, <1>4, <1>5, <1>6, <1>7, <1>8, WorkMail

LEMMA AttachPhotoMail ==
    ASSUME TypeInv, ReadyInv, MailInv, NEW c \in Commits, AttachPhotoDoes(c)
    PROVE  MailInv'
<1>1. /\ \A d \in Senders : d # c => call'[d] = call[d]
      /\ call'[c].snap = call[c].snap /\ Current(c)' = Current(c)
      /\ call'[c].pc \in {"photoMark", "fail"}
  BY MovesOthers DEF AttachPhotoDoes
<1>2. UNCHANGED <<batch, row, member, link, posts>> /\ call[c].pc = "photo"
  BY DEF AttachPhotoDoes
<1>3. \A k \in Rows : /\ Rekeys(c, k) /\ Same(k)
                      /\ \A d \in Senders : d # c /\ row'[k].holder = d => row'[k] = row[k]
  BY <1>2, RowsStay
<1>4. Eases(c)
  <2>1. call[c].pc \in WorkSteps /\ call[c].pc \in GripSteps /\ call[c].pc \notin {"mint", "attempt"}
    BY <1>2 DEF WorkSteps, GripSteps, PhotoSteps
  <2> QED
    BY <1>1, <1>2, <1>3, <2>1, CommitEases
<1>5. call'[c].pc \notin MintSteps \cup SendSteps \cup {"issue", "off"}
  BY <1>1 DEF MintSteps, SendSteps
<1> QED
  BY <1>2, <1>3, <1>4, <1>5, SameIssued, CalmMail

LEMMA MarkPhotoMail ==
    ASSUME TypeInv, ReadyInv, MailInv, NEW c \in Commits, MarkPhotoDoes(c)
    PROVE  MailInv'
<1>0. PICK k : k = Current(c)
  OBVIOUS
<1>1. k \in Rows /\ call[c].pc = "photoMark" /\ c \in Senders
  BY <1>0, CommitHand DEF MarkPhotoDoes, HandSteps, PhotoSteps, Senders
<1>2. /\ \A d \in Senders : d # c => call'[d] = call[d]
      /\ call'[c].snap = call[c].snap /\ Current(c)' = Current(c)
      /\ \/ call'[c].pc = "fail"
         \/ DeliverDoes(c) /\ row[k].holder = c /\ call'[c].pc \notin {"send", "off", "attempt"}
  <2>1. DeliverDoes(c) => /\ \A d \in Senders : d # c => call'[d] = call[d]
                          /\ call'[c].snap = call[c].snap /\ Current(c)' = Current(c)
                          /\ call'[c].pc \notin {"send", "off", "attempt"}
    BY MovesOthers DEF DeliverDoes
  <2>2. \/ Failed(c, "retry")
        \/ row[k].holder = c /\ DeliverDoes(c)
    BY <1>0 DEF MarkPhotoDoes
  <2> QED
    BY <2>1, <2>2, MovesOthers
<1>3. /\ UNCHANGED <<batch, member, link, posts>>
      /\ \/ UNCHANGED row
         \/ /\ row[k].holder = c
            /\ \E ho \in {c, None} :
                  Noted(k, TRUE, row[k].attempted, row[k].sent, row[k].key, ho)
  BY <1>0 DEF MarkPhotoDoes, QuietRow
<1>4. \A j \in Rows : /\ Rekeys(c, j) /\ Same(j)
                      /\ \A d \in Senders : d # c /\ row'[j].holder = d => row'[j] = row[j]
                      /\ row'[j].holder = c => row[j].holder = c
  <2>1. CASE UNCHANGED row
    BY <2>1, RowsStay
  <2>2. ASSUME NEW ph, NEW ho \in {c, None}, row[k].holder = c,
               Noted(k, ph, row[k].attempted, row[k].sent, row[k].key, ho)
        PROVE  /\ row'[k].key = row[k].key /\ row'[k].attempted = row[k].attempted
               /\ row'[k].sent = row[k].sent /\ row'[k].holder = ho
               /\ row'[k].status = row[k].status
               /\ \A j \in Rows : j # k => row'[j] = row[j]
    BY <1>1, <2>2, NotedFields
  <2>3. CASE ~UNCHANGED row
    <3>1. PICK ho \in {c, None} :
             /\ row'[k].key = row[k].key /\ row'[k].attempted = row[k].attempted
             /\ row'[k].sent = row[k].sent /\ row'[k].holder = ho
             /\ row'[k].status = row[k].status /\ row[k].holder = c
             /\ \A j \in Rows : j # k => row'[j] = row[j]
      BY <1>3, <2>2, <2>3
    <3>2. None \notin Senders
      BY NoneAssumption DEF Senders
    <3> QED
      BY <1>1, <3>1, <3>2 DEF Rekeys, Same
  <2> QED
    BY <2>1, <2>3
<1>5. Eases(c)
  <2>1. call[c].pc \in WorkSteps /\ call[c].pc \in GripSteps /\ call[c].pc \notin {"mint", "attempt"}
    BY <1>1 DEF WorkSteps, GripSteps, PhotoSteps
  <2> QED
    BY <1>2, <1>3, <1>4, <2>1, CommitEases
<1>6. Knows(c)' /\ HolderSent(c)'
  <2>1. CASE call'[c].pc = "fail"
    BY <2>1, CalmKnows DEF MintSteps, SendSteps
  <2>2. CASE DeliverDoes(c) /\ row[k].holder = c
    BY <1>0, <1>1, <1>3, <1>4, <2>2, DeliverMail DEF PhotoSteps
  <2> QED
    BY <1>2, <2>1, <2>2
<1>7. call'[c].pc \notin {"send", "off"}
  BY <1>2
<1> QED
  BY <1>1, <1>3, <1>4, <1>5, <1>6, <1>7, SameIssued, WorkMail

(* What a commit knows of the row it is preparing, as its holder. *)
LEMMA MinterKnows ==
    ASSUME TypeInv, ReadyInv, MailInv, NEW c \in Commits, call[c].pc \in MintSteps,
           NEW k, k = Current(c)
    PROVE  /\ k \in Rows /\ Has(c, k) /\ c \in Senders /\ c \notin Reissues /\ c # None
           /\ ~call[c].snap[k].attempted /\ ~call[c].snap[k].sent
           /\ call[c].pc = "intent" => call[c].snap[k].key = None
           /\ row[k].holder = c =>
                 /\ row[k].status = "processing"
                 /\ Fresh(k, Name(call[c].snap[k].key))
                 /\ row[k].sent => Issued(k)
                 /\ call[c].pc = "intent" => row[k].key = None /\ ~row[k].attempted /\ ~row[k].sent
<1>1. k \in Rows /\ Has(c, k) /\ c \in Senders /\ c \notin Reissues /\ c # None
  BY CommitHand, CallsAssumption, NoneAssumption DEF HandSteps, Senders
<1>2. Knows(c) /\ SnapReady(c) /\ RowReady(k) /\ SnapKnows(c, k) /\ SnapKeyFresh
  BY <1>1 DEF MailInv, KeyInv, MessageInv, ReadyInv
<1>3. /\ ~call[c].snap[k].attempted /\ ~call[c].snap[k].sent
      /\ call[c].pc = "intent" => call[c].snap[k].key = None
  BY <1>1, <1>2 DEF Knows, SnapReady
<1>4. ASSUME row[k].holder = c
      PROVE  /\ row[k].status = "processing"
             /\ Fresh(k, Name(call[c].snap[k].key))
             /\ row[k].sent => Issued(k)
             /\ call[c].pc = "intent" => row[k].key = None /\ ~row[k].attempted /\ ~row[k].sent
  <2>1. Pending(c, k) /\ Held(c, k)
    BY <1>1, <1>4 DEF Pending, Held, Grips
  <2>2. Fresh(k, Name(call[c].snap[k].key))
    BY <1>1, <1>2, <1>3, <2>1 DEF SnapKeyFresh
  <2>3. /\ row[k].sent => Issued(k)
        /\ call[c].pc = "intent" => row[k].key = None
    BY <1>2, <1>3, <2>1 DEF SnapKnows
  <2>4. row[k].status = "processing" /\ (row[k].key = None => ~row[k].attempted /\ ~row[k].sent)
    BY <1>1, <1>2, <1>4 DEF RowReady
  <2> QED
    BY <2>2, <2>3, <2>4
<1> QED
  BY <1>1, <1>3, <1>4

LEMMA IntendMail ==
    ASSUME TypeInv, ReadyInv, MailInv, NEW c \in Commits, IntendDoes(c)
    PROVE  MailInv'
<1>0. PICK k : k = Current(c)
  OBVIOUS
<1>1. call[c].pc = "intent" /\ call[c].pc \in MintSteps
  BY DEF IntendDoes, MintSteps
<1>2. /\ k \in Rows /\ c \in Senders /\ c \notin Reissues
      /\ ~call[c].snap[k].attempted /\ ~call[c].snap[k].sent
      /\ row[k].holder = c => /\ row[k].status = "processing" /\ Fresh(k, Import)
                              /\ ~row[k].attempted /\ ~row[k].sent
  BY <1>0, <1>1, MinterKnows DEF Name
<1>3. /\ \A d \in Senders : d # c => call'[d] = call[d]
      /\ call'[c].snap = call[c].snap /\ Current(c)' = k
      /\ call'[c].pc \in {"mint", "fail"}
  BY <1>0, MovesOthers DEF IntendDoes
<1>4. UNCHANGED <<batch, member, link, posts>>
  BY DEF IntendDoes, QuietRow
<1>5. ASSUME ~UNCHANGED row
      PROVE  /\ row[k].holder = c /\ row'[k].holder \in {c, None} /\ row'[k].key = Import
             /\ row'[k].attempted = row[k].attempted /\ row'[k].sent = row[k].sent
             /\ row'[k].status = row[k].status
             /\ \A j \in Rows : j # k => row'[j] = row[j]
  <2>1. PICK ho \in {c, None} :
           /\ row[k].holder = c
           /\ Noted(k, row[k].photo, row[k].attempted, row[k].sent, Import, ho)
    BY <1>0, <1>5 DEF IntendDoes
  <2> QED
    BY <1>2, <2>1, NotedFields
<1>6. \A j \in Rows : /\ (Rekeys(c, j) /\ Same(j)) \/ (j = k /\ ~UNCHANGED row)
                      /\ \A d \in Senders : d # c /\ row'[j].holder = d => row'[j] = row[j]
                      /\ row'[j].holder = c => row[j].holder = c
  <2>1. CASE UNCHANGED row
    BY <2>1, RowsStay
  <2>2. CASE ~UNCHANGED row
    <3>1. None \notin Senders
      BY NoneAssumption DEF Senders
    <3> QED
      BY <1>5, <2>2, <3>1 DEF Rekeys, Same
  <2> QED
    BY <2>1, <2>2
<1>7. ASSUME ~UNCHANGED row PROVE Rekeys(c, k) /\ Marks(c, k)
  <2>1. Fresh(k, Name(row'[k].key))
    BY <1>2, <1>5, <1>7, NoneAssumption DEF Name
  <2>2. Rekeys(c, k)
    BY <1>5, <1>7, <2>1, CallsAssumption DEF Rekeys
  <2>3. SentIsSent(k)' /\ CreatedIsSent(k)'
    BY <1>2, <1>5, <1>7 DEF SentIsSent, CreatedIsSent
  <2>4. SnapKnows(c, k)'
    BY <1>2, <1>3, <1>5, <1>7 DEF SnapKnows, Pending, EarlySteps, PhotoSteps, MintSteps
  <2>5. Grips(c, k)
    BY <1>0, <1>1, <1>5, <1>7 DEF Grips
  <2> QED
    BY <2>2, <2>3, <2>4, <2>5 DEF Marks
<1>8. Eases(c)
  <2>1. /\ call[c].pc \in WorkSteps /\ call[c].pc \in GripSteps
        /\ call[c].pc \notin {"mint", "attempt"}
    BY <1>1 DEF WorkSteps, GripSteps
  <2>2. \A j \in Rows : Rekeys(c, j)
    BY <1>6, <1>7
  <2> QED
    BY <1>0, <1>3, <1>4, <1>6, <2>1, <2>2, CommitEases
<1>9. Knows(c)' /\ HolderSent(c)'
  <2>1. CASE call'[c].pc = "fail"
    BY <2>1, CalmKnows DEF MintSteps, SendSteps
  <2>2. CASE call'[c].pc = "mint"
    BY <1>2, <1>3, <2>2 DEF Knows, HolderSent
  <2> QED
    BY <1>3, <2>1, <2>2
<1>10. \A j \in Rows : Same(j) \/ Marks(c, j)
  BY <1>6, <1>7
<1> QED
  BY <1>2, <1>3, <1>4, <1>8, <1>9, <1>10, SameIssued, WorkMail

LEMMA MintLinkMail ==
    ASSUME TypeInv, ReadyInv, MailInv, NEW c \in Commits, MintLinkDoes(c)
    PROVE  MailInv'
<1>0. PICK k : k = Current(c)
  OBVIOUS
<1>1. call[c].pc = "mint" /\ call[c].pc \in MintSteps
  BY DEF MintLinkDoes, MintSteps
<1>2. /\ k \in Rows /\ c \in Senders /\ c \notin Reissues
      /\ ~call[c].snap[k].attempted
      /\ row[k].holder = c => (row[k].sent => Issued(k))
  BY <1>0, <1>1, MinterKnows
<1>3. /\ \A d \in Senders : d # c => call'[d] = call[d]
      /\ call'[c].snap = call[c].snap /\ Current(c)' = k
      /\ call'[c].pc \in {"attempt", "fail"}
  BY <1>0, MovesOthers DEF MintLinkDoes
<1>4. UNCHANGED <<batch, row, member, posts>>
  BY DEF MintLinkDoes
<1>5. \/ /\ link' = [link EXCEPT ![k] = Import] /\ ~Issued(k)
      \/ UNCHANGED link /\ call'[c].pc = "fail"
  <2>1. link[k] = Import \/ (link[k] = None /\ member[k] = "waiting") => ~Issued(k)
    BY NoneAssumption, CallsAssumption DEF Issued
  <2> QED
    BY <1>0, <2>1, MovesOthers DEF MintLinkDoes
<1>6. \A j \in Rows : Issued(j) => Issued(j)'
  BY <1>2, <1>4, <1>5 DEF Issued, TypeInv, Types
<1>7. \A j \in Rows : /\ Rekeys(c, j) /\ Same(j)
                      /\ \A d \in Senders : d # c /\ row'[j].holder = d => row'[j] = row[j]
  BY <1>4, RowsStay
<1>8. Eases(c)
  <2>1. call[c].pc \in WorkSteps /\ call[c].pc \in GripSteps /\ call'[c].pc # "mint"
    BY <1>1, <1>3 DEF WorkSteps, GripSteps
  <2>2. call'[c].pc \in WorkSteps => call'[c].pc \in {"mint", "attempt"}
    BY <1>3 DEF WorkSteps, EarlySteps, PhotoSteps, MintSteps
  <2> QED
    BY <1>0, <1>3, <1>4, <1>7, <2>1, <2>2, CommitEases
<1>9. Knows(c)' /\ HolderSent(c)'
  <2>1. CASE call'[c].pc = "fail"
    BY <2>1, CalmKnows DEF MintSteps, SendSteps
  <2>2. CASE call'[c].pc = "attempt"
    BY <1>2, <1>3, <1>4, <1>5, <2>2 DEF Knows, HolderSent
  <2> QED
    BY <1>3, <2>1, <2>2
<1>10. call'[c].pc \notin {"send", "off"}
  BY <1>3
<1> QED
  BY <1>2, <1>4, <1>6, <1>7, <1>8, <1>9, <1>10, WorkMail

(* What a call knows when it is about to record its attempt. *)
LEMMA AttemptKnows ==
    ASSUME TypeInv, ReadyInv, MailInv, NEW c \in Senders, call[c].pc = "attempt",
           NEW k, k = Current(c), NEW key, key = KeyOf(c)
    PROVE  /\ k \in Rows /\ Has(c, k) /\ c # None /\ key \in Keys
           /\ c \in Commits => c \notin Reissues
           /\ c \in Reissues => key = c /\ row[k].key # None /\ Issued(k)
           /\ c \in Commits => key = Name(call[c].snap[k].key)
           /\ \A e \in Reissues : e # c /\ key = e => ~Unseen(e)
           /\ row[k].holder = c => /\ row[k].status = "processing" /\ ~row[k].sent
                                   /\ Fresh(k, key)
<1>1. k \in Rows /\ Has(c, k) /\ c # None /\ (c \in Commits => c \notin Reissues)
  BY SenderHand, CallsAssumption, NoneAssumption DEF Senders
<1>2. Knows(c) /\ HolderSent(c) /\ RowReady(k) /\ RowKeyFresh /\ ReissueUnseen
  BY <1>1 DEF MailInv, KeyInv, MessageInv, ReadyInv
<1>3. ~row[k].sent \/ row[k].holder # c
  BY <1>2 DEF HolderSent
<1>4. row[k].holder = c => row[k].status = "processing"
  BY <1>1, <1>2 DEF RowReady
<1>5. CASE c \in Reissues
  <2>1. key = c /\ key \in Keys /\ Name(key) = key
    BY <1>1, <1>5 DEF KeyOf, Keys, Name
  <2>2. row[k].key # None /\ Issued(k)
    BY <1>2, <1>5, SenderIsReady DEF HolderSent
  <2>3. row[k].holder = c => row[k].key = c /\ ~row[k].attempted
    BY <1>2, <1>5 DEF Knows
  <2>4. row[k].holder = c => Fresh(k, key)
    BY <1>1, <1>2, <2>1, <2>3 DEF RowKeyFresh
  <2> QED
    BY <1>1, <1>3, <1>4, <1>5, <2>1, <2>2, <2>4
<1>6. CASE c \in Commits
  <2>1. c \notin Reissues /\ key = Name(call[c].snap[k].key) /\ call[c].snap[k].key \in Keys \cup {None}
    BY <1>1, <1>6, CommitHand DEF KeyOf, Name, Snap, HandSteps, MintSteps
  <2>2. row[k].holder = c => Fresh(k, key)
    BY <1>6, <2>1, MinterKnows DEF MintSteps
  <2>3. ASSUME NEW e \in Reissues, key = e PROVE ~Unseen(e)
    <3>1. call[c].snap[k].key = e
      BY <2>1, <2>3, CallsAssumption DEF Name
    <3> QED
      BY <1>1, <1>2, <1>6, <3>1 DEF ReissueUnseen
  <2>4. key \in Keys
    BY <2>1 DEF Name, Keys
  <2> QED
    BY <1>1, <1>3, <1>4, <1>6, <2>1, <2>2, <2>3, <2>4
<1> QED
  BY <1>5, <1>6 DEF Senders

LEMMA AttemptEases ==
    ASSUME TypeInv, ReadyInv, MailInv, NEW c \in Senders, AttemptDoes(c), NEW k, k = Current(c)
    PROVE  /\ Eases(c) /\ \A j \in Rows : Same(j) \/ Marks(c, j)
           /\ UNCHANGED <<batch, member, link, posts>>
           /\ call'[c].snap = call[c].snap /\ Current(c)' = k /\ KeyOf(c)' = KeyOf(c)
           /\ \/ call'[c].pc = "fail"
              \/ /\ call'[c].pc = "send" /\ row[k].holder = c
                 /\ row'[k].key = KeyOf(c) /\ row'[k].attempted
                 /\ \A j \in Rows : j # k => row'[j] = row[j]
<1>1. PICK key : key = KeyOf(c)
  OBVIOUS
<1>2. call[c].pc = "attempt"
  BY DEF AttemptDoes
<1>3. /\ k \in Rows /\ c # None /\ (c \in Commits => c \notin Reissues)
      /\ c \in Reissues => key = c /\ row[k].key # None
      /\ \A e \in Reissues : e # c /\ key = e => ~Unseen(e)
      /\ row[k].holder = c => row[k].status = "processing" /\ ~row[k].sent
  BY <1>1, <1>2, AttemptKnows
<1>4. /\ \A d \in Senders : d # c => call'[d] = call[d]
      /\ call'[c].snap = call[c].snap /\ Current(c)' = k
      /\ call'[c].pc \in {"send", "fail"}
  BY MovesOthers DEF AttemptDoes
<1>5. KeyOf(c)' = KeyOf(c)
  BY <1>4 DEF KeyOf
<1>6. UNCHANGED <<batch, member, link, posts>>
  BY DEF AttemptDoes, QuietRow
<1>7. ASSUME NEW at, NEW ho \in {c, None}, Noted(k, row[k].photo, at, row[k].sent, key, ho)
      PROVE  /\ row'[k].holder = ho /\ row'[k].key = key
             /\ row'[k].attempted = at /\ row'[k].sent = row[k].sent
             /\ row'[k].status = row[k].status
             /\ \A j \in Rows : j # k => row'[j] = row[j]
  BY <1>3, <1>7, NotedFields
<1>8. \/ UNCHANGED row /\ call'[c].pc = "fail"
      \/ /\ row[k].holder = c /\ row'[k].holder \in {c, None} /\ row'[k].key = key
         /\ row'[k].attempted /\ row'[k].sent = row[k].sent
         /\ row'[k].status = row[k].status
         /\ \A j \in Rows : j # k => row'[j] = row[j]
  <2>1. \/ UNCHANGED row /\ call'[c].pc = "fail"
        \/ /\ row[k].holder = c
           /\ \E at \in {TRUE}, ho \in {c, None} : Noted(k, row[k].photo, at, row[k].sent, key, ho)
    BY <1>1, MovesOthers DEF AttemptDoes
  <2> QED
    BY <1>7, <2>1
<1>9. None \notin Senders
  BY NoneAssumption DEF Senders
<1>10. \A j \in Rows : /\ Rekeys(c, j)
                       /\ \A d \in Senders : d # c /\ row'[j].holder = d => row'[j] = row[j]
                       /\ row'[j].holder = c => row[j].holder = c
  <2>1. CASE UNCHANGED row
    BY <2>1, RowsStay
  <2>2. CASE ~UNCHANGED row
    <3>1. ASSUME NEW e \in Reissues, e # c, row'[k].key = e PROVE ~Unseen(e)
      BY <1>3, <1>8, <2>2, <3>1
    <3>2. Rekeys(c, k)
      BY <1>8, <2>2, <3>1 DEF Rekeys
    <3>3. \A j \in Rows : j # k => Rekeys(c, j)
      BY <1>8, <2>2 DEF Rekeys
    <3> QED
      BY <1>8, <1>9, <2>2, <3>2, <3>3
  <2> QED
    BY <2>1, <2>2
<1>11. Eases(c)
  <2>1. CASE c \in Commits
    <3>1. call[c].pc \in GripSteps /\ call'[c].pc \notin WorkSteps
      BY <1>2, <1>4 DEF WorkSteps, GripSteps, EarlySteps, PhotoSteps, MintSteps
    <3>2. \A d \in Senders : batch'.owner = d => batch.owner = d
      BY <1>6
    <3> QED
      BY <1>4, <1>10, <2>1, <3>1, <3>2, CommitEases
  <2>2. CASE c \in Reissues
    <3>1. ~Unseen(c)' /\ c \notin Commits
      BY <1>3, <1>4, <2>2 DEF Unseen
    <3> QED
      BY <1>4, <1>6, <1>10, <3>1 DEF Eases
  <2> QED
    BY <2>1, <2>2 DEF Senders
<1>12. ASSUME ~UNCHANGED row PROVE Marks(c, k)
  <2>1. SentIsSent(k)' /\ CreatedIsSent(k)'
    BY <1>3, <1>8, <1>12 DEF SentIsSent, CreatedIsSent
  <2>2. SnapKnows(c, k)'
    BY <1>3, <1>4 DEF SnapKnows, Pending, EarlySteps, PhotoSteps, MintSteps
  <2>3. Grips(c, k)
    BY <1>2, <1>8, <1>12 DEF Grips, MintSteps
  <2>4. c \in Reissues => /\ row[k].key # None /\ ~row'[k].sent /\ row'[k].key \in Reissues
    BY <1>3, <1>8, <1>12
  <2> QED
    BY <1>3, <2>1, <2>2, <2>3, <2>4 DEF Marks, Senders
<1>13. \A j \in Rows : Same(j) \/ Marks(c, j)
  <2>1. CASE UNCHANGED row
    BY <2>1, RowsStay
  <2>2. CASE ~UNCHANGED row
    BY <1>8, <1>12, <2>2 DEF Same
  <2> QED
    BY <2>1, <2>2
<1> QED
  BY <1>1, <1>4, <1>5, <1>6, <1>8, <1>11, <1>13

LEMMA AttemptMail ==
    ASSUME TypeInv, ReadyInv, MailInv, NEW c \in Senders, AttemptDoes(c)
    PROVE  MailInv'
<1>0. PICK k : k = Current(c)
  OBVIOUS
<1>1. PICK key : key = KeyOf(c)
  OBVIOUS
<1>2. call[c].pc = "attempt"
  BY DEF AttemptDoes
<1>3. /\ k \in Rows /\ key \in Keys /\ (c \in Commits => c \notin Reissues)
      /\ c \in Reissues => key = c /\ Issued(k)
      /\ row[k].holder = c => Fresh(k, key)
  BY <1>0, <1>1, <1>2, AttemptKnows
<1>4. /\ Eases(c) /\ \A j \in Rows : Same(j) \/ Marks(c, j)
      /\ UNCHANGED <<batch, member, link, posts>>
      /\ call'[c].snap = call[c].snap /\ Current(c)' = k /\ KeyOf(c)' = key
  BY <1>0, <1>1, AttemptEases
<1>5. CASE call'[c].pc = "fail"
  <2>1. Knows(c)' /\ HolderSent(c)'
    BY <1>5, CalmKnows DEF MintSteps, SendSteps
  <2> QED
    BY <1>4, <1>5, <2>1, SameIssued, WorkMail
<1>6. CASE /\ call'[c].pc = "send" /\ row[k].holder = c
           /\ row'[k].key = key /\ row'[k].attempted
           /\ \A j \in Rows : j # k => row'[j] = row[j]
  <2>1. Fresh(k, key)
    BY <1>3, <1>6
  <2>2. /\ OneHand /\ ReissueUnseen /\ RowKeyFresh /\ SnapKeyFresh /\ FliesAlone /\ SentOncePerKey
        /\ \A d \in Senders : Knows(d)
    BY DEF MailInv, KeyInv
  <2>3. \A d \in Senders : d # c => call'[d] = call[d]
    BY <1>4 DEF Eases
  <2>4. \A d \in Senders, j \in Rows : \A ke :
           Flies(d, j, ke)' => Flies(d, j, ke) \/ (d = c /\ j = k /\ ke = key)
    <3> TAKE d \in Senders, j \in Rows
    <3>1. CASE d = c
      BY <1>4, <3>1 DEF Flies
    <3>2. CASE d # c
      BY <2>3, <3>2, OtherStays
    <3> QED
      BY <3>1, <3>2
  <2>5. \A j \in Rows : \A ke : Fresh(j, ke) /\ ~(j = k /\ ke = key) => Fresh(j, ke)'
    BY <1>4, <2>4 DEF Fresh
  <2>6. OneHand'
    BY <1>4, <2>2, EasesOneHand
  <2>7. ReissueUnseen'
    <3>1. \A e \in Reissues : call'[e].pc = "off" => \A j \in Rows : \A p \in posts'[j] : p.key # e
      BY <1>4, <1>6, <2>2, <2>3 DEF ReissueUnseen, Senders
    <3> QED
      BY <1>4, <2>2, <3>1, EasesUnseen
  <2>8. RowKeyFresh'
    <3>1. ASSUME NEW j \in Rows, NEW ke, ke = Name(row'[j].key), ~row'[j].attempted
          PROVE  Fresh(j, ke)'
      <4>1. j # k /\ row'[j] = row[j]
        BY <1>6, <3>1
      <4>2. Fresh(j, ke)
        BY <2>2, <3>1, <4>1 DEF RowKeyFresh
      <4> QED
        BY <2>5, <4>1, <4>2
    <3> QED
      BY <3>1 DEF RowKeyFresh
  <2>9. SnapKeyFresh'
    <3>1. ASSUME NEW d \in Commits, NEW j \in Rows, NEW ke, ke = Name(call'[d].snap[j].key),
                 Pending(d, j)', Held(d, j)', ~call'[d].snap[j].attempted
          PROVE  Fresh(j, ke)'
      <4>0. d \in Senders
        BY DEF Senders
      <4>1. CASE d = c
        <5>1. j # k
          BY <1>4, <1>6, <3>1, <4>1 DEF Pending, EarlySteps, PhotoSteps, MintSteps
        <5>2. Pending(c, j) /\ Held(c, j)
          BY <1>0, <1>4, <3>1, <4>1, <5>1 DEF Pending, Has, Held, Grips
        <5>3. Fresh(j, ke)
          BY <1>4, <2>2, <3>1, <4>1, <5>2 DEF SnapKeyFresh
        <5> QED
          BY <2>5, <5>1, <5>3
      <4>2. CASE d # c
        <5>1. call'[d] = call[d] /\ Pending(d, j) /\ Held(d, j)
          BY <1>4, <2>3, <3>1, <4>0, <4>2, OtherStays, OthersHold
        <5>2. Fresh(j, ke)
          BY <2>2, <3>1, <5>1 DEF SnapKeyFresh
        <5>3. CASE j = k /\ ke = key
          <6>1. ~Grips(d, k)
            BY <1>6, <4>2 DEF Grips
          <6>2. batch.owner = d /\ Has(d, k)
            BY <5>1, <5>3, <6>1 DEF Held, Pending
          <6>3. c \notin Commits
            <7>1. Grips(c, k)
              BY <1>0, <1>2, <1>6 DEF Grips, MintSteps
            <7> QED
              BY <2>2, <1>3, <4>2, <6>2, <7>1 DEF OneHand
          <6>4. c \in Reissues /\ Unseen(c)
            BY <1>0, <1>2, <1>6, <6>3 DEF Unseen, Senders
          <6>5. call[d].snap[k].key # c
            BY <1>3, <2>2, <6>2, <6>4 DEF ReissueUnseen
          <6> QED
            BY <1>3, <3>1, <5>1, <5>3, <6>4, <6>5, CallsAssumption DEF Name
        <5> QED
          BY <2>5, <5>2, <5>3
      <4> QED
        BY <4>1, <4>2
    <3> QED
      BY <3>1 DEF SnapKeyFresh
  <2>10. FliesAlone'
    <3> SUFFICES ASSUME NEW d \in Senders, NEW j \in Rows, NEW ke \in Keys, Flies(d, j, ke)'
                 PROVE  /\ \A p \in posts'[j] : p.key # ke
                        /\ \A e \in Senders \ {d} : ~Flies(e, j, ke)'
      BY DEF FliesAlone
    <3>1. CASE d = c /\ j = k /\ ke = key
      BY <1>4, <2>1, <2>4, <3>1 DEF Fresh
    <3>2. CASE Flies(d, j, ke)
      <4>1. ~(j = k /\ ke = key)
        BY <2>1, <3>2 DEF Fresh
      <4>2. /\ \A p \in posts[j] : p.key # ke
            /\ \A e \in Senders \ {d} : ~Flies(e, j, ke)
        BY <2>2, <3>2 DEF FliesAlone
      <4> QED
        BY <1>4, <2>4, <4>1, <4>2
    <3> QED
      BY <2>4, <3>1, <3>2
  <2>11. SentOncePerKey'
    BY <1>4, <2>2 DEF SentOncePerKey
  <2>12. Knows(c)'
    BY <1>4, <1>6 DEF Knows, MintSteps
  <2>13. \A d \in Senders : Knows(d)'
    BY <1>4, <2>2, <2>12, EasesKnows
  <2>14. HolderSent(c)'
    BY <1>3, <1>4, <1>6 DEF HolderSent, Issued
  <2>15. MessageInv'
    BY <1>4, <2>2, <2>14, SameIssued, MessageAgain DEF MailInv
  <2> QED
    BY <2>6, <2>7, <2>8, <2>9, <2>10, <2>11, <2>13, <2>15 DEF MailInv, KeyInv
<1> QED
  BY <1>0, <1>1, <1>5, <1>6, AttemptEases

(* A step of a delivery that leaves the rows. *)
LEMMA SenderEases ==
    ASSUME TypeInv, NEW c \in Senders, \A d \in Senders : d # c => call'[d] = call[d],
           call'[c].snap = call[c].snap, UNCHANGED batch,
           \A k \in Rows : /\ Rekeys(c, k)
                           /\ \A d \in Senders : d # c /\ row'[k].holder = d => row'[k] = row[k]
                           /\ row'[k].holder = c => row[k].holder = c,
           call[c].pc \in {"send", "sent", "create", "fail"},
           call'[c].pc \in {"sent", "create", "fail", "refresh", "catch", "remove"},
           call'[c].pc \in SendSteps => call[c].pc \in SendSteps
    PROVE  Eases(c)
<1>1. Current(c)' = Current(c)
  BY CurrentStays
<1>2. call'[c].pc \notin WorkSteps
  BY DEF WorkSteps, EarlySteps, PhotoSteps, MintSteps
<1>3. call'[c].pc \in GripSteps => call[c].pc \in GripSteps
  BY DEF GripSteps, PhotoSteps, MintSteps, SendSteps
<1>4. CASE c \in Commits
  BY <1>1, <1>2, <1>3, <1>4, CommitEases
<1>5. CASE c \in Reissues
  <2>1. ~Unseen(c)' /\ c \notin Commits
    BY <1>5, CallsAssumption DEF Unseen
  <2> QED
    BY <2>1 DEF Eases
<1> QED
  BY <1>4, <1>5 DEF Senders

LEMMA SendMail ==
    ASSUME TypeInv, ReadyInv, MailInv, NEW c \in Senders, SendDoes(c)
    PROVE  MailInv'
<1>0. PICK k : k = Current(c)
  OBVIOUS
<1>1. PICK key : key = KeyOf(c)
  OBVIOUS
<1>2. /\ k \in Rows /\ Has(c, k) /\ call[c].pc = "send" /\ key \in Keys
      /\ Message(c).key = key /\ Flies(c, k, key)
      /\ c \in Reissues => key = c
      /\ c \in Commits => key = Name(call[c].snap[k].key)
  BY <1>0, <1>1, SenderHand, KeyOfIs DEF SendDoes, Flies
<1>3. /\ \A d \in Senders : d # c => call'[d] = call[d]
      /\ call'[c].snap = call[c].snap /\ Current(c)' = k
      /\ call'[c].pc \in {"sent", "fail"}
  BY <1>0, MovesOthers DEF SendDoes
<1>4. KeyOf(c)' = key
  BY <1>0, <1>1, <1>3 DEF KeyOf
<1>5. UNCHANGED <<batch, row, member, link>>
  BY DEF SendDoes
<1>6. \A j \in Rows : /\ Rekeys(c, j) /\ Same(j)
                      /\ \A d \in Senders : d # c /\ row'[j].holder = d => row'[j] = row[j]
  BY <1>5, RowsStay
<1>7. Eases(c)
  BY <1>2, <1>3, <1>5, <1>6, SenderEases DEF SendSteps
<1>8. CASE UNCHANGED posts /\ call'[c].pc = "fail"
  <2>1. call'[c].pc \notin MintSteps \cup SendSteps \cup {"issue", "off"}
    BY <1>8 DEF MintSteps, SendSteps
  <2> QED
    BY <1>5, <1>6, <1>7, <1>8, <2>1, SameIssued, CalmMail
<1>9. CASE posts' = [posts EXCEPT ![k] = posts[k] \cup {Message(c)}]
  <2>1. /\ posts'[k] = posts[k] \cup {Message(c)}
        /\ \A j \in Rows : j # k => posts'[j] = posts[j]
    BY <1>2, <1>9 DEF TypeInv, Types
  <2>2. /\ OneHand /\ ReissueUnseen /\ RowKeyFresh /\ SnapKeyFresh /\ FliesAlone /\ SentOncePerKey
        /\ \A d \in Senders : Knows(d) /\ HolderSent(d)
    BY DEF MailInv, KeyInv, MessageInv
  <2>3. /\ \A p \in posts[k] : p.key # key
        /\ \A d \in Senders : d # c => ~Flies(d, k, key)
    BY <1>2, <2>2 DEF FliesAlone
  <2>4. \A d \in Senders, j \in Rows : \A ke : Flies(d, j, ke)' => Flies(d, j, ke) /\ d # c
    <3> TAKE d \in Senders, j \in Rows
    <3>1. CASE d = c
      BY <1>3, <3>1 DEF Flies
    <3>2. CASE d # c
      BY <1>3, <3>2, OtherStays
    <3> QED
      BY <3>1, <3>2
  <2>5. \A j \in Rows : \A ke : Fresh(j, ke) => Fresh(j, ke)'
    <3> SUFFICES ASSUME NEW j \in Rows, NEW ke, Fresh(j, ke)
                 PROVE  /\ \A p \in posts'[j] : p.key # ke
                        /\ \A d \in Senders : ~Flies(d, j, ke)'
      BY DEF Fresh
    <3>1. j = k => ke # key
      BY <1>2 DEF Fresh
    <3>2. /\ \A p \in posts[j] : p.key # ke
          /\ \A d \in Senders : ~Flies(d, j, ke)
      BY DEF Fresh
    <3> QED
      BY <1>2, <2>1, <2>4, <3>1, <3>2
  <2>6. RowKeyFresh' /\ SnapKeyFresh'
    BY <1>7, <2>2, <2>5, EasesFresh
  <2>7. OneHand'
    BY <1>7, <2>2, EasesOneHand
  <2>8. ReissueUnseen'
    <3>1. ASSUME NEW e \in Reissues, call'[e].pc = "off", NEW j \in Rows, NEW p \in posts'[j]
          PROVE  p.key # e
      <4>1. e \in Senders /\ e # c /\ call[e].pc = "off" /\ Unseen(e)
        BY <1>3, <3>1 DEF Senders, Unseen
      <4>2. \A q \in posts[j] : q.key # e
        BY <2>2, <4>1 DEF ReissueUnseen
      <4>3. key # e
        <5>1. CASE c \in Reissues
          BY <1>2, <4>1, <5>1
        <5>2. CASE c \in Commits
          <6>1. call[c].snap[k].key # e
            BY <1>2, <2>2, <4>1, <5>2 DEF ReissueUnseen
          <6> QED
            BY <1>2, <5>2, <6>1, CallsAssumption DEF Name
        <5> QED
          BY <5>1, <5>2 DEF Senders
      <4> QED
        BY <1>2, <2>1, <3>1, <4>2, <4>3
    <3> QED
      BY <1>7, <2>2, <3>1, EasesUnseen
  <2>9. FliesAlone'
    <3> SUFFICES ASSUME NEW d \in Senders, NEW j \in Rows, NEW ke \in Keys, Flies(d, j, ke)'
                 PROVE  /\ \A p \in posts'[j] : p.key # ke
                        /\ \A e \in Senders \ {d} : ~Flies(e, j, ke)'
      BY DEF FliesAlone
    <3>1. Flies(d, j, ke) /\ d # c
      BY <2>4
    <3>2. /\ \A p \in posts[j] : p.key # ke
          /\ \A e \in Senders \ {d} : ~Flies(e, j, ke)
      BY <2>2, <3>1 DEF FliesAlone
    <3>3. ~(j = k /\ ke = key)
      BY <2>3, <3>1
    <3> QED
      BY <1>2, <2>1, <2>4, <3>2, <3>3
  <2>10. SentOncePerKey'
    <3> SUFFICES ASSUME NEW j \in Rows, NEW p \in posts'[j], NEW q \in posts'[j], p.key = q.key
                 PROVE  p = q
      BY DEF SentOncePerKey
    <3>1. CASE j # k
      BY <2>1, <2>2, <3>1 DEF SentOncePerKey
    <3>2. CASE j = k
      BY <1>2, <2>1, <2>2, <2>3, <3>2 DEF SentOncePerKey
    <3> QED
      BY <3>1, <3>2
  <2>11. Knows(c)'
    <3>1. Knows(c)
      BY <2>2
    <3>2. row[k].holder = c => row[k].key = key
      BY <1>0, <1>1, <1>2, <3>1 DEF Knows
    <3> QED
      BY <1>3, <1>4, <1>5, <3>2 DEF Knows, MintSteps
  <2>12. \A d \in Senders : Knows(d)'
    BY <1>7, <2>2, <2>11, EasesKnows
  <2>13. HolderSent(c)'
    <3>1. c \in Reissues => Issued(k)
      BY <1>0, <1>2, <2>2 DEF HolderSent
    <3>2. \E p \in posts'[k] : p.key = key
      BY <1>2, <2>1
    <3> QED
      BY <1>3, <1>4, <1>5, <3>1, <3>2 DEF HolderSent, Issued
  <2>14. \A j \in Rows : posts[j] \subseteq posts'[j]
    BY <2>1
  <2>15. MessageInv'
    BY <1>5, <1>6, <1>7, <2>2, <2>13, <2>14, SameIssued, MessageAgain DEF MailInv
  <2> QED
    BY <2>6, <2>7, <2>8, <2>9, <2>10, <2>12, <2>15 DEF MailInv, KeyInv
<1> QED
  BY <1>0, <1>8, <1>9, MovesOthers DEF SendDoes

LEMMA SentMail ==
    ASSUME TypeInv, ReadyInv, MailInv, NEW c \in Senders, SentDoes(c)
    PROVE  MailInv'
<1>0. PICK k : k = Current(c)
  OBVIOUS
<1>1. k \in Rows /\ call[c].pc = "sent" /\ (c \in Commits => c \notin Reissues)
  BY <1>0, SenderHand, CallsAssumption DEF SentDoes
<1>2. Knows(c) /\ HolderSent(c) /\ RowReady(k)
  BY <1>1 DEF MailInv, KeyInv, MessageInv, ReadyInv
<1>3. /\ \A d \in Senders : d # c => call'[d] = call[d]
      /\ call'[c].snap = call[c].snap /\ Current(c)' = k
      /\ call'[c].pc \in {"create", "fail"}
  BY <1>0, MovesOthers DEF SentDoes
<1>4. UNCHANGED <<batch, member, link, posts>>
  BY DEF SentDoes, QuietRow
<1>5. ASSUME NEW se, NEW ho \in {c, None},
             Noted(k, row[k].photo, row[k].attempted, se, row[k].key, ho)
      PROVE  /\ row'[k].holder = ho /\ row'[k].key = row[k].key
             /\ row'[k].attempted = row[k].attempted /\ row'[k].sent = se
             /\ row'[k].status = row[k].status
             /\ \A j \in Rows : j # k => row'[j] = row[j]
  BY <1>1, <1>5, NotedFields
<1>6. \/ UNCHANGED row /\ call'[c].pc = "fail"
      \/ /\ row[k].holder = c /\ row'[k].holder \in {c, None} /\ row'[k].key = row[k].key
         /\ row'[k].attempted = row[k].attempted /\ row'[k].sent
         /\ row'[k].status = row[k].status
         /\ \A j \in Rows : j # k => row'[j] = row[j]
  <2>1. \/ UNCHANGED row /\ call'[c].pc = "fail"
        \/ /\ row[k].holder = c
           /\ \E se \in {TRUE}, ho \in {c, None} :
                 Noted(k, row[k].photo, row[k].attempted, se, row[k].key, ho)
    BY <1>0, MovesOthers DEF SentDoes
  <2> QED
    BY <1>5, <2>1
<1>7. \A j \in Rows : /\ Rekeys(c, j)
                      /\ \A d \in Senders : d # c /\ row'[j].holder = d => row'[j] = row[j]
                      /\ row'[j].holder = c => row[j].holder = c
  <2>1. None \notin Senders
    BY NoneAssumption DEF Senders
  <2> QED
    BY <1>6, <2>1 DEF Rekeys
<1>8. Eases(c)
  BY <1>1, <1>3, <1>4, <1>7, SenderEases DEF SendSteps
<1>9. ASSUME ~UNCHANGED row PROVE Marks(c, k)
  <2>1. row[k].holder = c /\ row[k].status = "processing"
    BY <1>1, <1>2, <1>6, <1>9, NoneAssumption DEF RowReady, Senders
  <2>2. \E p \in posts[k] : p.key = row[k].key
    BY <1>0, <1>1, <1>2, <2>1 DEF Knows, HolderSent
  <2>3. SentIsSent(k)' /\ CreatedIsSent(k)'
    BY <1>4, <1>6, <1>9, <2>1, <2>2 DEF SentIsSent, CreatedIsSent
  <2>4. SnapKnows(c, k)'
    BY <1>3 DEF SnapKnows, Pending, EarlySteps, PhotoSteps, MintSteps
  <2>5. Grips(c, k)
    BY <1>0, <1>1, <2>1 DEF Grips, SendSteps
  <2>6. row[k].key # None
    BY <1>0, <1>1, SenderIsReady
  <2>7. c \in Reissues => Issued(k)'
    BY <1>0, <1>1, <1>2, <1>4 DEF HolderSent, Issued
  <2> QED
    BY <1>1, <1>6, <1>9, <2>3, <2>4, <2>5, <2>6, <2>7 DEF Marks, Senders
<1>10. \A j \in Rows : Same(j) \/ Marks(c, j)
  <2>1. CASE UNCHANGED row
    BY <2>1, RowsStay
  <2>2. CASE ~UNCHANGED row
    BY <1>6, <1>9, <2>2 DEF Same
  <2> QED
    BY <2>1, <2>2
<1>11. Knows(c)'
  BY <1>3 DEF Knows, MintSteps
<1>12. HolderSent(c)'
  <2>1. CASE call'[c].pc = "fail"
    BY <2>1 DEF HolderSent
  <2>2. CASE call'[c].pc = "create" /\ row'[k].holder = c
    <3>1. posts[k] # {}
      BY <1>0, <1>1, <1>2 DEF HolderSent
    <3>2. UNCHANGED row => call'[c].pc = "fail" \/ row'[k].sent
      BY <1>6
    <3> QED
      BY <1>3, <1>4, <1>6, <2>2, <3>1, <3>2 DEF HolderSent
  <2>3. CASE call'[c].pc = "create" /\ row'[k].holder # c
    BY <1>3, <2>3 DEF HolderSent
  <2> QED
    BY <1>3, <2>1, <2>2, <2>3
<1>13. call'[c].pc \notin {"send", "off"}
  BY <1>3
<1> QED
  BY <1>4, <1>8, <1>10, <1>11, <1>12, <1>13, SameIssued, WorkMail

LEMMA TurnedFields ==
    ASSUME NEW j \in Rows, NEW st, NEW co, NEW ho, Turned(j, st, co, ho)
    PROVE  /\ row'[j].status = st /\ row'[j].holder = ho /\ row'[j].key = row[j].key
           /\ row'[j].attempted = row[j].attempted /\ row'[j].sent = row[j].sent
           /\ \A k \in Rows : k # j => row'[k] = row[k]
  BY DEF Turned, RowTo, RowOf

LEMMA CreateMail ==
    ASSUME TypeInv, ReadyInv, MailInv, NEW c \in Senders, CreateDoes(c)
    PROVE  MailInv'
<1>0. PICK k : k = Current(c)
  OBVIOUS
<1>1. k \in Rows /\ call[c].pc = "create" /\ (c \in Commits => c \notin Reissues)
  BY <1>0, SenderHand, CallsAssumption DEF CreateDoes
<1>2. HolderSent(c) /\ SentIsSent(k)
  BY <1>1 DEF MailInv, MessageInv
<1>3. \A pc, active : CallTo(c, pc, call[c].snap, call[c].code, active) =>
         /\ \A d \in Senders : d # c => call'[d] = call[d]
         /\ call'[c].snap = call[c].snap /\ call'[c].pc = pc
  BY CallToOthers
<1>4. /\ \A d \in Senders : d # c => call'[d] = call[d]
      /\ call'[c].snap = call[c].snap
      /\ call'[c].pc \in {"remove", "refresh", "fail"}
  BY <1>3, MovesOthers DEF CreateDoes
<1>5. Current(c)' = k
  BY <1>0, <1>4, CurrentStays
<1>6. UNCHANGED <<batch, member, link, posts>>
  BY DEF CreateDoes, QuietRow
<1>7. \/ UNCHANGED row
      \/ /\ row[k].holder = c
         /\ row'[k].holder = None /\ row'[k].key = row[k].key
         /\ row'[k].attempted = row[k].attempted /\ row'[k].sent = row[k].sent
         /\ \A j \in Rows : j # k => row'[j] = row[j]
  <2>1. UNCHANGED row \/ (row[k].holder = c /\ Turned(k, "created", None, None))
    BY <1>0 DEF CreateDoes
  <2> QED
    BY <1>1, <2>1, TurnedFields
<1>8. \A j \in Rows : /\ Rekeys(c, j)
                      /\ \A d \in Senders : d # c /\ row'[j].holder = d => row'[j] = row[j]
                      /\ row'[j].holder = c => row[j].holder = c
  <2>1. None \notin Senders
    BY NoneAssumption DEF Senders
  <2> QED
    BY <1>7, <2>1 DEF Rekeys
<1>9. Eases(c)
  BY <1>1, <1>4, <1>6, <1>8, SenderEases DEF SendSteps
<1>10. ASSUME ~UNCHANGED row PROVE Marks(c, k)
  <2>1. posts[k] # {} /\ (row[k].sent \/ row[k].key \in Reissues)
    BY <1>0, <1>1, <1>2, <1>7, <1>10 DEF HolderSent
  <2>2. SentIsSent(k)' /\ CreatedIsSent(k)'
    BY <1>2, <1>6, <1>7, <1>10, <2>1 DEF SentIsSent, CreatedIsSent
  <2>3. SnapKnows(c, k)'
    BY <1>4, <1>5 DEF SnapKnows, Pending, EarlySteps, PhotoSteps, MintSteps
  <2>4. Grips(c, k)
    BY <1>0, <1>1, <1>7, <1>10 DEF Grips, SendSteps
  <2>5. c \in Reissues => row[k].key # None
    BY <1>0, <1>1, SenderIsReady
  <2> QED
    BY <1>1, <1>7, <1>10, <2>1, <2>2, <2>3, <2>4, <2>5 DEF Marks, Senders
<1>11. \A j \in Rows : Same(j) \/ Marks(c, j)
  <2>1. CASE UNCHANGED row
    BY <2>1, RowsStay
  <2>2. CASE ~UNCHANGED row
    BY <1>7, <1>10, <2>2 DEF Same
  <2> QED
    BY <2>1, <2>2
<1>12. Knows(c)' /\ HolderSent(c)'
  BY <1>4, CalmKnows DEF MintSteps, SendSteps
<1>13. call'[c].pc \notin {"send", "off"}
  BY <1>4
<1> QED
  BY <1>6, <1>9, <1>11, <1>12, <1>13, SameIssued, WorkMail

LEMMA FailMail ==
    ASSUME TypeInv, ReadyInv, MailInv, NEW c \in Senders, FailDoes(c)
    PROVE  MailInv'
<1>0. PICK k : k = Current(c)
  OBVIOUS
<1>1. k \in Rows /\ call[c].pc = "fail"
  BY <1>0, SenderHand DEF FailDoes
<1>2. \A pc, active : CallTo(c, pc, call[c].snap, call[c].code, active) =>
         /\ \A d \in Senders : d # c => call'[d] = call[d]
         /\ call'[c].snap = call[c].snap /\ call'[c].pc = pc
  BY CallToOthers
<1>3. /\ \A d \in Senders : d # c => call'[d] = call[d]
      /\ \/ call'[c].snap = call[c].snap /\ call'[c].pc \in {"refresh", "catch"}
         \/ call'[c].snap = Nothing /\ call'[c].pc = "done"
  BY <1>2, MovesOthers DEF FailDoes
<1>4. UNCHANGED <<batch, member, link, posts>>
  BY DEF FailDoes, QuietRow
<1>5. \/ UNCHANGED row
      \/ /\ row[k].holder = c /\ row'[k].status = "failed"
         /\ row'[k].holder = None /\ row'[k].key = row[k].key
         /\ row'[k].attempted = row[k].attempted /\ row'[k].sent = row[k].sent
         /\ \A j \in Rows : j # k => row'[j] = row[j]
  <2>1. UNCHANGED row \/ (row[k].holder = c /\ Turned(k, "failed", call[c].code, None))
    BY <1>0 DEF FailDoes
  <2> QED
    BY <1>1, <2>1, TurnedFields
<1>6. \A j \in Rows : /\ Rekeys(c, j) /\ Same(j)
                      /\ \A d \in Senders : d # c /\ row'[j].holder = d => row'[j] = row[j]
                      /\ row'[j].holder = c => row[j].holder = c
  <2>1. None \notin Senders
    BY NoneAssumption DEF Senders
  <2> QED
    BY <1>5, <2>1 DEF Rekeys, Same
<1>7. Eases(c)
  <2>1. CASE call'[c].snap = call[c].snap /\ call'[c].pc \in {"refresh", "catch"}
    BY <1>1, <1>3, <1>4, <1>6, <2>1, SenderEases DEF SendSteps
  <2>2. CASE call'[c].snap = Nothing /\ call'[c].pc = "done"
    BY <1>3, <1>4, <1>6, <2>2, EndedEases
  <2> QED
    BY <1>3, <2>1, <2>2
<1>8. call'[c].pc \notin MintSteps \cup SendSteps \cup {"issue", "off"}
  BY <1>3 DEF MintSteps, SendSteps
<1> QED
  BY <1>4, <1>6, <1>7, <1>8, SameIssued, CalmMail

LEMMA ClaimReissueMail ==
    ASSUME TypeInv, ReadyInv, MailInv, NEW c \in Reissues, NEW k \in Rows, ClaimReissueDoes(c, k)
    PROVE  MailInv'
<1>1. c \notin Commits /\ c # None /\ c \in Senders /\ Name(c) = c
  BY CallsAssumption, NoneAssumption DEF Senders, Name
<1>2. /\ \A d \in Senders : d # c => call'[d] = call[d]
      /\ call'[c].pc \in {"issue", "done"}
  <2>1. ASSUME NEW snap, CallTo(c, "issue", snap, call[c].code, call[c].active)
        PROVE  (\A d \in Senders : d # c => call'[d] = call[d]) /\ call'[c].pc = "issue"
    BY <2>1, CallToOthers
  <2>2. Ended(c) => (\A d \in Senders : d # c => call'[d] = call[d]) /\ call'[c].pc = "done"
    BY MovesOthers
  <2> QED
    BY <2>1, <2>2 DEF ClaimReissueDoes
<1>3. UNCHANGED <<batch, member, link, posts>> /\ call[c].pc = "off" /\ row[k].key # None
  BY DEF ClaimReissueDoes, QuietRow
<1>4. /\ row'[k].status = "processing" /\ row'[k].key = c /\ row'[k].holder \in {c, None}
      /\ ~row'[k].attempted /\ ~row'[k].sent
      /\ \A j \in Rows : j # k => row'[j] = row[j]
  <2>1. \E ho \in {c, None} : RowTo(k, RowOf("processing", None, row[k].photo, FALSE, FALSE, c, ho))
    BY DEF ClaimReissueDoes
  <2> QED
    BY <2>1 DEF RowTo, RowOf
<1>5. /\ Unseen(c)
      /\ \A p \in posts[k] : p.key # c
      /\ \A d \in Commits : Has(d, k) => call[d].snap[k].key # c
  BY <1>3 DEF MailInv, KeyInv, ReissueUnseen, Unseen
<1>6. Fresh(k, c)
  <2>1. ASSUME NEW d \in Senders, Flies(d, k, c) PROVE FALSE
    <3>1. k = Current(d) /\ KeyOf(d) = c /\ call[d].pc = "send" /\ Has(d, k)
      BY <2>1, SenderHand DEF Flies
    <3>2. d \in Commits
      BY <1>3, <2>1, <3>1, KeyOfIs DEF Senders
    <3>3. call[d].snap[k].key = c
      BY <3>1, <3>2, KeyOfIs, CallsAssumption DEF Senders, Name
    <3> QED
      BY <1>5, <3>1, <3>2, <3>3
  <2> QED
    BY <1>5, <2>1 DEF Fresh
<1>7. \A j \in Rows : /\ Rekeys(c, j)
                      /\ \A d \in Senders : d # c /\ row'[j].holder = d => row'[j] = row[j]
  <2>1. None \notin Senders
    BY NoneAssumption DEF Senders
  <2>2. Fresh(k, Name(row'[k].key))
    BY <1>1, <1>4, <1>6
  <2>3. Rekeys(c, k)
    BY <1>4, <2>2 DEF Rekeys
  <2> QED
    BY <1>4, <2>1, <2>3 DEF Rekeys
<1>8. call'[c].pc = "issue" => Current(c)' = k
  BY ClaimReissueHand
<1>9. Eases(c)
  <2>1. Unseen(c)' => Current(c)' = k
    BY <1>2, <1>8 DEF Unseen
  <2> QED
    BY <1>1, <1>2, <1>3, <1>4, <1>5, <1>7, <2>1 DEF Eases
<1>10. \A j \in Rows : Same(j) \/ Marks(c, j)
  <2>1. SentIsSent(k)' /\ CreatedIsSent(k)'
    BY <1>4 DEF SentIsSent, CreatedIsSent
  <2>2. Marks(c, k)
    BY <1>1, <1>3, <1>4, <2>1 DEF Marks
  <2> QED
    BY <1>4, <2>2 DEF Same
<1>11. Knows(c)' /\ HolderSent(c)'
  <2>1. CASE call'[c].pc = "issue"
    BY <1>1, <1>4, <1>8, <2>1 DEF Knows, HolderSent
  <2>2. CASE call'[c].pc = "done"
    BY <2>2, CalmKnows DEF MintSteps, SendSteps
  <2> QED
    BY <1>2, <2>1, <2>2
<1>12. call'[c].pc \notin {"send", "off"}
  BY <1>2
<1> QED
  BY <1>1, <1>3, <1>9, <1>10, <1>11, <1>12, SameIssued, WorkMail

LEMMA IssueMail ==
    ASSUME TypeInv, ReadyInv, MailInv, NEW c \in Reissues, IssueDoes(c)
    PROVE  MailInv'
<1>0. PICK k : k = Current(c)
  OBVIOUS
<1>1. /\ c \notin Commits /\ c \in Senders /\ k \in Rows /\ call[c].pc = "issue"
  BY <1>0, ReissueHand, CallsAssumption DEF IssueDoes, ReissueSteps, Senders
<1>2. /\ \A d \in Senders : d # c => call'[d] = call[d]
      /\ call'[c].snap = call[c].snap /\ Current(c)' = k
      /\ call'[c].pc \in {"attempt", "fail"}
  BY <1>0, MovesOthers DEF IssueDoes
<1>3. UNCHANGED <<batch, row, member, posts>>
  BY DEF IssueDoes
<1>4. \/ UNCHANGED link /\ call'[c].pc = "fail"
      \/ link' = [link EXCEPT ![k] = c]
  BY <1>0, MovesOthers DEF IssueDoes
<1>5. \A j \in Rows : /\ Rekeys(c, j) /\ Same(j)
                      /\ \A d \in Senders : d # c /\ row'[j].holder = d => row'[j] = row[j]
  BY <1>3, RowsStay
<1>6. \A j \in Rows : Issued(j) => Issued(j)'
  BY <1>1, <1>3, <1>4 DEF Issued, TypeInv, Types
<1>7. call'[c].pc = "attempt" => Issued(k)'
  BY <1>1, <1>4 DEF Issued, TypeInv, Types
<1>8. Eases(c)
  <2>1. Unseen(c)' => Unseen(c) /\ Current(c)' = Current(c)
    BY <1>0, <1>1, <1>2, <1>3 DEF Unseen
  <2> QED
    BY <1>1, <1>2, <1>3, <1>5, <2>1 DEF Eases
<1>9. Knows(c)' /\ HolderSent(c)'
  <2>1. Knows(c) /\ HolderSent(c)
    BY <1>1 DEF MailInv, KeyInv, MessageInv
  <2>2. row[k].holder = c => row[k].key = c /\ ~row[k].attempted /\ ~row[k].sent
    BY <1>0, <1>1, <2>1 DEF Knows, HolderSent
  <2>3. CASE call'[c].pc = "attempt"
    <3>1. Knows(c)'
      BY <1>1, <1>2, <1>3, <2>2, <2>3 DEF Knows
    <3>2. Issued(Current(c))'
      BY <1>2, <1>7, <2>3 DEF Issued
    <3> QED
      BY <1>2, <1>3, <2>2, <2>3, <3>1, <3>2 DEF HolderSent
  <2>4. CASE call'[c].pc = "fail"
    BY <2>4, CalmKnows DEF MintSteps, SendSteps
  <2> QED
    BY <1>2, <2>3, <2>4
<1>10. call'[c].pc \notin {"send", "off"}
  BY <1>2
<1> QED
  BY <1>1, <1>3, <1>5, <1>6, <1>8, <1>9, <1>10, WorkMail

(* A call that ends, or was cut off, and the cron and the reclaim, which   *)
(* know no row.                                                            *)
LEMMA EndMail ==
    ASSUME TypeInv, ReadyInv, MailInv, NEW c \in Senders, Ended(c),
           UNCHANGED <<batch, row, member, link, posts>>
    PROVE  MailInv'
<1>1. /\ \A d \in Senders : d # c => call'[d] = call[d]
      /\ call'[c].pc = "done" /\ call'[c].snap = Nothing
  BY MovesOthers
<1>2. \A k \in Rows : /\ Rekeys(c, k) /\ Same(k)
                      /\ \A d \in Senders : d # c /\ row'[k].holder = d => row'[k] = row[k]
  BY RowsStay
<1>3. Eases(c)
  BY <1>1, <1>2, EndedEases
<1>4. call'[c].pc \notin MintSteps \cup SendSteps \cup {"issue", "off"}
  BY <1>1 DEF MintSteps, SendSteps
<1> QED
  BY <1>2, <1>3, <1>4, SameIssued, CalmMail

LEMMA StrangerEases ==
    ASSUME NEW c, c \notin Senders, \A d \in Senders : call'[d] = call[d],
           \A d \in Senders : batch'.owner = d => batch.owner = d,
           \A k \in Rows : \/ row'[k] = row[k]
                           \/ /\ row'[k].key = row[k].key /\ row'[k].sent = row[k].sent
                              /\ row'[k].attempted = row[k].attempted /\ row'[k].holder = None
                              /\ row'[k].status = "created" => row[k].status = "created"
    PROVE  Eases(c) /\ \A k \in Rows : Same(k)
  BY NoneAssumption DEF Eases, Rekeys, Same, Senders

LEMMA ReclaimMail ==
    ASSUME TypeInv, ReadyInv, MailInv, NEW k \in Rows, ReclaimDoes(k)
    PROVE  MailInv'
<1>1. None \notin Senders
  BY NoneAssumption DEF Senders
<1>2. UNCHANGED <<batch, call, member, link, posts>> /\ Turned(k, "failed", "unknown", None)
  BY DEF ReclaimDoes, QuietRow
<1>3. Eases(None) /\ \A j \in Rows : Same(j)
  BY <1>1, <1>2, TurnedFields, StrangerEases
<1> QED
  BY <1>1, <1>2, <1>3, SameIssued, CalmMail

LEMMA OutsideMail ==
    ASSUME TypeInv, ReadyInv, MailInv, Outside
    PROVE  MailInv'
<1>1. None \notin Senders
  BY NoneAssumption DEF Senders
<1>2. /\ UNCHANGED <<batch, row, call, posts>>
      /\ \/ UNCHANGED <<member, link>>
         \/ \E k \in Rows : /\ member' = [member EXCEPT ![k] = "set"]
                            /\ link' = [link EXCEPT ![k] = None]
  BY DEF Outside, SetPassword, Lapse, vars
<1>3. Eases(None) /\ \A j \in Rows : Same(j)
  BY <1>1, <1>2, StrangerEases
<1>4. \A j \in Rows : Issued(j) => Issued(j)'
  BY <1>2 DEF Issued, TypeInv, Types
<1> QED
  BY <1>1, <1>2, <1>3, <1>4, CalmMail

LEMMA CronMail ==
    ASSUME TypeInv, ReadyInv, MailInv, NEW c \in Crons, CronDoes(c)
    PROVE  MailInv'
<1>1. c \notin Senders /\ None \notin Senders
  BY CallsAssumption, NoneAssumption DEF Senders
<1>2. /\ \A d \in Senders : call'[d] = call[d]
      /\ UNCHANGED <<member, link, posts>>
      /\ UNCHANGED row \/ \E k \in Rows : Unheld(k)
      /\ \A d \in Senders : batch'.owner = d => batch.owner = d
  BY <1>1 DEF CronDoes, Senders, Calls
<1>3. Eases(c) /\ \A j \in Rows : Same(j)
  <2>1. ASSUME NEW k \in Rows, Unheld(k)
        PROVE  /\ \A j \in Rows : j # k => row'[j] = row[j]
               /\ row'[k].key = row[k].key /\ row'[k].sent = row[k].sent
               /\ row'[k].attempted = row[k].attempted /\ row'[k].holder = None
               /\ row'[k].status = row[k].status
    BY <2>1, NotedFields DEF Unheld
  <2>2. \A j \in Rows : \/ row'[j] = row[j]
                        \/ /\ row'[j].key = row[j].key /\ row'[j].sent = row[j].sent
                           /\ row'[j].attempted = row[j].attempted /\ row'[j].holder = None
                           /\ row'[j].status = "created" => row[j].status = "created"
    BY <1>2, <2>1
  <2> QED
    BY <1>1, <1>2, <2>2, StrangerEases
<1> QED
  BY <1>1, <1>2, <1>3, SameIssued, CalmMail

LEMMA CrashMail ==
    ASSUME TypeInv, ReadyInv, MailInv, NEW c \in Calls, CrashDoes(c)
    PROVE  MailInv'
<1>1. Ended(c) /\ UNCHANGED <<batch, row, member, link, posts>>
  BY DEF CrashDoes
<1>2. CASE c \in Senders
  BY <1>1, <1>2, EndMail
<1>3. CASE c \notin Senders
  <2>1. \A d \in Senders : call'[d] = call[d]
    BY <1>1, <1>3, MovesOthers
  <2>2. Eases(c) /\ \A j \in Rows : Same(j)
    BY <1>1, <1>3, <2>1, StrangerEases
  <2> QED
    BY <1>1, <1>3, <2>2, SameIssued, CalmMail
<1> QED
  BY <1>2, <1>3

LEMMA MailStep ==
    ASSUME TypeInv, ReadyInv, MailInv, [Next]_vars
    PROVE  MailInv'
<1>1. ASSUME NEW c \in Commits, CommitDoes(c) PROVE MailInv'
  BY <1>1, ClaimMail, BatchMail, RequeueRowsMail, ReadRowsMail, RefreshMail, TurnsMail,
     AddMemberMail, AttachPhotoMail, MarkPhotoMail, IntendMail, MintLinkMail DEF CommitDoes
<1>2. ASSUME NEW c \in Senders, SenderDoes(c) PROVE MailInv'
  BY <1>2, AttemptMail, SendMail, SentMail, CreateMail, FailMail DEF SenderDoes
<1>3. ASSUME NEW c \in Reissues, ReissueDoes(c) PROVE MailInv'
  <2>1. RemoveStagingDoes(c) => MailInv'
    BY EndMail DEF RemoveStagingDoes, Senders
  <2> QED
    BY <1>3, <2>1, ClaimReissueMail, IssueMail DEF ReissueDoes
<1>4. ASSUME NEW c \in Crons, CronDoes(c) PROVE MailInv'
  BY <1>4, CronMail
<1>5. ASSUME NEW c \in Calls, CrashDoes(c) PROVE MailInv'
  BY <1>5, CrashMail
<1>6. ASSUME NEW k \in Rows, ReclaimDoes(k) PROVE MailInv'
  BY <1>6, ReclaimMail
<1> QED
  BY <1>1, <1>2, <1>3, <1>4, <1>5, <1>6, StepIs, OutsideMail

LEMMA MailInit == Init => MailInv
<1> SUFFICES ASSUME Init PROVE MailInv
  OBVIOUS
<1>1. \A c \in Senders : call[c].pc = "off" /\ \A k \in Rows : ~Has(c, k)
  BY DEF Init, Idle, Has, Nothing, Senders, Calls
<1>2. /\ batch.owner = None
      /\ \A k \in Rows : /\ row[k].status = "staged" /\ row[k].key = None /\ ~row[k].sent
                         /\ row[k].holder = None /\ posts[k] = {}
  BY DEF Init
<1>3. \A k \in Rows : \A key : Fresh(k, key)
  BY <1>1, <1>2 DEF Fresh, Flies
<1>4. \A c \in Senders : Knows(c) /\ HolderSent(c)
  BY <1>1 DEF Knows, HolderSent, MintSteps
<1>5. OneHand /\ ReissueUnseen
  BY <1>1, <1>2, NoneAssumption DEF OneHand, ReissueUnseen, Senders
<1>6. RowKeyFresh /\ SnapKeyFresh
  BY <1>3 DEF RowKeyFresh, SnapKeyFresh
<1>7. FliesAlone /\ SentOncePerKey
  BY <1>1, <1>2 DEF FliesAlone, Flies, SentOncePerKey
<1>8. \A k \in Rows : SentIsSent(k) /\ CreatedIsSent(k)
  BY <1>2 DEF SentIsSent, CreatedIsSent
<1>9. \A c \in Commits, k \in Rows : SnapKnows(c, k)
  BY <1>1 DEF SnapKnows, Pending, Senders
<1> QED
  BY <1>4, <1>5, <1>6, <1>7, <1>8, <1>9 DEF MailInv, KeyInv, MessageInv

LEMMA MailIsComplete == ReadyInv /\ MailInv => CreatedIsComplete
<1> SUFFICES ASSUME ReadyInv, MailInv, NEW k \in Rows, row[k].status = "created"
             PROVE  /\ member[k] # "none"
                    /\ k \in Pictured => image[k]
                    /\ \E p \in posts[k] :
                          p.key = row[k].key \/ (~row[k].sent /\ row[k].key \in Reissues)
  BY DEF CreatedIsComplete
<1>1. Ready(k)
  BY DEF ReadyInv, RowReady
<1>2. SentIsSent(k) /\ CreatedIsSent(k)
  BY DEF MailInv, MessageInv
<1>3. \E p \in posts[k] : p.key = row[k].key \/ (~row[k].sent /\ row[k].key \in Reissues)
  BY <1>2 DEF SentIsSent, CreatedIsSent
<1> QED
  BY <1>1, <1>3 DEF Ready

(* No delivery key is used for two messages, for any rows and any number   *)
(* of commits and reissues that retry, take over, die or lose replies.     *)
THEOREM KeysAreUsedOnce == Spec => []SentOncePerKey
<1>1. Init => TypeInv /\ ReadyInv /\ MailInv
  BY TypeInit, ReadyInit, MailInit
<1>2. TypeInv /\ ReadyInv /\ MailInv /\ [Next]_vars => (TypeInv /\ ReadyInv /\ MailInv)'
  BY TypeStep, ReadyStep, MailStep
<1>3. MailInv => SentOncePerKey
  BY DEF MailInv, KeyInv
<1> QED
  BY <1>1, <1>2, <1>3, PTL DEF Spec

(* A row reported as created has its member, its photo's record, and a     *)
(* message a provider accepted under the row's own key, or, where a reissue *)
(* came between a commit's reading of the row and its claim, an earlier one. *)
THEOREM CreatedAreComplete == Spec => []CreatedIsComplete
<1>1. Init => TypeInv /\ ReadyInv /\ MailInv
  BY TypeInit, ReadyInit, MailInit
<1>2. TypeInv /\ ReadyInv /\ MailInv /\ [Next]_vars => (TypeInv /\ ReadyInv /\ MailInv)'
  BY TypeStep, ReadyStep, MailStep
<1>3. ReadyInv /\ MailInv => CreatedIsComplete
  BY MailIsComplete
<1> QED
  BY <1>1, <1>2, <1>3, PTL DEF Spec
=============================================================================
