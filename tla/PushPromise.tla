----------------------------- MODULE PushPromise -----------------------------
(***************************************************************************)
(* What a retry-safe push campaign promises each browser subscription,     *)
(* without saying how: no runs, leases, lost answers or ledger columns.    *)
(* A subscription is owed a push, is being tried, has been delivered to,   *)
(* or its outcome is unknown and it is left to an operator for good.       *)
(***************************************************************************)
EXTENDS Naturals

CONSTANT Subscriptions      \* browser push subscriptions of the audience

VARIABLES state,            \* where each subscription stands
          accepted,         \* how many pushes the provider took for it
          misreported,      \* how many of those it took and then failed to confirm
          covered           \* the subscriptions a finished campaign answers for

vars == <<state, accepted, misreported, covered>>

(* A push is in flight for s: taken by the provider and not written off.   *)
Holds(s) == accepted[s] # misreported[s]

Init ==
  /\ state = [s \in Subscriptions |-> "owed"]
  /\ accepted = [s \in Subscriptions |-> 0]
  /\ misreported = [s \in Subscriptions |-> 0]
  /\ covered = {}

Try(s) ==
  /\ state[s] = "owed"
  /\ state' = [state EXCEPT ![s] = "trying"]
  /\ UNCHANGED <<accepted, misreported, covered>>

(* The provider may still take a push whose outcome was already given up.  *)
Accept(s) ==
  /\ state[s] \in {"trying", "unknown"}
  /\ ~Holds(s)
  /\ accepted' = [accepted EXCEPT ![s] = @ + 1]
  /\ UNCHANGED <<state, misreported, covered>>

Misreport(s) ==
  /\ state[s] \in {"trying", "unknown"}
  /\ Holds(s)
  /\ misreported' = [misreported EXCEPT ![s] = @ + 1]
  /\ UNCHANGED <<state, accepted, covered>>

Refuse(s) ==
  /\ state[s] = "trying"
  /\ ~Holds(s)
  /\ state' = [state EXCEPT ![s] = "owed"]
  /\ UNCHANGED <<accepted, misreported, covered>>

Confirm(s) ==
  /\ state[s] = "trying"
  /\ Holds(s)
  /\ state' = [state EXCEPT ![s] = "delivered"]
  /\ UNCHANGED <<accepted, misreported, covered>>

GiveUp(s) ==
  /\ state[s] \in {"owed", "trying"}
  /\ state' = [state EXCEPT ![s] = "unknown"]
  /\ UNCHANGED <<accepted, misreported, covered>>

(* The campaign is closed once, over subscriptions that all got their push. *)
Complete(S) ==
  /\ covered = {}
  /\ \A s \in S : state[s] = "delivered"
  /\ covered' = S
  /\ UNCHANGED <<state, accepted, misreported>>

Next ==
  \/ \E s \in Subscriptions :
        \/ Try(s) \/ Accept(s) \/ Misreport(s)
        \/ Refuse(s) \/ Confirm(s) \/ GiveUp(s)
  \/ \E S \in SUBSET Subscriptions : Complete(S)

Spec == Init /\ [][Next]_vars
=============================================================================
