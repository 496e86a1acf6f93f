-------------------------- MODULE MemberAccessProps --------------------------
(* What the email and password paths must guarantee together.              *)
EXTENDS MemberAccess

Row == [email : Address, verified : BOOLEAN, must : BOOLEAN, disabled : BOOLEAN]
Challenge == [email : Emails, by : Sends, status : {"pending", "sent", "closed"}]
Move == [email : Emails, done : BOOLEAN, link : Links]
Link == [pc : {"idle", "check", "admin", "invite", "wipe", "insert", "deliver", "done"},
         member : Members \cup {None}, kind : Kinds, channel : Channels, to : Address,
         token : {"none", "active", "consumed", "used"}]
Send == [pc : {"idle", "reserve", "mail", "mark", "drop", "done"},
         member : Members \cup {None}, purpose : Purposes \cup {None}, email : Address]

(* The rows have their shape, and the unique indexes hold: one member per  *)
(* address, one active token per member and purpose.                       *)
TypeOK ==
  /\ member \in [Members -> Row]
  /\ code \in [Members -> [Purposes -> Challenge \cup {None}]]
  /\ move \in [Members -> Move \cup {None}]
  /\ link \in [Links -> Link]
  /\ send \in [Sends -> Send]
  /\ form \in [Forms -> Links \cup {None}]
  /\ posts \subseteq [to : Address, what : Sends \cup Links]
  /\ outdone \subseteq Links
  /\ \A m, n \in Members : m # n /\ member[m].email = member[n].email => member[m].email = None
  /\ \A m \in Members, k \in Kinds : Cardinality(Tokens(m, {k})) <= 1

(* An address counts as verified only when a code or a link for that       *)
(* member was mailed to it ("possessing an administrator-shared link must  *)
(* not verify an email address", 20260821001338), whatever the order of    *)
(* codes, moves, resets and changes of the address in between.             *)
About(what) == IF what \in Sends THEN send[what].member ELSE link[what].member
VerifiedByMail ==
  \A m \in Members : member[m].verified =>
    \E p \in posts : p.to = member[m].email /\ p.to # None /\ About(p.what) = m

(* A link that is used was not voided since: by a move to email login, an  *)
(* administrator's link, a reissued setup link, a new request for a reset  *)
(* link, or the end of the member's Mattermost login, even when it was     *)
(* opened before and they are under way at once ("The token is re-read     *)
(* after that lock so a concurrent resend safely wins",                    *)
(* complete_member_password_action).                                       *)
VoidedLinksAreDead ==
  [][\A l \in outdone : link[l].token = "used" \/ link'[l].token # "used"]_vars

(* Nobody holds a working link for an address that another member's        *)
(* completed move owns (the comment on                                     *)
(* member_email_login_transitions_email_unique).                           *)
MovesOwnTheirAddress ==
  \A l \in Links, n \in Members :
    Live(l) /\ link[l].kind = "move" /\ n # link[l].member
      /\ move[n] # None /\ move[n].done => move[n].email # link[l].to
=============================================================================
