---------------------------- MODULE MemberAccess ----------------------------
(***************************************************************************)
(* How a member proves an email address and sets a password: codes mailed  *)
(* for verification and for recovery, the administrator's move of a member *)
(* from Mattermost to an email login, reset and setup links, and the       *)
(* completion of any of these links.  Requests overlap and stop anywhere;  *)
(* the database functions lock the member row, two of the paths do not.    *)
(*                                                                         *)
(* All members are linked to Mattermost.  Deleted members, reserved        *)
(* identifiers and the lifetime of links are left out; a request that dies *)
(* is one that takes no further step.                                      *)
(***************************************************************************)
EXTENDS Naturals, FiniteSets

CONSTANTS Members,          \* active members
          Emails,           \* normalised addresses
          Purposes,         \* what a code is for: email_verify, email_recovery
          Sends,            \* requests for a code
          Links,            \* requests for a link: each issues one token at most
          Forms,            \* completions of a link, by whoever opened it
          None              \* no address, code, move, link

ASSUME NoneAssumption ==
  /\ None \notin Emails \cup Members \cup Links
  /\ None \notin [email : Emails, done : BOOLEAN, link : Links]
ASSUME RequestsAssumption == Sends \cap Links = {}

VARIABLES member,           \* members rows
          code,             \* newest member_email_challenges row per purpose
          move,             \* member_email_login_transitions rows
          link,             \* link requests, and the token each issued
          send,             \* code requests
          form,             \* the link each completion has read
          posts,            \* messages accepted for delivery: code or link, and address
          outdone           \* ghost: links voided by a later one, or by the login's end

vars == <<member, code, move, link, send, form, posts, outdone>>

Address == Emails \cup {None}
Channels == {"mattermost", "email", "admin"}
Kinds == {"move", "reset", "adminReset", "setup"}
NoSend == [pc |-> "idle", member |-> None, purpose |-> None, email |-> None]
NoLink == [pc |-> "idle", member |-> None, kind |-> "setup", channel |-> "admin",
           to |-> None, token |-> "none"]

Init ==
  /\ member \in [Members -> [email : Address, verified : {FALSE}, must : BOOLEAN,
                             disabled : {FALSE}]]
  /\ \A m, n \in Members : m # n => member[m].email # member[n].email \/ member[m].email = None
  /\ code = [m \in Members |-> [p \in Purposes |-> None]]
  /\ move = [m \in Members |-> None]
  /\ link = [l \in Links |-> NoLink]
  /\ send = [s \in Sends |-> NoSend]
  /\ form = [f \in Forms |-> None]
  /\ posts = {}
  /\ outdone = {}

(* begin_member_email_login_transition holds the member row FOR UPDATE     *)
(* while it looks for the address.                                         *)
Free(m) == \A l \in Links : link[l].pc = "check" => link[l].member # m
Taken(e, m) == \E n \in Members \ {m} : member[n].email = e
Moving(m) == move[m] # None /\ ~move[m].done
Live(l) == link[l].token = "active"
Post(to, what) == posts' = posts \cup {[to |-> to, what |-> what]}
Received(what) == \E p \in posts : p.what = what

------------------------------------------------------------------------------
(* A code: issueMemberEmailChallenge behind the two send routes.           *)

SendAt(s, pc) == send[s].pc = pc
SendGoes(s, pc) == send' = [send EXCEPT ![s].pc = pc]
Code(s) == code[send[s].member][send[s].purpose]
Mine(s) == Code(s) # None /\ Code(s).by = s

StartSend(s, m, p, e) ==
  /\ SendAt(s, "idle")
  /\ ~Taken(e, m)
  /\ ~(member[m].email = e /\ member[m].verified)
  /\ send' = [send EXCEPT ![s] = [pc |-> "reserve", member |-> m, purpose |-> p, email |-> e]]
  /\ UNCHANGED <<member, code, move, link, form, posts, outdone>>

(* Refused while an open code cools down, which it stops doing unseen.     *)
Reserve(s) ==
  /\ SendAt(s, "reserve") /\ Free(send[s].member)
  /\ \/ /\ code' = [code EXCEPT ![send[s].member][send[s].purpose] =
                      [email |-> send[s].email, by |-> s, status |-> "pending"]]
        /\ SendGoes(s, "mail")
     \/ /\ Code(s) # None /\ Code(s).status # "closed"
        /\ SendGoes(s, "done") /\ UNCHANGED code
  /\ UNCHANGED <<member, move, link, form, posts, outdone>>

(* The mail may leave and be reported as failed.                           *)
MailCode(s) ==
  /\ SendAt(s, "mail")
  /\ \/ Post(send[s].email, s) /\ (SendGoes(s, "mark") \/ SendGoes(s, "drop"))
     \/ SendGoes(s, "drop") /\ UNCHANGED posts
  /\ UNCHANGED <<member, code, move, link, form, outdone>>

MarkSent(s) ==
  /\ SendAt(s, "mark")
  /\ \/ /\ Mine(s) /\ Code(s).status = "pending"
        /\ code' = [code EXCEPT ![send[s].member][send[s].purpose].status = "sent"]
        /\ SendGoes(s, "done")
     \/ SendGoes(s, "drop") /\ UNCHANGED code
  /\ UNCHANGED <<member, move, link, form, posts, outdone>>

(* Every older code was closed by this one, so none becomes the newest.    *)
DropPending(s) ==
  /\ SendAt(s, "drop")
  /\ code' = IF Mine(s) /\ Code(s).status = "pending"
             THEN [code EXCEPT ![send[s].member][send[s].purpose] = None] ELSE code
  /\ SendGoes(s, "done")
  /\ UNCHANGED <<member, move, link, form, posts, outdone>>

(* Ten wrong guesses (five for recovery), or the code's lifetime.          *)
LapseCode(m, p) ==
  /\ code[m][p] # None /\ code[m][p].status # "closed"
  /\ code' = [code EXCEPT ![m][p].status = "closed"]
  /\ UNCHANGED <<member, move, link, send, form, posts, outdone>>

(* complete_member_email_verification and complete_member_email_recovery,  *)
(* given a code that was received.                                         *)
Verify(m, p) ==
  /\ Free(m)
  /\ code[m][p] # None /\ code[m][p].status = "sent" /\ Received(code[m][p].by)
  /\ ~Taken(code[m][p].email, m)
  /\ member' = [member EXCEPT ![m].email = code[m][p].email, ![m].verified = TRUE]
  /\ code' = [code EXCEPT ![m][p].status = "closed"]
  /\ UNCHANGED <<move, link, send, form, posts, outdone>>

------------------------------------------------------------------------------
(* Issuing a link.  Tokens are unique per member and purpose while active. *)

LinkAt(l, pc) == link[l].pc = pc
LinkGoes(l, pc) == link' = [link EXCEPT ![l].pc = pc]
Tokens(m, kinds) == {l \in Links : Live(l) /\ link[l].member = m /\ link[l].kind \in kinds}
Ask(l, pc, m, kind, channel, to) ==
  /\ LinkAt(l, "idle")
  /\ link' = [link EXCEPT ![l] = [pc |-> pc, member |-> m, kind |-> kind, to |-> to,
                                  channel |-> channel, token |-> "none"]]

(* l's token is inserted after the tokens in gone are consumed.            *)
Issued(l, gone) ==
  link' = [k \in Links |->
             IF k = l THEN [link[l] EXCEPT !.pc = "deliver", !.token = "active"]
             ELSE IF k \in gone THEN [link[k] EXCEPT !.token = "consumed"] ELSE link[k]]
Outdo(m, kinds) ==
  outdone' = outdone \cup
    {l \in Links : link[l].member = m /\ link[l].kind \in kinds /\ link[l].token # "none"}

BeginCheck(l, m, e) ==
  /\ Free(m)
  /\ member[m].email \in {None, e}
  /\ ~Taken(e, m)
  /\ move[m] = None \/ Moving(m)
  /\ Ask(l, "check", m, "move", "email", e)
  /\ UNCHANGED <<member, code, move, send, form, posts, outdone>>

(* member_email_login_transitions_email_unique; a clash undoes the call.   *)
ClaimedM(e, m) ==           \* mutant: only pending transitions claim an address
  \E n \in Members \ {m} : Moving(n) /\ move[n].email = e

Claimed(e, m) == \E n \in Members \ {m} : move[n] # None /\ move[n].email = e

BeginInsert(l) ==
  LET m == link[l].member IN
  /\ LinkAt(l, "check")
  /\ IF Claimed(link[l].to, m)
     THEN LinkGoes(l, "done") /\ UNCHANGED <<member, move, outdone>>
     ELSE /\ Issued(l, Tokens(m, Kinds)) /\ Outdo(m, Kinds)
          /\ move' = [move EXCEPT ![m] = [email |-> link[l].to, done |-> FALSE, link |-> l]]
          /\ member' = [member EXCEPT ![m].disabled = TRUE, ![m].must = TRUE]
  /\ UNCHANGED <<code, send, form, posts>>

Abort(l) ==
  /\ LinkAt(l, "check") /\ LinkGoes(l, "done")
  /\ UNCHANGED <<member, code, move, send, form, posts, outdone>>

(* issueAdminMemberPasswordReset reads the member, then issues the action. *)
AskAdmin(l, m, channel) ==
  /\ channel \in {"email", "admin"}
  /\ channel = "email" => member[m].email # None
  /\ Ask(l, "admin", m, IF member[m].must THEN "setup" ELSE "adminReset", channel,
         IF channel = "email" THEN member[m].email ELSE None)
  /\ UNCHANGED <<member, code, move, send, form, posts, outdone>>

IssueAdmin(l) ==
  LET m == link[l].member IN
  /\ LinkAt(l, "admin") /\ Free(m)
  /\ IF /\ link[l].channel = "email" => member[m].email = link[l].to
        /\ member[m].must = (link[l].kind = "setup")
        /\ ~Moving(m)
     THEN Issued(l, Tokens(m, Kinds)) /\ Outdo(m, Kinds)
     ELSE LinkGoes(l, "done") /\ UNCHANGED outdone
  /\ UNCHANGED <<member, code, move, send, form, posts>>

(* The reissued setup link of a manual import, for a member whose address  *)
(* is still the imported one.                                              *)
AskInvite(l, m, channel) ==
  /\ channel \in {"mattermost", "email"}
  /\ channel = "email" => member[m].email # None
  /\ Ask(l, "invite", m, "setup", channel,
         IF channel = "email" THEN member[m].email ELSE None)
  /\ UNCHANGED <<member, code, move, send, form, posts, outdone>>

IssueInviteM(l) ==          \* mutant: the earlier setup link is not consumed
  /\ LinkAt(l, "invite") /\ Free(link[l].member)
  /\ IF member[link[l].member].must THEN Issued(l, {}) ELSE LinkGoes(l, "done")
  /\ UNCHANGED <<member, code, move, send, form, posts, outdone>>

IssueInvite(l) ==
  /\ LinkAt(l, "invite") /\ Free(link[l].member)
  /\ IF member[link[l].member].must
     THEN Issued(l, Tokens(link[l].member, {"setup"})) /\ Outdo(link[l].member, {"setup"})
     ELSE LinkGoes(l, "done") /\ UNCHANGED outdone
  /\ UNCHANGED <<member, code, move, send, form, posts>>

(* issueManualMemberPasswordReset: three statements, no lock on the member. *)
AskReset(l, m) ==
  /\ member[m].email # None /\ member[m].verified /\ ~member[m].must
  /\ Ask(l, "wipe", m, "reset", "email", member[m].email)
  /\ UNCHANGED <<member, code, move, send, form, posts, outdone>>

WipeResets(l) ==
  LET old == Tokens(link[l].member, {"reset"}) IN
  /\ LinkAt(l, "wipe")
  /\ link' = [k \in Links |->
       IF k = l THEN [link[l] EXCEPT !.pc = "insert"]
       ELSE IF k \in old THEN [link[k] EXCEPT !.token = "consumed"] ELSE link[k]]
  /\ Outdo(link[l].member, {"reset"})
  /\ UNCHANGED <<member, code, move, send, form, posts>>

InsertReset(l) ==           \* the foreign key waits for a locked member row
  /\ LinkAt(l, "insert") /\ Free(link[l].member)
  /\ IF Tokens(link[l].member, {"reset"}) = {} THEN Issued(l, {}) ELSE LinkGoes(l, "done")
  /\ UNCHANGED <<member, code, move, send, form, posts, outdone>>

(* The link is mailed, sent by direct message or shown to the administrator. *)
Deliver(l) ==
  /\ LinkAt(l, "deliver")
  /\ Post(link[l].to, l) \/ UNCHANGED posts
  /\ LinkGoes(l, "done")
  /\ UNCHANGED <<member, code, move, send, form, outdone>>

------------------------------------------------------------------------------
(* disable_member_mattermost_login, or a whole generation.                 *)
Disable(M) ==
  /\ \A m \in M : Free(m)
  /\ member' = [m \in Members |-> IF m \in M THEN [member[m] EXCEPT !.disabled = TRUE]
                                             ELSE member[m]]
  /\ link' = [l \in Links |->
                IF Live(l) /\ link[l].member \in M /\ link[l].channel = "mattermost"
                THEN [link[l] EXCEPT !.token = "consumed"] ELSE link[l]]
  /\ outdone' = outdone \cup {l \in Links : /\ link[l].member \in M /\ link[l].token # "none"
                                            /\ link[l].channel = "mattermost"}
  /\ UNCHANGED <<code, move, send, form, posts>>

(* complete_member_password_action: the token is read, then the member row *)
(* is locked and the token read again.                                     *)
ReadLink(f, l) ==
  /\ form[f] = None
  /\ Live(l) /\ Received(l)
  /\ form' = [form EXCEPT ![f] = l]
  /\ UNCHANGED <<member, code, move, link, send, posts, outdone>>

AllowedM(l) ==              \* mutant: the token is not read again under the lock
  LET m == link[l].member IN
  /\ ~(member[m].disabled /\ link[l].channel = "mattermost")
  /\ link[l].kind = "move" => Moving(m) /\ move[m].link = l /\ ~Taken(move[m].email, m)

Allowed(l) ==
  LET m == link[l].member IN
  /\ Live(l)
  /\ ~(member[m].disabled /\ link[l].channel = "mattermost")
  /\ link[l].kind = "move" => Moving(m) /\ move[m].link = l /\ ~Taken(move[m].email, m)

RowAfterM(l) ==             \* mutant: any link verifies the address on file
  LET m == link[l].member IN
  [member[m] EXCEPT !.email = IF link[l].kind = "move" THEN move[m].email ELSE @,
                    !.verified = TRUE, !.must = FALSE]

RowAfter(l) ==
  LET m == link[l].member IN
  [member[m] EXCEPT !.email = IF link[l].kind = "move" THEN move[m].email ELSE @,
                    !.verified = @ \/ link[l].channel = "email",
                    !.must = FALSE]

Finish(f) ==
  LET l == form[f]  m == link[form[f]].member IN
  /\ form[f] # None /\ Free(m)
  /\ form' = [form EXCEPT ![f] = None]
  /\ IF Allowed(l)
     THEN /\ link' = [link EXCEPT ![l].token = "used"]
          /\ member' = [member EXCEPT ![m] = RowAfter(l)]
          /\ move' = IF link[l].kind = "move" THEN [move EXCEPT ![m].done = TRUE] ELSE move
     ELSE UNCHANGED <<link, member, move>>
  /\ UNCHANGED <<code, send, posts, outdone>>

------------------------------------------------------------------------------
SendStep(s) ==
  \/ \E m \in Members, p \in Purposes, e \in Emails : StartSend(s, m, p, e)
  \/ Reserve(s) \/ MailCode(s) \/ MarkSent(s) \/ DropPending(s)

LinkStep(l) ==
  \/ \E m \in Members, e \in Emails : BeginCheck(l, m, e)
  \/ BeginInsert(l) \/ Abort(l)
  \/ \E m \in Members, c \in Channels : AskAdmin(l, m, c) \/ AskInvite(l, m, c)
  \/ IssueAdmin(l) \/ IssueInvite(l)
  \/ \E m \in Members : AskReset(l, m)
  \/ WipeResets(l) \/ InsertReset(l) \/ Deliver(l)

Next ==
  \/ \E s \in Sends : SendStep(s)
  \/ \E l \in Links : LinkStep(l)
  \/ \E m \in Members, p \in Purposes : LapseCode(m, p) \/ Verify(m, p)
  \/ \E M \in (SUBSET Members) \ {{}} : Disable(M)
  \/ \E f \in Forms : Finish(f) \/ \E l \in Links : ReadLink(f, l)

Spec == Init /\ [][Next]_vars
=============================================================================
