--------------------------- MODULE MemberAccess_proofs ---------------------------
(***************************************************************************)
(* For any number of members, addresses and requests under way: the unique *)
(* indexes hold, a voided link stays dead, no live move is for an address  *)
(* that another completed move owns, and a verified address was mailed.    *)
(***************************************************************************)
EXTENDS MemberAccessProps, FiniteSetTheorems, TLAPS

Types ==
  /\ member \in [Members -> Row]
  /\ code \in [Members -> [Purposes -> Challenge \cup {None}]]
  /\ move \in [Members -> Move \cup {None}]
  /\ link \in [Links -> Link]
  /\ send \in [Sends -> Send]
  /\ form \in [Forms -> Links \cup {None}]
  /\ posts \subseteq [to : Address, what : Sends \cup Links]
  /\ outdone \subseteq Links

(* Two members have two addresses; two live links of a member, two kinds.  *)
OwnAddresses ==
  \A m, n \in Members : m # n /\ member[m].email = member[n].email => member[m].email = None
OneToken ==
  \A k, l \in Links :
    Live(k) /\ Live(l) /\ link[k].member = link[l].member /\ link[k].kind = link[l].kind => k = l

(* What a request for a link has decided at each of its steps.             *)
Asked(l) == link[l].pc # "idle"
LinkOK(l) ==
  /\ Asked(l) => link[l].member \in Members
  /\ link[l].pc \in {"idle", "check", "admin", "invite", "wipe", "insert"} => link[l].token = "none"
  /\ link[l].pc = "check" => link[l].kind = "move"
  /\ link[l].pc = "admin" => link[l].kind \in {"adminReset", "setup"}
  /\ link[l].pc = "invite" => link[l].kind = "setup"
  /\ link[l].pc \in {"wipe", "insert"} => link[l].kind = "reset"
  /\ Asked(l) /\ link[l].kind = "move" => link[l].channel = "email"
  /\ Asked(l) /\ link[l].channel = "email" => link[l].to \in Emails
LinksOK == \A l \in Links : LinkOK(l)

(* What was posted is what the request asked to be sent, where it asked.   *)
SendsOK ==
  /\ \A s \in Sends : send[s].pc # "idle" =>
       send[s].member \in Members /\ send[s].purpose \in Purposes /\ send[s].email \in Emails
  /\ \A m \in Members, p \in Purposes : code[m][p] # None =>
       LET s == code[m][p].by IN
       send[s].pc # "idle" /\ send[s].member = m /\ send[s].email = code[m][p].email
PostsOK ==
  /\ \A p \in posts : p.what \in Sends => send[p.what].pc # "idle" /\ p.to = send[p.what].email
  /\ \A p \in posts : p.what \in Links => Asked(p.what) /\ p.to = link[p.what].to
  /\ \A f \in Forms : form[f] # None => Received(form[f])

(* A voided link had a token and has it no more.                           *)
OutdoneAreDead == \A l \in outdone : link[l].token \in {"consumed", "used"}

(* A live move is for the address its member has claimed, alone.           *)
ClaimsDiffer ==
  \A m, n \in Members : m # n /\ move[m] # None /\ move[n] # None => move[m].email # move[n].email
LiveMovesClaim ==
  \A l \in Links : Live(l) /\ link[l].kind = "move" =>
    move[link[l].member] # None /\ move[link[l].member].email = link[l].to

(* A link is mailed to the address on file; if that has changed since, the *)
(* new one is verified.                                                    *)
MailedToFile ==
  \A l \in Links : Asked(l) /\ link[l].channel = "email" /\ link[l].kind # "move" =>
    member[link[l].member].email = link[l].to \/ member[link[l].member].verified

AccessInv ==
  /\ Types /\ OwnAddresses /\ OneToken /\ LinksOK /\ SendsOK /\ PostsOK /\ OutdoneAreDead
  /\ ClaimsDiffer /\ LiveMovesClaim /\ MailedToFile /\ VerifiedByMail

------------------------------------------------------------------------------
LEMMA AccessInit == Init => AccessInv
<1> SUFFICES ASSUME Init PROVE AccessInv
  OBVIOUS
<1>1. Types
  <2>1. NoLink \in Link
    BY DEF NoLink, Link, Address, Kinds, Channels
  <2>2. NoSend \in Send
    BY DEF NoSend, Send, Address
  <2> QED
    BY <2>1, <2>2 DEF Init, Types, Row
<1>2. \A l \in Links : link[l].pc = "idle" /\ link[l].token = "none"
  BY DEF Init, NoLink
<1>3. \A s \in Sends : send[s].pc = "idle"
  BY DEF Init, NoSend
<1>4. OwnAddresses
  BY DEF Init, OwnAddresses
<1>5. OneToken /\ LinksOK /\ OutdoneAreDead /\ LiveMovesClaim /\ MailedToFile
  BY <1>2 DEF Init, OneToken, LinksOK, LinkOK, OutdoneAreDead, LiveMovesClaim, MailedToFile,
              Live, Asked
<1>6. SendsOK /\ PostsOK /\ ClaimsDiffer
  BY <1>3 DEF Init, SendsOK, PostsOK, ClaimsDiffer
<1>7. VerifiedByMail
  BY DEF Init, VerifiedByMail
<1> QED
  BY <1>1, <1>4, <1>5, <1>6, <1>7 DEF AccessInv

------------------------------------------------------------------------------
(* What a step leaves as it was.                                           *)
Same(k) ==
  /\ link'[k].member = link[k].member /\ link'[k].kind = link[k].kind
  /\ link'[k].channel = link[k].channel /\ link'[k].to = link[k].to
LinksStay == \A k \in Links : Asked(k) => Asked(k)' /\ Same(k)
NoNewToken == \A k \in Links : Live(k)' => Live(k) /\ Same(k)
DeadStay ==
  \A k \in Links : link[k].token \in {"consumed", "used"} => link'[k].token \in {"consumed", "used"}
SendsStay ==
  \A s \in Sends : send[s].pc # "idle" =>
    /\ send'[s].pc # "idle" /\ send'[s].member = send[s].member
    /\ send'[s].email = send[s].email
NewlyDead ==
  \A k \in outdone' : k \in outdone \/ (k \in Links /\ link'[k].token \in {"consumed", "used"})
MembersStay ==
  \A m \in Members : member'[m].email = member[m].email /\ member'[m].verified = member[m].verified

LEMMA PostsKept ==
  ASSUME AccessInv, LinksStay, SendsStay, posts' = posts, form' = form
  PROVE  PostsOK'
<1>1. PostsOK /\ posts \subseteq [to : Address, what : Sends \cup Links]
  BY DEF AccessInv, Types
<1>2. \A p \in posts : p.what \in Sends => send'[p.what].pc # "idle" /\ p.to = send'[p.what].email
  BY <1>1 DEF PostsOK, SendsStay
<1>3. \A p \in posts : p.what \in Links => Asked(p.what)' /\ p.to = link'[p.what].to
  BY <1>1 DEF PostsOK, LinksStay, Same
<1>4. \A f \in Forms : form[f] # None => \E p \in posts : p.what = form[f]
  BY <1>1 DEF PostsOK, Received
<1> QED
  BY <1>2, <1>3, <1>4 DEF PostsOK, Received

LEMMA AboutStays ==
  ASSUME AccessInv, LinksStay, SendsStay, NEW p \in posts
  PROVE  About(p.what)' = About(p.what)
<1>1. p.what \in Sends \cup Links /\ PostsOK
  BY DEF AccessInv, Types
<1>2. CASE p.what \in Sends
  BY <1>1, <1>2 DEF About, PostsOK, SendsStay
<1>3. CASE p.what \notin Sends
  BY <1>1, <1>3 DEF About, PostsOK, LinksStay, Same
<1> QED
  BY <1>2, <1>3

(* A member whose address has not changed since is still verified by mail. *)
LEMMA StillVerified ==
  ASSUME AccessInv, LinksStay, SendsStay, posts \subseteq posts', NEW m \in Members,
         member'[m].email = member[m].email, member[m].verified
  PROVE  \E p \in posts' : p.to = member'[m].email /\ p.to # None /\ About(p.what)' = m
<1>1. PICK p \in posts : p.to = member[m].email /\ p.to # None /\ About(p.what) = m
  BY DEF AccessInv, VerifiedByMail
<1> QED
  BY <1>1, AboutStays

LEMMA VerifiedKept ==
  ASSUME AccessInv, LinksStay, SendsStay, posts \subseteq posts', MembersStay
  PROVE  VerifiedByMail'
<1> SUFFICES ASSUME NEW m \in Members, member'[m].verified
             PROVE  \E p \in posts' : p.to = member'[m].email /\ p.to # None /\ About(p.what)' = m
  BY DEF VerifiedByMail
<1> QED
  BY StillVerified DEF MembersStay

LEMMA OthersKept ==
  ASSUME AccessInv
  PROVE  /\ MembersStay => OwnAddresses'
         /\ NoNewToken => OneToken'
         /\ DeadStay /\ outdone' = outdone => OutdoneAreDead'
         /\ move' = move => ClaimsDiffer'
         /\ NoNewToken /\ move' = move => LiveMovesClaim'
         /\ send' = send /\ code' = code => SendsOK'
<1>1. ASSUME MembersStay PROVE OwnAddresses'
  BY <1>1 DEF AccessInv, OwnAddresses, MembersStay
<1>2. ASSUME NoNewToken PROVE OneToken'
  BY <1>2 DEF AccessInv, OneToken, NoNewToken, Same
<1>3. ASSUME DeadStay, outdone' = outdone PROVE OutdoneAreDead'
  BY <1>3 DEF AccessInv, Types, OutdoneAreDead, DeadStay
<1>4. ASSUME move' = move PROVE ClaimsDiffer'
  BY <1>4 DEF AccessInv, ClaimsDiffer
<1>5. ASSUME NoNewToken, move' = move PROVE LiveMovesClaim'
  BY <1>5 DEF AccessInv, LiveMovesClaim, NoNewToken, Same
<1>6. ASSUME send' = send, code' = code PROVE SendsOK'
  BY <1>6 DEF AccessInv, SendsOK
<1> QED
  BY <1>1, <1>2, <1>3, <1>4, <1>5, <1>6

LEMMA FileKept ==
  ASSUME AccessInv, LinksStay, MembersStay,
         \A l \in Links : Asked(l) \/ (Asked(l)' /\ link'[l].channel = "email" /\ link'[l].kind # "move"
                                      => member[link'[l].member].email = link'[l].to),
         \A l \in Links : Asked(l)' => link'[l].member \in Members
  PROVE  MailedToFile'
<1> SUFFICES ASSUME NEW l \in Links, Asked(l)', link'[l].channel = "email", link'[l].kind # "move"
             PROVE  member'[link'[l].member].email = link'[l].to \/ member'[link'[l].member].verified
  BY DEF MailedToFile
<1>1. CASE Asked(l)
  BY <1>1 DEF AccessInv, LinksOK, LinkOK, MailedToFile, LinksStay, Same, MembersStay
<1>2. CASE ~Asked(l)
  BY <1>2 DEF MembersStay
<1> QED
  BY <1>1, <1>2

LEMMA OutdoneKept ==
  ASSUME AccessInv, DeadStay, NewlyDead
  PROVE  outdone' \subseteq Links /\ OutdoneAreDead'
<1>1. outdone \subseteq Links /\ OutdoneAreDead
  BY DEF AccessInv, Types
<1> QED
  BY <1>1 DEF OutdoneAreDead, DeadStay, NewlyDead

(* A step that changes nothing but link requests, and issues no token.     *)
LEMMA QuietStep ==
  ASSUME AccessInv, link' \in [Links -> Link], LinksStay, NoNewToken, DeadStay, LinksOK',
         member' \in [Members -> Row], MembersStay,
         UNCHANGED <<code, move, send, form, posts>>, NewlyDead,
         \A l \in Links : Asked(l) \/ (Asked(l)' /\ link'[l].channel = "email" /\ link'[l].kind # "move"
                                      => member[link'[l].member].email = link'[l].to)
  PROVE  AccessInv'
<1>0. outdone' \subseteq Links /\ OutdoneAreDead'
  BY OutdoneKept
<1>1. Types'
  BY <1>0 DEF AccessInv, Types
<1>2. SendsStay
  BY DEF SendsStay
<1>3. PostsOK' /\ VerifiedByMail'
  BY <1>2, PostsKept, VerifiedKept
<1>4. MailedToFile'
  BY FileKept DEF LinksOK, LinkOK
<1> QED
  BY <1>0, <1>1, <1>3, <1>4, OthersKept DEF AccessInv

------------------------------------------------------------------------------
(* Steps of a request for a code.                                          *)
LEMMA CodeStep ==
  ASSUME AccessInv, UNCHANGED <<member, move, link, form, outdone>>,
         send' \in [Sends -> Send], code' \in [Members -> [Purposes -> Challenge \cup {None}]],
         SendsStay, SendsOK',
         \/ posts' = posts
         \/ \E s \in Sends : send[s].pc # "idle" /\ Post(send[s].email, s)
  PROVE  AccessInv'
<1>0. AccessInv /\ Types /\ PostsOK
  BY DEF AccessInv
<1>1. LinksStay /\ NoNewToken /\ DeadStay /\ MembersStay
  BY DEF LinksStay, NoNewToken, DeadStay, MembersStay, Same, Live, Asked
<1>2. posts' \subseteq [to : Address, what : Sends \cup Links] /\ posts \subseteq posts' /\ PostsOK'
  <2>1. CASE posts' = posts
    BY <1>0, <1>1, <2>1, PostsKept DEF Types
  <2>2. ASSUME NEW s \in Sends, send[s].pc # "idle", Post(send[s].email, s)
        PROVE  /\ posts' \subseteq [to : Address, what : Sends \cup Links]
               /\ posts \subseteq posts' /\ PostsOK'
    <3> DEFINE new == [to |-> send[s].email, what |-> s]
    <3>1. posts' = posts \cup {new}
      BY <2>2 DEF Post
    <3>2. new \in [to : Address, what : Sends \cup Links]
      BY <1>0, <2>2 DEF Types, Send
    <3>3. \A p \in posts' : p.what \in Sends => send'[p.what].pc # "idle" /\ p.to = send'[p.what].email
      BY <1>0, <2>2, <3>1 DEF PostsOK, SendsStay
    <3>4. \A p \in posts' : p.what \in Links => Asked(p.what)' /\ p.to = link'[p.what].to
      BY <1>0, <3>1, RequestsAssumption DEF PostsOK, Asked
    <3>5. \A f \in Forms : form'[f] # None => Received(form[f])'
      BY <1>0, <3>1 DEF PostsOK, Received
    <3>6. PostsOK'
      BY <3>3, <3>4, <3>5 DEF PostsOK, Received
    <3> QED
      BY <1>0, <3>1, <3>2, <3>6 DEF Types
  <2> QED
    BY <2>1, <2>2
<1>3. Types'
  BY <1>0, <1>2 DEF Types
<1>4. LinksOK' /\ MailedToFile'
  BY <1>0 DEF AccessInv, LinksOK, LinkOK, Asked, MailedToFile
<1>5. VerifiedByMail'
  BY <1>1, <1>2, VerifiedKept
<1> QED
  BY <1>1, <1>2, <1>3, <1>4, <1>5, OthersKept DEF AccessInv

SendPCs == {"idle", "reserve", "mail", "mark", "drop", "done"}
LEMMA SendGoesIs ==
  ASSUME Types, NEW s \in Sends, NEW pc \in SendPCs \ {"idle"}, SendGoes(s, pc)
  PROVE  /\ send' \in [Sends -> Send] /\ SendsStay
         /\ \A t \in Sends : /\ send'[t].member = send[t].member
                             /\ send'[t].purpose = send[t].purpose
                             /\ send'[t].email = send[t].email
                             /\ send[t].pc # "idle" \/ t = s => send'[t].pc # "idle"
                             /\ t # s => send'[t] = send[t]
  BY DEF Types, Send, SendGoes, SendsStay, SendPCs

(* The codes still name the requests that wrote them.                      *)
LEMMA CodesNamed ==
  ASSUME AccessInv, SendsStay,
         \A s \in Sends : send'[s].pc # "idle" =>
           /\ send'[s].member \in Members /\ send'[s].purpose \in Purposes
           /\ send'[s].email \in Emails,
         \A m \in Members, p \in Purposes : code'[m][p] # None =>
           \/ code[m][p] # None /\ code'[m][p].by = code[m][p].by /\ code'[m][p].email = code[m][p].email
           \/ /\ send[code'[m][p].by].pc # "idle" /\ code'[m][p].by \in Sends
              /\ send[code'[m][p].by].member = m /\ send[code'[m][p].by].email = code'[m][p].email
  PROVE  SendsOK'
<1>1. ASSUME NEW m \in Members, NEW p \in Purposes, code'[m][p] # None
      PROVE  /\ send'[code'[m][p].by].pc # "idle" /\ send'[code'[m][p].by].member = m
             /\ send'[code'[m][p].by].email = code'[m][p].email
  <2>1. \/ code[m][p] # None /\ code'[m][p].by = code[m][p].by /\ code'[m][p].email = code[m][p].email
        \/ /\ send[code'[m][p].by].pc # "idle" /\ code'[m][p].by \in Sends
           /\ send[code'[m][p].by].member = m /\ send[code'[m][p].by].email = code'[m][p].email
    BY <1>1
  <2>2. code[m][p] # None =>
          /\ code[m][p].by \in Sends /\ send[code[m][p].by].pc # "idle"
          /\ send[code[m][p].by].member = m /\ send[code[m][p].by].email = code[m][p].email
    BY DEF AccessInv, SendsOK, Types, Challenge
  <2> QED
    BY <2>1, <2>2 DEF SendsStay
<1> QED
  BY <1>1 DEF SendsOK

LEMMA CodePut ==
  ASSUME Types, NEW m \in Members, NEW p \in Purposes, NEW x \in Challenge \cup {None},
         code' = [code EXCEPT ![m][p] = x]
  PROVE  /\ code' \in [Members -> [Purposes -> Challenge \cup {None}]]
         /\ \A n \in Members, q \in Purposes :
              code'[n][q] = IF n = m /\ q = p THEN x ELSE code[n][q]
<1>1. code \in [Members -> [Purposes -> Challenge \cup {None}]]
  BY DEF Types
<1>2. code' = [code EXCEPT ![m] = [@ EXCEPT ![p] = x]]
  OBVIOUS
<1>3. \A n \in Members, q \in Purposes :
        code'[n][q] = IF n = m /\ q = p THEN x ELSE code[n][q]
  BY <1>1, <1>2
<1>4. code' \in [Members -> [Purposes -> Challenge \cup {None}]]
  BY <1>1, <1>2
<1> QED
  BY <1>3, <1>4

(* A code keeps its author and address when its status changes.            *)
Restamped(x, status) == [x EXCEPT !.status = status]
LEMMA RestampedIs ==
  ASSUME NEW x \in Challenge, NEW status \in {"pending", "sent", "closed"}
  PROVE  /\ Restamped(x, status) \in Challenge
         /\ Restamped(x, status).by = x.by /\ Restamped(x, status).email = x.email
  BY DEF Challenge, Restamped

LEMMA RestampIs ==
  ASSUME AccessInv, NEW m \in Members, NEW p \in Purposes, code[m][p] # None,
         NEW status \in {"pending", "sent", "closed"},
         code' = [code EXCEPT ![m][p].status = status]
  PROVE  /\ code' \in [Members -> [Purposes -> Challenge \cup {None}]]
         /\ \A n \in Members, q \in Purposes : code'[n][q] # None =>
              /\ code[n][q] # None /\ code'[n][q].by = code[n][q].by
              /\ code'[n][q].email = code[n][q].email
<1>1. code \in [Members -> [Purposes -> Challenge \cup {None}]] /\ code[m][p] \in Challenge
  BY DEF AccessInv, Types
<1>2. code' = [code EXCEPT ![m] = [@ EXCEPT ![p] = Restamped(code[m][p], status)]]
  BY <1>1 DEF Restamped
<1> DEFINE x == Restamped(code[m][p], status)
<1>3. x \in Challenge /\ x.by = code[m][p].by /\ x.email = code[m][p].email
  BY <1>1, RestampedIs
<1> HIDE DEF x
<1>4. code' = [code EXCEPT ![m] = [@ EXCEPT ![p] = x]]
  BY <1>2 DEF x
<1>5. \A n \in Members, q \in Purposes :
        code'[n][q] = IF n = m /\ q = p THEN x ELSE code[n][q]
  BY <1>1, <1>4
<1>6. code' \in [Members -> [Purposes -> Challenge \cup {None}]]
  BY <1>1, <1>3, <1>4
<1> QED
  BY <1>3, <1>5, <1>6

LEMMA StartSendStep ==
  ASSUME AccessInv, NEW s \in Sends, NEW m \in Members, NEW p \in Purposes, NEW e \in Emails,
         StartSend(s, m, p, e)
  PROVE  AccessInv'
<1> DEFINE new == [pc |-> "reserve", member |-> m, purpose |-> p, email |-> e]
<1>1. /\ send' = [send EXCEPT ![s] = new] /\ send[s].pc = "idle"
      /\ UNCHANGED <<member, code, move, link, form, posts, outdone>>
  BY DEF StartSend, SendAt
<1>2. send' \in [Sends -> Send] /\ SendsStay
  BY <1>1 DEF AccessInv, Types, Send, Address, SendsStay
<1>3. \A t \in Sends : send'[t] = IF t = s THEN new ELSE send[t]
  BY <1>1 DEF AccessInv, Types
<1>4. SendsOK'
  BY <1>1, <1>2, <1>3, CodesNamed DEF AccessInv, SendsOK
<1> QED
  BY <1>1, <1>2, <1>4, CodeStep DEF AccessInv, Types

LEMMA ReserveStep ==
  ASSUME AccessInv, NEW s \in Sends, Reserve(s)
  PROVE  AccessInv'
<1> DEFINE m == send[s].member
           p == send[s].purpose
           x == [email |-> send[s].email, by |-> s, status |-> "pending"]
<1>1. /\ send[s].pc = "reserve" /\ UNCHANGED <<member, move, link, form, posts, outdone>>
      /\ SendGoes(s, "mail") \/ SendGoes(s, "done")
      /\ code' = code \/ code' = [code EXCEPT ![m][p] = x]
  BY DEF Reserve, SendAt
<1>2. Types /\ m \in Members /\ p \in Purposes /\ x \in Challenge
  BY <1>1 DEF AccessInv, SendsOK, Challenge
<1>3. /\ send' \in [Sends -> Send] /\ SendsStay
      /\ \A t \in Sends : /\ send'[t].member = send[t].member
                          /\ send'[t].purpose = send[t].purpose
                          /\ send'[t].email = send[t].email
                          /\ t # s => send'[t] = send[t]
  BY <1>1, <1>2, SendGoesIs DEF SendPCs
<1>4. /\ code' \in [Members -> [Purposes -> Challenge \cup {None}]]
      /\ \A n \in Members, q \in Purposes : code'[n][q] \in {code[n][q], x}
      /\ \A n \in Members, q \in Purposes : n # m => code'[n][q] = code[n][q]
  <2>1. CASE code' = code
    BY <1>2, <2>1 DEF Types
  <2>2. CASE code' = [code EXCEPT ![m][p] = x]
    <3> HIDE DEF x
    <3>1. /\ code' \in [Members -> [Purposes -> Challenge \cup {None}]]
          /\ \A n \in Members, q \in Purposes :
               code'[n][q] = IF n = m /\ q = p THEN x ELSE code[n][q]
      BY <1>2, <2>2, CodePut
    <3> QED
      BY <3>1
  <2> QED
    BY <1>1, <2>1, <2>2
<1>5. \A t \in Sends : send'[t].pc # "idle" =>
        /\ send'[t].member \in Members /\ send'[t].purpose \in Purposes
        /\ send'[t].email \in Emails
  BY <1>1, <1>3 DEF AccessInv, SendsOK
<1>6. \A n \in Members, q \in Purposes : code'[n][q] # None =>
        \/ code[n][q] # None /\ code'[n][q].by = code[n][q].by /\ code'[n][q].email = code[n][q].email
        \/ /\ send[code'[n][q].by].pc # "idle" /\ code'[n][q].by \in Sends
           /\ send[code'[n][q].by].member = n /\ send[code'[n][q].by].email = code'[n][q].email
  BY <1>1, <1>4
<1>7. SendsOK'
  BY <1>3, <1>5, <1>6, CodesNamed
<1> QED
  BY <1>1, <1>3, <1>4, <1>7, CodeStep

LEMMA MailCodeStep ==
  ASSUME AccessInv, NEW s \in Sends, MailCode(s)
  PROVE  AccessInv'
<1>1. /\ send[s].pc = "mail" /\ UNCHANGED <<member, code, move, link, form, outdone>>
      /\ SendGoes(s, "mark") \/ SendGoes(s, "drop")
      /\ posts' = posts \/ Post(send[s].email, s)
  BY DEF MailCode, SendAt
<1>2. /\ send' \in [Sends -> Send] /\ SendsStay
      /\ \A t \in Sends : /\ send'[t].member = send[t].member
                          /\ send'[t].purpose = send[t].purpose
                          /\ send'[t].email = send[t].email
                          /\ t # s => send'[t] = send[t]
  BY <1>1, SendGoesIs DEF AccessInv, SendPCs
<1>3. \A t \in Sends : send'[t].pc # "idle" =>
        /\ send'[t].member \in Members /\ send'[t].purpose \in Purposes
        /\ send'[t].email \in Emails
  BY <1>1, <1>2 DEF AccessInv, SendsOK
<1>4. SendsOK'
  BY <1>1, <1>2, <1>3, CodesNamed
<1> QED
  BY <1>1, <1>2, <1>4, CodeStep DEF AccessInv, Types

LEMMA MarkSentStep ==
  ASSUME AccessInv, NEW s \in Sends, MarkSent(s)
  PROVE  AccessInv'
<1> DEFINE m == send[s].member
           p == send[s].purpose
<1>1. /\ send[s].pc = "mark" /\ UNCHANGED <<member, move, link, form, posts, outdone>>
      /\ SendGoes(s, "done") \/ SendGoes(s, "drop")
      /\ \/ code' = code
         \/ code[m][p] # None /\ code' = [code EXCEPT ![m][p].status = "sent"]
  BY DEF MarkSent, SendAt, Mine, Code
<1>2. m \in Members /\ p \in Purposes
  BY <1>1 DEF AccessInv, SendsOK
<1>3. /\ send' \in [Sends -> Send] /\ SendsStay
      /\ \A t \in Sends : /\ send'[t].member = send[t].member
                          /\ send'[t].purpose = send[t].purpose
                          /\ send'[t].email = send[t].email
                          /\ t # s => send'[t] = send[t]
  BY <1>1, SendGoesIs DEF AccessInv, SendPCs
<1>4. /\ code' \in [Members -> [Purposes -> Challenge \cup {None}]]
      /\ \A n \in Members, q \in Purposes : code'[n][q] # None =>
           /\ code[n][q] # None /\ code'[n][q].by = code[n][q].by
           /\ code'[n][q].email = code[n][q].email
  BY <1>1, <1>2, RestampIs DEF AccessInv, Types
<1>5. \A t \in Sends : send'[t].pc # "idle" =>
        /\ send'[t].member \in Members /\ send'[t].purpose \in Purposes
        /\ send'[t].email \in Emails
  BY <1>1, <1>3 DEF AccessInv, SendsOK
<1>6. SendsOK'
  BY <1>3, <1>4, <1>5, CodesNamed
<1> QED
  BY <1>1, <1>3, <1>4, <1>6, CodeStep

LEMMA DropPendingStep ==
  ASSUME AccessInv, NEW s \in Sends, DropPending(s)
  PROVE  AccessInv'
<1> DEFINE m == send[s].member
           p == send[s].purpose
<1>1. /\ send[s].pc = "drop" /\ UNCHANGED <<member, move, link, form, posts, outdone>>
      /\ SendGoes(s, "done")
      /\ code' = code \/ code' = [code EXCEPT ![m][p] = None]
  BY DEF DropPending, SendAt
<1>2. /\ send' \in [Sends -> Send] /\ SendsStay
      /\ \A t \in Sends : /\ send'[t].member = send[t].member
                          /\ send'[t].purpose = send[t].purpose
                          /\ send'[t].email = send[t].email
                          /\ t # s => send'[t] = send[t]
  BY <1>1, SendGoesIs DEF AccessInv, SendPCs
<1>3. /\ code' \in [Members -> [Purposes -> Challenge \cup {None}]]
      /\ \A n \in Members, q \in Purposes : code'[n][q] \in {code[n][q], None}
  <2>1. Types /\ m \in Members /\ p \in Purposes
    BY <1>1 DEF AccessInv, SendsOK
  <2>2. CASE code' = code
    BY <2>1, <2>2 DEF Types
  <2>3. CASE code' = [code EXCEPT ![m][p] = None]
    <3> DEFINE x == None
    <3>1. x \in Challenge \cup {None}
      OBVIOUS
    <3>2. code' = [code EXCEPT ![m][p] = x]
      BY <2>3
    <3> HIDE DEF m, p, x
    <3>3. /\ code' \in [Members -> [Purposes -> Challenge \cup {None}]]
          /\ \A n \in Members, q \in Purposes :
               code'[n][q] = IF n = m /\ q = p THEN x ELSE code[n][q]
      BY <2>1, <3>1, <3>2, CodePut
    <3> USE DEF x
    <3> QED
      BY <3>3
  <2> QED
    BY <1>1, <2>2, <2>3
<1>4. \A t \in Sends : send'[t].pc # "idle" =>
        /\ send'[t].member \in Members /\ send'[t].purpose \in Purposes
        /\ send'[t].email \in Emails
  BY <1>1, <1>2 DEF AccessInv, SendsOK
<1>5. SendsOK'
  BY <1>2, <1>3, <1>4, CodesNamed
<1> QED
  BY <1>1, <1>2, <1>3, <1>5, CodeStep

LEMMA LapseStep ==
  ASSUME AccessInv, NEW m \in Members, NEW p \in Purposes, LapseCode(m, p)
  PROVE  AccessInv'
<1>1. /\ code[m][p] # None /\ code' = [code EXCEPT ![m][p].status = "closed"]
      /\ UNCHANGED <<member, move, link, send, form, posts, outdone>>
  BY DEF LapseCode
<1>2. SendsStay /\ send' \in [Sends -> Send]
  BY <1>1 DEF SendsStay, AccessInv, Types
<1>3. /\ code' \in [Members -> [Purposes -> Challenge \cup {None}]]
      /\ \A n \in Members, q \in Purposes : code'[n][q] # None =>
           /\ code[n][q] # None /\ code'[n][q].by = code[n][q].by
           /\ code'[n][q].email = code[n][q].email
  BY <1>1, RestampIs
<1>4. \A t \in Sends : send'[t].pc # "idle" =>
        /\ send'[t].member \in Members /\ send'[t].purpose \in Purposes
        /\ send'[t].email \in Emails
  BY <1>1 DEF AccessInv, SendsOK
<1>5. SendsOK'
  BY <1>2, <1>3, <1>4, CodesNamed
<1> QED
  BY <1>1, <1>2, <1>3, <1>5, CodeStep

------------------------------------------------------------------------------
(* Steps of a request for a link that issue no token.                      *)
LinkPCs == {"idle", "check", "admin", "invite", "wipe", "insert", "deliver", "done"}

LEMMA LinkGoesIs ==
  ASSUME Types, NEW l \in Links, NEW pc \in LinkPCs \ {"idle"}, LinkGoes(l, pc)
  PROVE  /\ link' \in [Links -> Link] /\ link'[l].pc = pc
         /\ \A k \in Links : Same(k) /\ link'[k].token = link[k].token
         /\ \A k \in Links \ {l} : link'[k] = link[k]
<1>1. link' = [link EXCEPT ![l].pc = pc] /\ link \in [Links -> Link]
  BY DEF Types, LinkGoes
<1>2. link' \in [Links -> Link] /\ link'[l].pc = pc
  BY <1>1 DEF Link, LinkPCs
<1>3. \A k \in Links \ {l} : link'[k] = link[k]
  BY <1>1
<1>4. Same(l) /\ link'[l].token = link[l].token
  BY <1>1 DEF Link, Same
<1> QED
  BY <1>2, <1>3, <1>4 DEF Same

(* A request that goes on to where it has no more to decide.               *)
LEMMA GoesStep ==
  ASSUME AccessInv, NEW l \in Links, Asked(l), link[l].pc # "deliver",
         LinkGoes(l, "done") \/ (LinkGoes(l, "insert") /\ link[l].pc = "wipe"),
         UNCHANGED <<member, code, move, send, form, posts, outdone>>
  PROVE  AccessInv'
<1>1. PICK pc \in {"done", "insert"} : LinkGoes(l, pc) /\ (pc = "insert" => link[l].pc = "wipe")
  OBVIOUS
<1>2. /\ link' \in [Links -> Link] /\ link'[l].pc = pc
      /\ \A k \in Links : Same(k) /\ link'[k].token = link[k].token
      /\ \A k \in Links \ {l} : link'[k] = link[k]
  BY <1>1, LinkGoesIs DEF AccessInv, LinkPCs
<1>3. LinksStay /\ NoNewToken /\ DeadStay
  BY <1>1, <1>2 DEF LinksStay, NoNewToken, DeadStay, Live, Asked, LinkPCs
<1>4. ASSUME NEW k \in Links PROVE LinkOK(k)'
  <2>1. LinkOK(k)
    BY DEF AccessInv, LinksOK
  <2>2. CASE k = l
    BY <1>1, <1>2, <2>1, <2>2 DEF LinkOK, Asked, Same
  <2>3. CASE k # l
    BY <1>2, <2>1, <2>3 DEF LinkOK, Asked
  <2> QED
    BY <2>2, <2>3
<1>5. member' \in [Members -> Row] /\ MembersStay
  BY DEF AccessInv, Types, MembersStay
<1>6. \A k \in Links : Asked(k) \/ ~Asked(k)'
  BY <1>2 DEF Asked
<1> QED
  BY <1>2, <1>3, <1>4, <1>5, <1>6, QuietStep DEF LinksOK, NewlyDead

LEMMA AskStep ==
  ASSUME AccessInv, NEW l \in Links, NEW pc \in {"check", "admin", "invite", "wipe"},
         NEW m \in Members, NEW kind \in Kinds, NEW channel \in Channels, NEW to \in Address,
         Ask(l, pc, m, kind, channel, to),
         pc = "check" => kind = "move",
         pc = "admin" => kind \in {"adminReset", "setup"},
         pc = "invite" => kind = "setup",
         pc = "wipe" => kind = "reset",
         kind = "move" => channel = "email",
         channel = "email" => to \in Emails,
         channel = "email" /\ kind # "move" => member[m].email = to,
         UNCHANGED <<member, code, move, send, form, posts, outdone>>
  PROVE  AccessInv'
<1> DEFINE new == [pc |-> pc, member |-> m, kind |-> kind, to |-> to, channel |-> channel,
                   token |-> "none"]
<1>1. link' = [link EXCEPT ![l] = new] /\ link[l].pc = "idle" /\ link \in [Links -> Link]
  BY DEF Ask, LinkAt, AccessInv, Types
<1>2. new \in Link
  BY DEF Link
<1>3. link' \in [Links -> Link] /\ \A k \in Links : link'[k] = IF k = l THEN new ELSE link[k]
  <2> HIDE DEF new
  <2> QED
    BY <1>1, <1>2
<1>4. LinksStay /\ NoNewToken /\ DeadStay
  <2>1. link[l].token = "none"
    BY <1>1 DEF AccessInv, LinksOK, LinkOK
  <2> QED
    BY <1>1, <1>3, <2>1 DEF LinksStay, NoNewToken, DeadStay, Live, Asked, Same
<1>5. ASSUME NEW k \in Links PROVE LinkOK(k)'
  <2>1. LinkOK(k)
    BY DEF AccessInv, LinksOK
  <2>2. CASE k = l
    BY <1>3, <2>2 DEF LinkOK, Asked
  <2>3. CASE k # l
    BY <1>3, <2>1, <2>3 DEF LinkOK, Asked
  <2> QED
    BY <2>2, <2>3
<1>6. member' \in [Members -> Row] /\ MembersStay
  BY DEF AccessInv, Types, MembersStay
<1>7. \A k \in Links : Asked(k) \/ (Asked(k)' /\ link'[k].channel = "email" /\ link'[k].kind # "move"
                                  => member[link'[k].member].email = link'[k].to)
  BY <1>3 DEF Asked
<1> QED
  BY <1>3, <1>4, <1>5, <1>6, <1>7, QuietStep DEF LinksOK, NewlyDead

LEMMA AsksStep ==
  ASSUME AccessInv, NEW l \in Links, NEW m \in Members,
         \/ \E e \in Emails : BeginCheck(l, m, e)
         \/ \E c \in Channels : AskAdmin(l, m, c) \/ AskInvite(l, m, c)
         \/ AskReset(l, m)
  PROVE  AccessInv'
<1>0. member[m].email \in Address
  BY DEF AccessInv, Types, Row
<1>1. ASSUME NEW e \in Emails, BeginCheck(l, m, e) PROVE AccessInv'
  BY <1>1, AskStep DEF BeginCheck, Kinds, Channels, Address
<1>2. ASSUME NEW c \in Channels, AskAdmin(l, m, c) PROVE AccessInv'
  <2> DEFINE kind == IF member[m].must THEN "setup" ELSE "adminReset"
             to == IF c = "email" THEN member[m].email ELSE None
  <2>1. kind \in {"adminReset", "setup"} /\ kind \in Kinds /\ to \in Address
    BY <1>0 DEF Kinds, Address
  <2>2. /\ Ask(l, "admin", m, kind, c, to)
        /\ UNCHANGED <<member, code, move, send, form, posts, outdone>>
    BY <1>2 DEF AskAdmin
  <2>3. c = "email" => to \in Emails /\ member[m].email = to
    BY <1>0, <1>2 DEF AskAdmin, Address
  <2> HIDE DEF kind, to
  <2> QED
    BY <2>1, <2>2, <2>3, AskStep
<1>3. ASSUME NEW c \in Channels, AskInvite(l, m, c) PROVE AccessInv'
  <2> DEFINE to == IF c = "email" THEN member[m].email ELSE None
  <2>1. "setup" \in Kinds /\ to \in Address
    BY <1>0 DEF Kinds, Address
  <2>2. /\ Ask(l, "invite", m, "setup", c, to)
        /\ UNCHANGED <<member, code, move, send, form, posts, outdone>>
    BY <1>3 DEF AskInvite
  <2>3. c = "email" => to \in Emails /\ member[m].email = to
    BY <1>0, <1>3 DEF AskInvite, Address
  <2> HIDE DEF to
  <2> QED
    BY <2>1, <2>2, <2>3, AskStep
<1>4. ASSUME AskReset(l, m) PROVE AccessInv'
  <2>1. /\ Ask(l, "wipe", m, "reset", "email", member[m].email)
        /\ UNCHANGED <<member, code, move, send, form, posts, outdone>>
        /\ member[m].email \in Emails
    BY <1>0, <1>4 DEF AskReset, Address
  <2>2. "reset" \in Kinds /\ "email" \in Channels
    BY DEF Kinds, Channels
  <2> QED
    BY <1>0, <2>1, <2>2, AskStep
<1> QED
  BY <1>1, <1>2, <1>3, <1>4

(* Rows of the link table as the steps rewrite them.                       *)
Consumed(x) == [x EXCEPT !.token = "consumed"]
Past(x, pc) == [x EXCEPT !.pc = pc]
Fresh(x) == [x EXCEPT !.pc = "deliver", !.token = "active"]
LEMMA RewrittenIs ==
  ASSUME NEW x \in Link
  PROVE  /\ Consumed(x) \in Link /\ Consumed(x).pc = x.pc /\ Consumed(x).token = "consumed"
         /\ Consumed(x).member = x.member /\ Consumed(x).kind = x.kind
         /\ Consumed(x).channel = x.channel /\ Consumed(x).to = x.to
         /\ Past(x, "insert") \in Link /\ Past(x, "insert").pc = "insert"
         /\ Past(x, "insert").token = x.token
         /\ Past(x, "insert").member = x.member /\ Past(x, "insert").kind = x.kind
         /\ Past(x, "insert").channel = x.channel /\ Past(x, "insert").to = x.to
         /\ Fresh(x) \in Link /\ Fresh(x).pc = "deliver" /\ Fresh(x).token = "active"
         /\ Fresh(x).member = x.member /\ Fresh(x).kind = x.kind
         /\ Fresh(x).channel = x.channel /\ Fresh(x).to = x.to
<1>1. /\ Consumed(x) \in Link /\ Consumed(x).pc = x.pc /\ Consumed(x).token = "consumed"
      /\ Consumed(x).member = x.member /\ Consumed(x).kind = x.kind
      /\ Consumed(x).channel = x.channel /\ Consumed(x).to = x.to
  BY DEF Link, Consumed
<1>2. /\ Past(x, "insert") \in Link /\ Past(x, "insert").pc = "insert"
      /\ Past(x, "insert").token = x.token
      /\ Past(x, "insert").member = x.member /\ Past(x, "insert").kind = x.kind
      /\ Past(x, "insert").channel = x.channel /\ Past(x, "insert").to = x.to
  BY DEF Link, Past
<1>3. Fresh(x) \in Link
  BY DEF Link, Fresh
<1>4. /\ Fresh(x).pc = "deliver" /\ Fresh(x).token = "active"
      /\ Fresh(x).member = x.member /\ Fresh(x).kind = x.kind
      /\ Fresh(x).channel = x.channel /\ Fresh(x).to = x.to
  BY DEF Link, Fresh
<1> QED
  BY <1>1, <1>2, <1>3, <1>4

(* Some live tokens are consumed.                                          *)
LEMMA FallStep ==
  ASSUME AccessInv, link' \in [Links -> Link],
         \A k \in Links :
           /\ Same(k)
           /\ link'[k].pc = link[k].pc \/ (link[k].pc = "wipe" /\ link'[k].pc = "insert")
           /\ link'[k].token = link[k].token \/ (Live(k) /\ link'[k].token = "consumed"),
         member' \in [Members -> Row], MembersStay,
         UNCHANGED <<code, move, send, form, posts>>, NewlyDead
  PROVE  AccessInv'
<1>1. LinksStay /\ NoNewToken /\ DeadStay
  BY DEF LinksStay, NoNewToken, DeadStay, Live, Asked
<1>2. ASSUME NEW k \in Links PROVE LinkOK(k)'
  <2>1. LinkOK(k)
    BY DEF AccessInv, LinksOK
  <2>2. Same(k) /\ (link'[k].pc = link[k].pc \/ (link[k].pc = "wipe" /\ link'[k].pc = "insert"))
        /\ (link'[k].token = link[k].token \/ (Live(k) /\ link'[k].token = "consumed"))
    OBVIOUS
  <2> QED
    BY <2>1, <2>2 DEF LinkOK, Asked, Same, Live
<1>3. \A k \in Links : Asked(k) \/ ~Asked(k)'
  BY DEF Asked
<1> QED
  BY <1>1, <1>2, <1>3, QuietStep DEF LinksOK

LEMMA WipeStep ==
  ASSUME AccessInv, NEW l \in Links, WipeResets(l)
  PROVE  AccessInv'
<1> DEFINE old == Tokens(link[l].member, {"reset"})
<1>1. \A k \in Links : link'[k] = IF k = l THEN Past(link[l], "insert")
                                 ELSE IF k \in old THEN Consumed(link[k]) ELSE link[k]
  BY DEF WipeResets, Past, Consumed
<1>2. /\ link[l].pc = "wipe" /\ DOMAIN link' = Links
      /\ link' = [k \in Links |-> link'[k]]
      /\ UNCHANGED <<member, code, move, send, form, posts>>
      /\ Outdo(link[l].member, {"reset"})
  BY DEF WipeResets, LinkAt
<1>3. \A k \in old : Live(k)
  BY DEF Tokens
<1>4. ASSUME NEW k \in Links
      PROVE  /\ link'[k] \in Link /\ Same(k)
             /\ link'[k].pc = link[k].pc \/ (link[k].pc = "wipe" /\ link'[k].pc = "insert")
             /\ link'[k].token = link[k].token \/ (Live(k) /\ link'[k].token = "consumed")
  <2>1. link[k] \in Link
    BY DEF AccessInv, Types
  <2>2. \/ link'[k] = Past(link[k], "insert") /\ link[k].pc = "wipe"
        \/ link'[k] = Consumed(link[k]) /\ Live(k)
        \/ link'[k] = link[k]
    BY <1>1, <1>2, <1>3
  <2> QED
    BY <2>1, <2>2, RewrittenIs DEF Same
<1>5. link' \in [Links -> Link]
  BY <1>2, <1>4
<1>6. member' \in [Members -> Row] /\ MembersStay
  BY <1>2 DEF AccessInv, Types, MembersStay
<1>7. NewlyDead
  <2>1. \A k \in Links : link[k].token \in {"none", "active", "consumed", "used"}
    BY DEF AccessInv, Types, Link
  <2>2. ASSUME NEW k \in Links, link[k].member = link[l].member, link[k].kind = "reset",
               link[k].token # "none"
        PROVE  link'[k].token \in {"consumed", "used"}
    <3>1. link[l].token = "none"
      BY <1>2 DEF AccessInv, LinksOK, LinkOK
    <3>2. k # l
      BY <2>2, <3>1
    <3>3. CASE Live(k)
      <4>1. link'[k] = Consumed(link[k])
        BY <1>1, <2>2, <3>2, <3>3 DEF Tokens
      <4> QED
        BY <4>1, RewrittenIs DEF AccessInv, Types
    <3>4. CASE ~Live(k)
      <4>1. link'[k] = link[k]
        BY <1>1, <1>3, <3>2, <3>4
      <4> QED
        BY <2>1, <2>2, <3>4, <4>1 DEF Live
    <3> QED
      BY <3>3, <3>4
  <2> QED
    BY <1>2, <2>2 DEF Outdo, NewlyDead
<1> QED
  BY <1>2, <1>4, <1>5, <1>6, <1>7, FallStep

LEMMA DisableStep ==
  ASSUME AccessInv, NEW M \in SUBSET Members, Disable(M)
  PROVE  AccessInv'
<1>1. /\ \A k \in Links : \/ link'[k] = Consumed(link[k]) /\ Live(k)
                          \/ link'[k] = link[k]
      /\ link' = [k \in Links |-> link'[k]]
      /\ UNCHANGED <<code, move, send, form, posts>>
  BY DEF Disable, Consumed
<1>2. ASSUME NEW k \in Links
      PROVE  /\ link'[k] \in Link /\ Same(k) /\ link'[k].pc = link[k].pc
             /\ link'[k].token = link[k].token \/ (Live(k) /\ link'[k].token = "consumed")
  <2>1. link[k] \in Link
    BY DEF AccessInv, Types
  <2> QED
    BY <1>1, <2>1, RewrittenIs DEF Same
<1>3. link' \in [Links -> Link]
  BY <1>1, <1>2
<1>4. member' \in [Members -> Row] /\ MembersStay
  <2>1. member' = [m \in Members |-> IF m \in M THEN [member[m] EXCEPT !.disabled = TRUE]
                                      ELSE member[m]]
    BY DEF Disable
  <2>2. ASSUME NEW m \in Members
        PROVE  /\ member'[m] \in Row /\ member'[m].email = member[m].email
               /\ member'[m].verified = member[m].verified
    <3>1. member[m] \in Row
      BY DEF AccessInv, Types
    <3> QED
      BY <2>1, <3>1 DEF Row
  <2> QED
    BY <2>1, <2>2 DEF MembersStay
<1>5. NewlyDead
  <2>1. \A k \in outdone' :
          \/ k \in outdone
          \/ /\ k \in Links /\ link[k].member \in M /\ link[k].token # "none"
             /\ link[k].channel = "mattermost"
    BY DEF Disable
  <2>2. ASSUME NEW k \in Links, link[k].member \in M, link[k].token # "none",
               link[k].channel = "mattermost"
        PROVE  link'[k].token \in {"consumed", "used"}
    <3>1. link[k] \in Link
      BY DEF AccessInv, Types
    <3>2. CASE Live(k)
      <4>1. link'[k] = Consumed(link[k])
        BY <2>2, <3>2 DEF Disable, Consumed
      <4> QED
        BY <3>1, <4>1, RewrittenIs
    <3>3. CASE ~Live(k)
      <4>1. link'[k] = link[k]
        BY <1>1, <3>3
      <4> QED
        BY <2>2, <3>1, <3>3, <4>1 DEF Live, Link
    <3> QED
      BY <3>2, <3>3
  <2> QED
    BY <2>1, <2>2 DEF NewlyDead
<1> QED
  BY <1>1, <1>2, <1>3, <1>4, <1>5, FallStep

------------------------------------------------------------------------------
(* A token is issued, and those it replaces are consumed.                  *)
LEMMA IssuedIs ==
  ASSUME AccessInv, NEW l \in Links, link[l].pc \in {"check", "admin", "invite", "insert"},
         NEW gone, \A k \in gone : Live(k), Issued(l, gone)
  PROVE  /\ link' \in [Links -> Link] /\ \A k \in Links : Same(k)
         /\ link'[l].pc = "deliver" /\ Live(l)' /\ link[l].token = "none"
         /\ \A k \in Links \ {l} :
              /\ link'[k].pc = link[k].pc
              /\ k \in gone => link'[k].token = "consumed"
              /\ k \notin gone => link'[k].token = link[k].token
<1>1. /\ link' = [k \in Links |-> link'[k]]
      /\ \A k \in Links : link'[k] = IF k = l THEN Fresh(link[l])
                                     ELSE IF k \in gone THEN Consumed(link[k]) ELSE link[k]
  BY DEF Issued, Fresh, Consumed
<1>2. \A k \in Links : link[k] \in Link
  BY DEF AccessInv, Types
<1>3. link'[l] \in Link /\ Same(l) /\ link'[l].pc = "deliver" /\ Live(l)'
  BY <1>1, <1>2, RewrittenIs DEF Same, Live
<1>4. ASSUME NEW k \in Links \ {l}
      PROVE  /\ link'[k] \in Link /\ Same(k) /\ link'[k].pc = link[k].pc
             /\ k \in gone => link'[k].token = "consumed"
             /\ k \notin gone => link'[k].token = link[k].token
  BY <1>1, <1>2, RewrittenIs DEF Same
<1>5. link[l].token = "none"
  BY DEF AccessInv, LinksOK, LinkOK
<1> QED
  BY <1>1, <1>3, <1>4, <1>5

LEMMA IssuedLinks ==
  ASSUME AccessInv, NEW l \in Links, link[l].pc \in {"check", "admin", "invite", "insert"},
         NEW gone, \A k \in gone : Live(k), Issued(l, gone),
         \A k \in Links \ {l} : Live(k) /\ link[k].member = link[l].member
                                /\ link[k].kind = link[l].kind => k \in gone
  PROVE  LinksStay /\ DeadStay /\ LinksOK' /\ OneToken'
<1>1. /\ link' \in [Links -> Link] /\ \A k \in Links : Same(k)
      /\ link'[l].pc = "deliver" /\ Live(l)' /\ link[l].token = "none"
      /\ \A k \in Links \ {l} :
           /\ link'[k].pc = link[k].pc
           /\ k \in gone => link'[k].token = "consumed"
           /\ k \notin gone => link'[k].token = link[k].token
  BY IssuedIs
<1>2. LinksStay /\ DeadStay
  BY <1>1 DEF LinksStay, DeadStay, Asked
<1>3. ASSUME NEW k \in Links PROVE LinkOK(k)'
  <2>1. LinkOK(k)
    BY DEF AccessInv, LinksOK
  <2>2. CASE k = l
    BY <1>1, <2>1, <2>2 DEF LinkOK, Asked, Same
  <2>3. CASE k # l
    BY <1>1, <2>1, <2>3 DEF LinkOK, Asked, Same, Live
  <2> QED
    BY <2>2, <2>3
<1>4. \A k \in Links \ {l} : Live(k)' => Live(k) /\ k \notin gone
  BY <1>1 DEF Live
<1>5. OneToken'
  BY <1>1, <1>4 DEF AccessInv, OneToken, Same
<1> QED
  BY <1>2, <1>3, <1>5 DEF LinksOK

(* Voiding every link of these kinds that has a token.                     *)
LEMMA OutdoDead ==
  ASSUME AccessInv, NEW l \in Links, link[l].pc \in {"check", "admin", "invite"}, NEW kinds,
         Issued(l, Tokens(link[l].member, kinds)), Outdo(link[l].member, kinds)
  PROVE  NewlyDead
<1> DEFINE m == link[l].member
           gone == Tokens(m, kinds)
<1>1. /\ link[l].token = "none"
      /\ \A k \in Links \ {l} :
           /\ k \in gone => link'[k].token = "consumed"
           /\ k \notin gone => link'[k].token = link[k].token
  BY IssuedIs DEF Tokens
<1>2. \A k \in Links : link[k].token \in {"none", "active", "consumed", "used"}
  BY DEF AccessInv, Types, Link
<1>3. ASSUME NEW k \in Links, link[k].member = m, link[k].kind \in kinds, link[k].token # "none"
      PROVE  link'[k].token \in {"consumed", "used"}
  <2>1. k # l
    BY <1>1, <1>3
  <2>2. Live(k) => k \in gone
    BY <1>3 DEF Tokens
  <2> QED
    BY <1>1, <1>2, <1>3, <2>1, <2>2 DEF Live
<1> QED
  BY <1>3 DEF Outdo, NewlyDead

LEMMA IssueStep ==
  ASSUME AccessInv, NEW l \in Links, link[l].pc \in {"admin", "invite", "insert"},
         NEW gone, \A k \in gone : Live(k), Issued(l, gone),
         \A k \in Links \ {l} : Live(k) /\ link[k].member = link[l].member
                                /\ link[k].kind = link[l].kind => k \in gone,
         UNCHANGED <<member, code, move, send, form, posts>>,
         NewlyDead
  PROVE  AccessInv'
<1>1. LinksStay /\ DeadStay /\ LinksOK' /\ OneToken'
  BY IssuedLinks
<1>2. /\ link' \in [Links -> Link] /\ \A k \in Links : Same(k)
      /\ \A k \in Links \ {l} : Live(k)' => Live(k)
  BY IssuedIs DEF Live
<1>0. outdone' \subseteq Links /\ OutdoneAreDead'
  BY <1>1, OutdoneKept
<1>3. Types' /\ MembersStay /\ SendsStay
  BY <1>0, <1>2 DEF AccessInv, Types, MembersStay, SendsStay
<1>4. link[l].kind # "move"
  BY DEF AccessInv, LinksOK, LinkOK
<1>5. LiveMovesClaim'
  BY <1>2, <1>4 DEF AccessInv, LiveMovesClaim, Same
<1>6. MailedToFile'
  <2>1. \A k \in Links : Asked(k) \/ ~Asked(k)'
    BY IssuedIs DEF Asked
  <2> QED
    BY <1>1, <1>3, <2>1, FileKept DEF LinksOK, LinkOK
<1>7. PostsOK' /\ VerifiedByMail'
  BY <1>1, <1>3, PostsKept, VerifiedKept
<1> QED
  BY <1>0, <1>1, <1>3, <1>5, <1>6, <1>7, OthersKept DEF AccessInv

LEMMA IssuesStep ==
  ASSUME AccessInv, NEW l \in Links, IssueAdmin(l) \/ IssueInvite(l) \/ InsertReset(l)
  PROVE  AccessInv'
<1> DEFINE m == link[l].member
<1>0. \A k \in Links : link[k].kind \in Kinds
  BY DEF AccessInv, Types, Link
<1>1. CASE IssueAdmin(l)
  <2>1. /\ link[l].pc = "admin" /\ UNCHANGED <<member, code, move, send, form, posts>>
        /\ \/ Issued(l, Tokens(m, Kinds)) /\ Outdo(m, Kinds)
           \/ LinkGoes(l, "done") /\ UNCHANGED outdone
    BY <1>1 DEF IssueAdmin, LinkAt
  <2>2. CASE LinkGoes(l, "done") /\ UNCHANGED outdone
    BY <2>1, <2>2, GoesStep DEF Asked
  <2>3. CASE Issued(l, Tokens(m, Kinds)) /\ Outdo(m, Kinds)
    <3>1. /\ \A k \in Tokens(m, Kinds) : Live(k)
          /\ \A k \in Links \ {l} : Live(k) /\ link[k].member = m /\ link[k].kind = link[l].kind
               => k \in Tokens(m, Kinds)
      BY <1>0 DEF Tokens
    <3>2. NewlyDead
      BY <2>1, <2>3, OutdoDead
    <3> QED
      BY <2>1, <2>3, <3>1, <3>2, IssueStep
  <2> QED
    BY <2>1, <2>2, <2>3
<1>2. CASE IssueInvite(l)
  <2>1. /\ link[l].pc = "invite" /\ UNCHANGED <<member, code, move, send, form, posts>>
        /\ \/ Issued(l, Tokens(m, {"setup"})) /\ Outdo(m, {"setup"})
           \/ LinkGoes(l, "done") /\ UNCHANGED outdone
    BY <1>2 DEF IssueInvite, LinkAt
  <2>2. CASE LinkGoes(l, "done") /\ UNCHANGED outdone
    BY <2>1, <2>2, GoesStep DEF Asked
  <2>3. CASE Issued(l, Tokens(m, {"setup"})) /\ Outdo(m, {"setup"})
    <3>1. link[l].kind = "setup"
      BY <2>1 DEF AccessInv, LinksOK, LinkOK
    <3>2. /\ \A k \in Tokens(m, {"setup"}) : Live(k)
          /\ \A k \in Links \ {l} : Live(k) /\ link[k].member = m /\ link[k].kind = link[l].kind
               => k \in Tokens(m, {"setup"})
      BY <3>1 DEF Tokens
    <3>3. NewlyDead
      BY <2>1, <2>3, OutdoDead
    <3> QED
      BY <2>1, <2>3, <3>2, <3>3, IssueStep
  <2> QED
    BY <2>1, <2>2, <2>3
<1>3. CASE InsertReset(l)
  <2>1. /\ link[l].pc = "insert" /\ UNCHANGED <<member, code, move, send, form, posts, outdone>>
        /\ (Tokens(m, {"reset"}) = {} /\ Issued(l, {})) \/ LinkGoes(l, "done")
    BY <1>3 DEF InsertReset, LinkAt
  <2>2. CASE LinkGoes(l, "done")
    BY <2>1, <2>2, GoesStep DEF Asked
  <2>3. CASE Tokens(m, {"reset"}) = {} /\ Issued(l, {})
    <3>1. link[l].kind = "reset"
      BY <2>1 DEF AccessInv, LinksOK, LinkOK
    <3>2. \A k \in Links \ {l} : Live(k) /\ link[k].member = m /\ link[k].kind = link[l].kind
            => k \in {}
      BY <2>3, <3>1 DEF Tokens
    <3>3. NewlyDead
      BY <2>1 DEF NewlyDead
    <3> QED
      BY <2>1, <2>3, <3>2, <3>3, IssueStep
  <2> QED
    BY <2>1, <2>2, <2>3
<1> QED
  BY <1>1, <1>2, <1>3

------------------------------------------------------------------------------
(* The move is claimed: the member is locked out until the link is used.   *)
Turned(x) == [x EXCEPT !.disabled = TRUE, !.must = TRUE]
LEMMA TurnedIs ==
  ASSUME NEW x \in Row
  PROVE  Turned(x) \in Row /\ Turned(x).email = x.email /\ Turned(x).verified = x.verified
  BY DEF Row, Turned

LEMMA ClaimStep ==
  ASSUME AccessInv, NEW l \in Links, link[l].pc = "check", link[l].member \in Members,
         ~Claimed(link[l].to, link[l].member),
         Issued(l, Tokens(link[l].member, Kinds)), Outdo(link[l].member, Kinds),
         move' = [move EXCEPT ![link[l].member] =
                    [email |-> link[l].to, done |-> FALSE, link |-> l]],
         member' = [member EXCEPT ![link[l].member].disabled = TRUE,
                                  ![link[l].member].must = TRUE],
         UNCHANGED <<code, send, form, posts>>
  PROVE  AccessInv'
<1> DEFINE m == link[l].member
           claim == [email |-> link[l].to, done |-> FALSE, link |-> l]
           gone == Tokens(m, Kinds)
<1>0. \A k \in Links : link[k].kind \in Kinds
  BY DEF AccessInv, Types, Link
<1>1. /\ \A k \in gone : Live(k)
      /\ \A k \in Links \ {l} : Live(k) /\ link[k].member = m => k \in gone
  BY <1>0 DEF Tokens
<1>2. /\ link' \in [Links -> Link] /\ \A k \in Links : Same(k)
      /\ link'[l].pc = "deliver"
      /\ \A k \in Links \ {l} :
           /\ link'[k].pc = link[k].pc
           /\ k \in gone => link'[k].token = "consumed"
           /\ k \notin gone => link'[k].token = link[k].token
  BY <1>1, IssuedIs
<1>3. LinksStay /\ DeadStay /\ LinksOK' /\ OneToken'
  BY <1>1, IssuedLinks
<1>4. OutdoneAreDead' /\ outdone' \subseteq Links
  BY <1>3, OutdoDead, OutdoneKept
<1>5. member' \in [Members -> Row] /\ MembersStay
  <2>1. member \in [Members -> Row]
    BY DEF AccessInv, Types
  <2>2. member' = [member EXCEPT ![m] = Turned(member[m])]
    BY <2>1 DEF Turned
  <2>3. Turned(member[m]) \in Row /\ Turned(member[m]).email = member[m].email
        /\ Turned(member[m]).verified = member[m].verified
    BY <2>1, TurnedIs
  <2> QED
    BY <2>1, <2>2, <2>3 DEF MembersStay
<1>6. link[l].kind = "move" /\ link[l].channel = "email" /\ link[l].to \in Emails
  BY DEF AccessInv, LinksOK, LinkOK, Asked
<1>7. claim \in Move /\ claim # None
  <2>1. claim \in [email : Emails, done : BOOLEAN, link : Links]
    BY <1>6
  <2>2. None \notin [email : Emails, done : BOOLEAN, link : Links]
    BY NoneAssumption
  <2> HIDE DEF claim
  <2> QED
    BY <2>1, <2>2 DEF Move
<1>8. move' \in [Members -> Move \cup {None}]
      /\ \A n \in Members : move'[n] = IF n = m THEN claim ELSE move[n]
  <2> HIDE DEF claim
  <2>1. move' = [move EXCEPT ![m] = claim]
    BY DEF claim
  <2> QED
    BY <1>7, <2>1 DEF AccessInv, Types
<1>9. claim.email = link[l].to
  OBVIOUS
<1> HIDE DEF claim
<1>10. Types' /\ SendsStay
  BY <1>2, <1>4, <1>5, <1>8 DEF AccessInv, Types, SendsStay
<1>11. ClaimsDiffer'
  <2>1. \A n \in Members : n # m /\ move[n] # None => move[n].email # link[l].to
    BY DEF Claimed
  <2>2. \A n, k \in Members : n # k /\ move[n] # None /\ move[k] # None => move[n].email # move[k].email
    BY DEF AccessInv, ClaimsDiffer
  <2> QED
    BY <1>8, <1>9, <2>1, <2>2 DEF ClaimsDiffer
<1>12. LiveMovesClaim'
  <2> SUFFICES ASSUME NEW k \in Links, Live(k)', link'[k].kind = "move"
               PROVE  move'[link'[k].member] # None /\ move'[link'[k].member].email = link'[k].to
    BY DEF LiveMovesClaim
  <2>1. link'[k].member = link[k].member /\ link'[k].kind = link[k].kind /\ link'[k].to = link[k].to
    BY <1>2 DEF Same
  <2>2. CASE k = l
    BY <1>7, <1>8, <1>9, <2>1, <2>2
  <2>3. CASE k # l
    <3>1. Live(k) /\ link[k].member # m
      BY <1>1, <1>2, <2>3 DEF Live
    <3>2. LinkOK(k)
      BY DEF AccessInv, LinksOK
    <3>3. link[k].member \in Members
      BY <3>1, <3>2 DEF LinkOK, Asked, Live
    <3>4. move[link[k].member] # None /\ move[link[k].member].email = link[k].to
      BY <2>1, <3>1 DEF AccessInv, LiveMovesClaim
    <3> QED
      BY <1>8, <2>1, <3>1, <3>3, <3>4
  <2> QED
    BY <2>2, <2>3
<1>13. MailedToFile'
  <2>1. \A k \in Links : Asked(k) \/ ~Asked(k)'
    BY <1>2 DEF Asked
  <2> QED
    BY <1>3, <1>5, <2>1, FileKept DEF LinksOK, LinkOK
<1>14. PostsOK' /\ VerifiedByMail'
  BY <1>3, <1>5, <1>10, PostsKept, VerifiedKept
<1>15. OwnAddresses' /\ SendsOK'
  BY <1>5, OthersKept
<1> QED
  BY <1>3, <1>4, <1>10, <1>11, <1>12, <1>13, <1>14, <1>15 DEF AccessInv

LEMMA BeginsStep ==
  ASSUME AccessInv, NEW l \in Links, BeginInsert(l) \/ Abort(l)
  PROVE  AccessInv'
<1>1. /\ link[l].pc = "check" /\ UNCHANGED <<code, send, form, posts>>
      /\ \/ LinkGoes(l, "done") /\ UNCHANGED <<member, move, outdone>>
         \/ BeginInsert(l) /\ ~Claimed(link[l].to, link[l].member)
  BY DEF BeginInsert, Abort, LinkAt
<1>2. CASE LinkGoes(l, "done") /\ UNCHANGED <<member, move, outdone>>
  BY <1>1, <1>2, GoesStep DEF Asked
<1>3. CASE BeginInsert(l) /\ ~Claimed(link[l].to, link[l].member)
  <2>1. link[l].member \in Members
    BY <1>1 DEF AccessInv, LinksOK, LinkOK, Asked
  <2>2. /\ Issued(l, Tokens(link[l].member, Kinds)) /\ Outdo(link[l].member, Kinds)
        /\ move' = [move EXCEPT ![link[l].member] =
                      [email |-> link[l].to, done |-> FALSE, link |-> l]]
        /\ member' = [member EXCEPT ![link[l].member].disabled = TRUE,
                                    ![link[l].member].must = TRUE]
    BY <1>3 DEF BeginInsert
  <2> QED
    BY <1>1, <1>3, <2>1, <2>2, ClaimStep
<1> QED
  BY <1>1, <1>2, <1>3

(* The link goes out to the address the request decided on, or nowhere.    *)
LEMMA DeliverStep ==
  ASSUME AccessInv, NEW l \in Links, Deliver(l)
  PROVE  AccessInv'
<1> DEFINE new == [to |-> link[l].to, what |-> l]
<1>0. Types /\ PostsOK
  BY DEF AccessInv
<1>1. /\ link[l].pc = "deliver" /\ LinkGoes(l, "done")
      /\ posts' = posts \/ posts' = posts \cup {new}
      /\ UNCHANGED <<member, code, move, send, form, outdone>>
  BY DEF Deliver, LinkAt, Post
<1>2. /\ link' \in [Links -> Link] /\ link'[l].pc = "done"
      /\ \A k \in Links : Same(k) /\ link'[k].token = link[k].token
      /\ \A k \in Links \ {l} : link'[k] = link[k]
  BY <1>0, <1>1, LinkGoesIs DEF LinkPCs
<1>3. LinksStay /\ NoNewToken /\ DeadStay /\ MembersStay /\ SendsStay
  BY <1>1, <1>2 DEF LinksStay, NoNewToken, DeadStay, MembersStay, SendsStay, Live, Asked
<1>4. ASSUME NEW k \in Links PROVE LinkOK(k)'
  <2>1. LinkOK(k)
    BY DEF AccessInv, LinksOK
  <2>2. CASE k = l
    BY <1>1, <1>2, <2>1, <2>2 DEF LinkOK, Asked, Same
  <2>3. CASE k # l
    BY <1>2, <2>1, <2>3 DEF LinkOK, Asked
  <2> QED
    BY <2>2, <2>3
<1>5. new \in [to : Address, what : Sends \cup Links] /\ new.what = l /\ new.to = link[l].to
  BY <1>0 DEF Types, Link
<1>6. posts' \subseteq [to : Address, what : Sends \cup Links] /\ posts \subseteq posts'
  BY <1>0, <1>1, <1>5 DEF Types
<1>7. PostsOK'
  <2> HIDE DEF new
  <2>1. \A p \in posts' : p.what \in Sends => send'[p.what].pc # "idle" /\ p.to = send'[p.what].email
    BY <1>0, <1>1, <1>5, RequestsAssumption DEF PostsOK
  <2>2. \A p \in posts' : p.what \in Links => Asked(p.what)' /\ p.to = link'[p.what].to
    BY <1>0, <1>1, <1>2, <1>3, <1>5 DEF PostsOK, LinksStay, Same, Asked
  <2>3. \A f \in Forms : form'[f] # None => \E p \in posts' : p.what = form'[f]
    BY <1>0, <1>1, <1>6 DEF PostsOK, Received
  <2> QED
    BY <2>1, <2>2, <2>3 DEF PostsOK, Received
<1>8. VerifiedByMail'
  BY <1>3, <1>6, VerifiedKept
<1>9. MailedToFile'
  <2>1. \A k \in Links : Asked(k) \/ ~Asked(k)'
    BY <1>1, <1>2 DEF Asked
  <2>2. \A k \in Links : Asked(k)' => link'[k].member \in Members
    BY <1>4 DEF LinkOK
  <2> QED
    BY <1>3, <2>1, <2>2, FileKept
<1>10. Types'
  BY <1>0, <1>1, <1>2, <1>6 DEF Types
<1> QED
  BY <1>1, <1>3, <1>4, <1>7, <1>8, <1>9, <1>10, OthersKept DEF AccessInv, LinksOK

LEMMA ReadStep ==
  ASSUME AccessInv, NEW f \in Forms, NEW l \in Links, ReadLink(f, l)
  PROVE  AccessInv'
<1>0. AccessInv /\ Types /\ PostsOK
  BY DEF AccessInv
<1>1. /\ form' = [form EXCEPT ![f] = l] /\ \E p \in posts : p.what = l
      /\ UNCHANGED <<member, code, move, link, send, posts, outdone>>
  BY DEF ReadLink, Received
<1>2. Types'
  BY <1>0, <1>1 DEF Types
<1>3. \A g \in Forms : form'[g] = IF g = f THEN l ELSE form[g]
  BY <1>0, <1>1 DEF Types
<1>4. PostsOK'
  BY <1>0, <1>1, <1>3 DEF PostsOK, Received, Asked
<1>5. LinksStay /\ SendsStay /\ MembersStay /\ NoNewToken /\ DeadStay
  BY <1>1 DEF LinksStay, SendsStay, MembersStay, NoNewToken, DeadStay, Same, Live, Asked
<1>6. LinksOK' /\ MailedToFile'
  BY <1>0, <1>1 DEF AccessInv, LinksOK, LinkOK, Asked, MailedToFile
<1>7. VerifiedByMail'
  BY <1>1, <1>5, VerifiedKept
<1> QED
  BY <1>1, <1>2, <1>4, <1>5, <1>6, <1>7, OthersKept DEF AccessInv

------------------------------------------------------------------------------
(* One member's row changes, by a mail that this member received.          *)
OthersStay(m) ==
  \A n \in Members \ {m} :
    member'[n].email = member[n].email /\ member'[n].verified = member[n].verified

LEMMA ProvedKeeps ==
  ASSUME AccessInv, LinksStay, SendsStay, posts' = posts, NEW m \in Members, OthersStay(m),
         \A l \in Links : Asked(l) \/ ~Asked(l)',
         member'[m].email = member[m].email \/ ~Taken(member'[m].email, m),
         \/ /\ member'[m].email = member[m].email
            /\ member'[m].verified = member[m].verified
         \/ /\ member'[m].verified
            /\ \/ member'[m].email = member[m].email /\ member[m].verified
               \/ \E p \in posts : p.to = member'[m].email /\ p.to # None /\ About(p.what) = m
  PROVE  OwnAddresses' /\ MailedToFile' /\ VerifiedByMail'
<1>1. OwnAddresses'
  BY DEF AccessInv, OwnAddresses, OthersStay, Taken
<1>2. MailedToFile'
  <2> SUFFICES ASSUME NEW l \in Links, Asked(l)', link'[l].channel = "email", link'[l].kind # "move"
               PROVE  \/ member'[link'[l].member].email = link'[l].to
                      \/ member'[link'[l].member].verified
    BY DEF MailedToFile
  <2>1. LinkOK(l)
    BY DEF AccessInv, LinksOK
  <2>2. Asked(l) /\ Same(l) /\ link[l].member \in Members
    BY <2>1 DEF LinksStay, LinkOK
  <2>3. member[link[l].member].email = link[l].to \/ member[link[l].member].verified
    BY <2>2 DEF AccessInv, MailedToFile, Same
  <2> QED
    BY <2>2, <2>3 DEF Same, OthersStay
<1>3. ASSUME NEW n \in Members, member'[n].verified
      PROVE  \E p \in posts' : p.to = member'[n].email /\ p.to # None /\ About(p.what)' = n
  <2>1. CASE member'[n].email = member[n].email /\ member[n].verified
    BY <1>3, <2>1, StillVerified
  <2>2. CASE ~(member'[n].email = member[n].email /\ member[n].verified)
    <3>1. n = m /\ \E p \in posts : p.to = member'[m].email /\ p.to # None /\ About(p.what) = m
      BY <1>3, <2>2 DEF OthersStay
    <3> QED
      BY <3>1, AboutStays
  <2> QED
    BY <2>1, <2>2
<1> QED
  BY <1>1, <1>2, <1>3 DEF VerifiedByMail

Proven(x, email) == [x EXCEPT !.email = email, !.verified = TRUE]
LEMMA ProvenIs ==
  ASSUME NEW x \in Row, NEW email \in Emails
  PROVE  /\ Proven(x, email) \in Row /\ Proven(x, email).email = email
         /\ Proven(x, email).verified
  BY DEF Row, Proven, Address

LEMMA VerifyStep ==
  ASSUME AccessInv, NEW m \in Members, NEW p \in Purposes, Verify(m, p)
  PROVE  AccessInv'
<1> DEFINE e == code[m][p].email
           s == code[m][p].by
<1>0. Types /\ PostsOK /\ SendsOK
  BY DEF AccessInv
<1>1. /\ code[m][p] # None /\ (\E q \in posts : q.what = s) /\ ~Taken(e, m)
      /\ UNCHANGED <<move, link, send, form, posts, outdone>>
  BY DEF Verify, Received
<1>12. /\ member' = [member EXCEPT ![m].email = e, ![m].verified = TRUE]
       /\ code' = [code EXCEPT ![m][p].status = "closed"]
  BY DEF Verify
<1>2. /\ s \in Sends /\ e \in Emails /\ send[s].pc # "idle" /\ send[s].member = m
      /\ send[s].email = e
  BY <1>0, <1>1 DEF Types, Challenge, SendsOK
<1>3. /\ code' \in [Members -> [Purposes -> Challenge \cup {None}]]
      /\ \A n \in Members, q \in Purposes : code'[n][q] # None =>
           /\ code[n][q] # None /\ code'[n][q].by = code[n][q].by
           /\ code'[n][q].email = code[n][q].email
  BY <1>1, <1>12, RestampIs
<1>4. member' = [member EXCEPT ![m] = Proven(member[m], e)]
  BY <1>0, <1>12 DEF Proven, Types
<1>5. /\ member' \in [Members -> Row] /\ OthersStay(m)
      /\ member'[m].email = e /\ member'[m].verified
  <2>1. Proven(member[m], e) \in Row /\ Proven(member[m], e).email = e
        /\ Proven(member[m], e).verified
    BY <1>0, <1>2, ProvenIs DEF Types
  <2> DEFINE y == Proven(member[m], e)
  <2>2. y \in Row /\ y.email = e /\ y.verified
    BY <2>1
  <2>3. member' = [member EXCEPT ![m] = y]
    BY <1>4
  <2> HIDE DEF e, y
  <2>4. member' \in [Members -> Row] /\ member'[m] = y
    BY <1>0, <2>2, <2>3 DEF Types
  <2>5. OthersStay(m)
    BY <1>0, <2>3 DEF Types, OthersStay
  <2> QED
    BY <2>2, <2>4, <2>5
<1>6. SendsStay /\ LinksStay /\ NoNewToken /\ DeadStay /\ \A l \in Links : Asked(l) \/ ~Asked(l)'
  BY <1>1 DEF SendsStay, LinksStay, NoNewToken, DeadStay, Same, Live, Asked
<1>7. SendsOK'
  BY <1>0, <1>1, <1>3, <1>6, CodesNamed DEF SendsOK
<1>8. \E q \in posts : q.to = member'[m].email /\ q.to # None /\ About(q.what) = m
  BY <1>0, <1>1, <1>2, <1>5, NoneAssumption DEF PostsOK, About
<1>9. OwnAddresses' /\ MailedToFile' /\ VerifiedByMail'
  BY <1>1, <1>5, <1>6, <1>8, ProvedKeeps
<1>10. LinksOK'
  BY <1>1 DEF AccessInv, LinksOK, LinkOK, Asked
<1>11. Types' /\ PostsOK'
  BY <1>0, <1>1, <1>3, <1>5, <1>6, PostsKept DEF Types
<1> QED
  BY <1>1, <1>6, <1>7, <1>9, <1>10, <1>11, OthersKept DEF AccessInv

Set(x, email, byMail) == [x EXCEPT !.email = email, !.verified = @ \/ byMail, !.must = FALSE]
LEMMA SetIs ==
  ASSUME NEW x \in Row, NEW email \in Address, NEW byMail \in BOOLEAN
  PROVE  /\ Set(x, email, byMail) \in Row /\ Set(x, email, byMail).email = email
         /\ Set(x, email, byMail).verified <=> x.verified \/ byMail
<1> DEFINE v == x.verified \/ byMail
           y == [x EXCEPT !.email = email, !.verified = v, !.must = FALSE]
<1>1. v \in BOOLEAN /\ (v <=> x.verified \/ byMail)
  OBVIOUS
<1>2. Set(x, email, byMail) = y
  BY DEF Row, Set
<1> HIDE DEF v
<1>3. y \in Row /\ y.email = email /\ y.verified = v
  BY <1>1 DEF Row
<1> QED
  BY <1>1, <1>2, <1>3

Used(x) == [x EXCEPT !.token = "used"]
LEMMA UsedIs ==
  ASSUME NEW x \in Link
  PROVE  /\ Used(x) \in Link /\ Used(x).pc = x.pc /\ Used(x).token = "used"
         /\ Used(x).member = x.member /\ Used(x).kind = x.kind
         /\ Used(x).channel = x.channel /\ Used(x).to = x.to
  BY DEF Link, Used

Over(x) == [x EXCEPT !.done = TRUE]
LEMMA OverIs ==
  ASSUME NEW x \in Move
  PROVE  Over(x) \in Move /\ Over(x).email = x.email
  BY DEF Move, Over

(* The rows a completed link leaves.                                       *)
LEMMA UseIs ==
  ASSUME AccessInv, NEW l \in Links, Asked(l), Allowed(l),
         link' = [link EXCEPT ![l].token = "used"],
         member' = [member EXCEPT ![link[l].member] = RowAfter(l)],
         move' = IF link[l].kind = "move" THEN [move EXCEPT ![link[l].member].done = TRUE] ELSE move
  PROVE  /\ link' \in [Links -> Link] /\ link'[l].token = "used"
         /\ \A k \in Links : Same(k) /\ link'[k].pc = link[k].pc
         /\ \A k \in Links \ {l} : link'[k].token = link[k].token
         /\ member' \in [Members -> Row] /\ OthersStay(link[l].member)
         /\ member'[link[l].member].email = IF link[l].kind = "move" THEN link[l].to
                                            ELSE member[link[l].member].email
         /\ member'[link[l].member].verified <=>
              member[link[l].member].verified \/ link[l].channel = "email"
         /\ move' \in [Members -> Move \cup {None}]
         /\ \A n \in Members : /\ move'[n] # None => move[n] # None /\ move'[n].email = move[n].email
                               /\ move[n] # None => move'[n] # None
<1> DEFINE m == link[l].member
           row == Set(member[m], IF link[l].kind = "move" THEN move[m].email ELSE member[m].email,
                      link[l].channel = "email")
           to == IF link[l].kind = "move" THEN link[l].to ELSE member[m].email
<1>0. Types /\ m \in Members /\ link[l] \in Link /\ member[m] \in Row
  BY DEF AccessInv, Types, LinksOK, LinkOK
<1>1. link[l].kind = "move" => move[m] # None /\ move[m] \in Move /\ move[m].email = link[l].to
  <2>1. Live(l) /\ (link[l].kind = "move" => move[m] # None)
    BY DEF Allowed, Moving
  <2> QED
    BY <1>0, <2>1 DEF AccessInv, LiveMovesClaim, Types
<1>2. /\ link' \in [Links -> Link] /\ link'[l].token = "used"
      /\ \A k \in Links : Same(k) /\ link'[k].pc = link[k].pc
      /\ \A k \in Links \ {l} : link'[k].token = link[k].token
  <2>1. link' = [link EXCEPT ![l] = Used(link[l])]
    BY <1>0 DEF Used, Types
  <2> DEFINE y == Used(link[l])
  <2>2. /\ y \in Link /\ y.pc = link[l].pc /\ y.token = "used"
        /\ y.member = link[l].member /\ y.kind = link[l].kind
        /\ y.channel = link[l].channel /\ y.to = link[l].to
    BY <1>0, UsedIs
  <2> HIDE DEF y
  <2>3. link' \in [Links -> Link] /\ \A k \in Links : link'[k] = IF k = l THEN y ELSE link[k]
    BY <1>0, <2>1, <2>2 DEF Types, y
  <2> QED
    BY <2>2, <2>3 DEF Same
<1>3. row \in Row /\ row.email = to /\ (row.verified <=> member[m].verified \/ link[l].channel = "email")
  <2> DEFINE by == link[l].channel = "email"
  <2>1. by \in BOOLEAN /\ to \in Address
    BY <1>0 DEF Link, Row
  <2>2. row = Set(member[m], to, by)
    BY <1>1
  <2> HIDE DEF row, to
  <2> QED
    BY <1>0, <2>1, <2>2, SetIs
<1>4. /\ member' \in [Members -> Row] /\ OthersStay(m) /\ member'[m] = row
  <2>1. RowAfter(l) = row
    BY DEF RowAfter, Set
  <2>2. member' = [member EXCEPT ![m] = row]
    BY <2>1
  <2> HIDE DEF row
  <2> QED
    BY <1>0, <1>3, <2>2 DEF Types, OthersStay
<1>5. /\ move' \in [Members -> Move \cup {None}]
      /\ \A n \in Members : /\ move'[n] # None => move[n] # None /\ move'[n].email = move[n].email
                            /\ move[n] # None => move'[n] # None
  <2>1. CASE link[l].kind # "move"
    BY <1>0, <2>1 DEF Types
  <2>2. CASE link[l].kind = "move"
    <3> DEFINE y == Over(move[m])
    <3>1. move' = [move EXCEPT ![m] = y]
      BY <1>0, <2>2 DEF Over, Types
    <3>2. y \in Move /\ y.email = move[m].email /\ y # None
      BY <1>1, <2>2, OverIs, NoneAssumption DEF Move
    <3> HIDE DEF y
    <3> QED
      BY <1>0, <1>1, <2>2, <3>1, <3>2 DEF Types
  <2> QED
    BY <2>1, <2>2
<1> HIDE DEF row, to
<1>6. member'[m].email = to /\ (member'[m].verified <=> member[m].verified \/ link[l].channel = "email")
  BY <1>3, <1>4
<1> QED
  BY <1>2, <1>4, <1>5, <1>6 DEF to

LEMMA FinishStep ==
  ASSUME AccessInv, NEW f \in Forms, Finish(f)
  PROVE  AccessInv'
<1> DEFINE l == form[f]
           m == link[form[f]].member
<1>0. Types /\ PostsOK
  BY DEF AccessInv
<1>1. /\ form[f] # None /\ form' = [form EXCEPT ![f] = None]
      /\ UNCHANGED <<code, send, posts, outdone>>
  BY DEF Finish
<1>2. l \in Links /\ (\E p \in posts : p.what = l)
  BY <1>0, <1>1 DEF Types, PostsOK, Received
<1>3. Asked(l) /\ m \in Members /\ LinkOK(l)
  <2>1. LinkOK(l)
    BY <1>2 DEF AccessInv, LinksOK
  <2> QED
    BY <1>0, <1>2, <2>1 DEF PostsOK, LinkOK
<1>4. /\ form' \in [Forms -> Links \cup {None}]
      /\ \A g \in Forms : form'[g] # None => form'[g] = form[g]
  BY <1>0, <1>1 DEF Types
<1>5. ASSUME LinksStay, \A k \in Links : Asked(k) \/ ~Asked(k)'
      PROVE  PostsOK'
  <2>1. \A p \in posts : p.what \in Sends => send'[p.what].pc # "idle" /\ p.to = send'[p.what].email
    BY <1>0, <1>1 DEF PostsOK
  <2>2. \A p \in posts : p.what \in Links => Asked(p.what)' /\ p.to = link'[p.what].to
    BY <1>0, <1>5 DEF PostsOK, LinksStay, Same
  <2>3. \A g \in Forms : form'[g] # None => \E p \in posts : p.what = form'[g]
    BY <1>0, <1>4 DEF PostsOK, Received
  <2> QED
    BY <1>1, <2>1, <2>2, <2>3 DEF PostsOK, Received
<1>6. CASE ~Allowed(l)
  <2>1. UNCHANGED <<link, member, move>>
    BY <1>6 DEF Finish
  <2>2. LinksStay /\ NoNewToken /\ DeadStay /\ MembersStay /\ SendsStay
        /\ \A k \in Links : Asked(k) \/ ~Asked(k)'
    BY <1>1, <2>1 DEF LinksStay, NoNewToken, DeadStay, MembersStay, SendsStay, Live, Asked, Same
  <2>3. LinksOK' /\ MailedToFile'
    BY <2>1 DEF AccessInv, LinksOK, LinkOK, Asked, MailedToFile
  <2>4. PostsOK' /\ VerifiedByMail'
    BY <1>1, <1>5, <2>2, VerifiedKept
  <2>5. Types'
    BY <1>0, <1>1, <1>4, <2>1 DEF Types
  <2> QED
    BY <1>1, <2>1, <2>2, <2>3, <2>4, <2>5, OthersKept DEF AccessInv
<1>7. CASE Allowed(l)
  <2>1. /\ link' = [link EXCEPT ![l].token = "used"]
        /\ member' = [member EXCEPT ![link[l].member] = RowAfter(l)]
        /\ move' = IF link[l].kind = "move" THEN [move EXCEPT ![link[l].member].done = TRUE]
                   ELSE move
    BY <1>7 DEF Finish
  <2>2. Live(l) /\ (link[l].kind = "move" => ~Taken(move[m].email, m) /\ move[m].email = link[l].to)
    BY <1>2, <1>7 DEF Allowed, AccessInv, LiveMovesClaim
  <2>3. /\ link' \in [Links -> Link] /\ link'[l].token = "used"
        /\ \A k \in Links : Same(k) /\ link'[k].pc = link[k].pc
        /\ \A k \in Links \ {l} : link'[k].token = link[k].token
        /\ member' \in [Members -> Row] /\ OthersStay(m)
        /\ member'[m].email = IF link[l].kind = "move" THEN link[l].to ELSE member[m].email
        /\ member'[m].verified <=> member[m].verified \/ link[l].channel = "email"
        /\ move' \in [Members -> Move \cup {None}]
        /\ \A k \in Members : /\ move'[k] # None => move[k] # None /\ move'[k].email = move[k].email
                              /\ move[k] # None => move'[k] # None
    BY <1>2, <1>3, <1>7, <2>1, UseIs
  <2>4. LinksStay /\ NoNewToken /\ DeadStay /\ SendsStay /\ \A k \in Links : Asked(k) \/ ~Asked(k)'
    BY <1>1, <2>3 DEF LinksStay, NoNewToken, DeadStay, SendsStay, Live, Asked
  <2>5. ASSUME NEW k \in Links PROVE LinkOK(k)'
    <3>1. LinkOK(k)
      BY DEF AccessInv, LinksOK
    <3>2. k = l => link[k].token = "active"
      BY <2>2 DEF Live
    <3> QED
      BY <2>3, <3>1, <3>2 DEF LinkOK, Asked, Same
  <2>6. /\ member'[m].email = member[m].email \/ ~Taken(member'[m].email, m)
        /\ \/ /\ member'[m].email = member[m].email
              /\ member'[m].verified = member[m].verified
           \/ /\ member'[m].verified
              /\ \/ member'[m].email = member[m].email /\ member[m].verified
                 \/ \E p \in posts : p.to = member'[m].email /\ p.to # None /\ About(p.what) = m
    <3>1. /\ member'[m].email = IF link[l].kind = "move" THEN link[l].to ELSE member[m].email
          /\ member'[m].verified <=> member[m].verified \/ link[l].channel = "email"
      BY <2>3
    <3>2. CASE link[l].channel # "email"
      <4>1. link[l].kind # "move" /\ member'[m].verified \in BOOLEAN /\ member[m].verified \in BOOLEAN
        BY <1>0, <1>3, <2>3, <3>2 DEF LinkOK, Types, Row
      <4> QED
        BY <3>1, <3>2, <4>1
    <3>3. CASE link[l].channel = "email"
      <4>1. link[l].to \in Emails /\ member'[m].verified
        BY <1>3, <3>1, <3>3 DEF LinkOK
      <4>2. \E p \in posts : p.to = link[l].to /\ p.to # None /\ About(p.what) = m
        BY <1>0, <1>2, <4>1, RequestsAssumption, NoneAssumption DEF PostsOK, About
      <4>3. CASE link[l].kind = "move"
        BY <2>2, <3>1, <4>1, <4>2, <4>3
      <4>4. CASE link[l].kind # "move"
        <5>1. member[m].email = link[l].to \/ member[m].verified
          BY <1>2, <1>3, <3>3, <4>4 DEF AccessInv, MailedToFile
        <5> QED
          BY <3>1, <4>1, <4>2, <4>4, <5>1
      <4> QED
        BY <4>3, <4>4
    <3> QED
      BY <3>2, <3>3
  <2>7. OwnAddresses' /\ MailedToFile' /\ VerifiedByMail'
    BY <1>1, <1>3, <2>3, <2>4, <2>6, ProvedKeeps
  <2>8. ClaimsDiffer'
    BY <2>3 DEF AccessInv, ClaimsDiffer
  <2>9. LiveMovesClaim'
    <3> SUFFICES ASSUME NEW k \in Links, Live(k)', link'[k].kind = "move"
                 PROVE  move'[link'[k].member] # None /\ move'[link'[k].member].email = link'[k].to
      BY DEF LiveMovesClaim
    <3>1. Live(k) /\ Same(k) /\ LinkOK(k)
      BY <2>4 DEF NoNewToken, AccessInv, LinksOK
    <3>2. link[k].member \in Members
      BY <3>1 DEF LinkOK, Asked, Live
    <3>3. move[link[k].member] # None /\ move[link[k].member].email = link[k].to
      BY <3>1 DEF AccessInv, LiveMovesClaim, Same
    <3> QED
      BY <2>3, <3>1, <3>2, <3>3 DEF Same
  <2>10. Types' /\ PostsOK'
    BY <1>0, <1>1, <1>4, <1>5, <2>3, <2>4 DEF Types
  <2> QED
    BY <1>1, <2>4, <2>5, <2>7, <2>8, <2>9, <2>10, OthersKept DEF AccessInv, LinksOK
<1> QED
  BY <1>6, <1>7

------------------------------------------------------------------------------
LEMMA AccessStep == AccessInv /\ [Next]_vars => AccessInv'
<1> SUFFICES ASSUME AccessInv, [Next]_vars PROVE AccessInv'
  OBVIOUS
<1>1. ASSUME NEW s \in Sends, SendStep(s) PROVE AccessInv'
  BY <1>1, StartSendStep, ReserveStep, MailCodeStep, MarkSentStep, DropPendingStep DEF SendStep
<1>2. ASSUME NEW l \in Links, LinkStep(l) PROVE AccessInv'
  BY <1>2, AsksStep, BeginsStep, IssuesStep, WipeStep, DeliverStep DEF LinkStep
<1>3. ASSUME NEW m \in Members, NEW p \in Purposes, LapseCode(m, p) \/ Verify(m, p)
      PROVE  AccessInv'
  BY <1>3, LapseStep, VerifyStep
<1>4. ASSUME NEW M \in (SUBSET Members) \ {{}}, Disable(M) PROVE AccessInv'
  BY <1>4, DisableStep
<1>5. ASSUME NEW f \in Forms, Finish(f) \/ \E l \in Links : ReadLink(f, l) PROVE AccessInv'
  BY <1>5, FinishStep, ReadStep
<1>6. CASE UNCHANGED vars
  BY <1>6 DEF vars, AccessInv, Types, OwnAddresses, OneToken, LinksOK, LinkOK, SendsOK, PostsOK,
              OutdoneAreDead, ClaimsDiffer, LiveMovesClaim, MailedToFile, VerifiedByMail,
              Asked, Live, Received, About
<1> QED
  BY <1>1, <1>2, <1>3, <1>4, <1>5, <1>6 DEF Next

LEMMA AccessInvariant == Spec => []AccessInv
<1> QED
  BY AccessInit, AccessStep, PTL DEF Spec

(* The rows keep their shape, and each unique index of the database holds. *)
THEOREM TypeCorrect == Spec => []TypeOK
<1>1. ASSUME AccessInv PROVE TypeOK
  <2>1. Types /\ OwnAddresses /\ OneToken
    BY <1>1 DEF AccessInv
  <2>2. ASSUME NEW m \in Members, NEW k \in Kinds PROVE Cardinality(Tokens(m, {k})) <= 1
    <3>1. CASE Tokens(m, {k}) = {}
      BY <3>1, FS_EmptySet
    <3>2. CASE Tokens(m, {k}) # {}
      <4>1. PICK l \in Links : l \in Tokens(m, {k})
        BY <3>2 DEF Tokens
      <4>2. Tokens(m, {k}) = {l}
        BY <2>1, <4>1 DEF Tokens, OneToken
      <4>3. Cardinality({l}) = 1
        BY FS_Singleton
      <4> QED
        BY <4>2, <4>3
    <3> QED
      BY <3>1, <3>2
  <2> QED
    BY <2>1, <2>2 DEF TypeOK, Types, OwnAddresses
<1> QED
  BY <1>1, AccessInvariant, PTL

(* A verified address was mailed a code or a link for that very member.    *)
THEOREM AddressesAreProved == Spec => []VerifiedByMail
<1>1. AccessInv => VerifiedByMail
  BY DEF AccessInv
<1> QED
  BY <1>1, AccessInvariant, PTL

(* A working move link is never for an address that another member's       *)
(* completed move owns.                                                    *)
THEOREM MovesAreExclusive == Spec => []MovesOwnTheirAddress
<1>1. ASSUME AccessInv PROVE MovesOwnTheirAddress
  <2> SUFFICES ASSUME NEW l \in Links, NEW n \in Members, Live(l), link[l].kind = "move",
                      n # link[l].member, move[n] # None
               PROVE  move[n].email # link[l].to
    BY DEF MovesOwnTheirAddress
  <2>1. LinkOK(l)
    BY <1>1 DEF AccessInv, LinksOK
  <2>2. link[l].member \in Members
    BY <2>1 DEF LinkOK, Asked, Live
  <2> QED
    BY <1>1, <2>2 DEF AccessInv, ClaimsDiffer, LiveMovesClaim
<1> QED
  BY <1>1, AccessInvariant, PTL

(* Only Finish uses a link, and only when it is allowed.                   *)
LEMMA UseIsAllowed ==
  ASSUME AccessInv, Next, NEW l \in Links, link[l].token # "used", link'[l].token = "used"
  PROVE  Allowed(l)
<1>0. Types
  BY DEF AccessInv
<1>1. ASSUME NEW k \in Links, NEW pc \in LinkPCs \ {"idle"}, LinkGoes(k, pc) PROVE FALSE
  BY <1>0, <1>1, LinkGoesIs
<1>2. ASSUME NEW k \in Links, NEW pc \in {"check", "admin", "invite", "wipe"}, NEW m, NEW kind,
             NEW channel, NEW to, Ask(k, pc, m, kind, channel, to)
      PROVE  FALSE
  BY <1>0, <1>2 DEF Ask, Types
<1>3. ASSUME NEW k \in Links, NEW gone, Issued(k, gone) PROVE FALSE
  <2>1. \/ link'[l] = Fresh(link[l])
        \/ link'[l] = Consumed(link[l])
        \/ link'[l] = link[l]
    BY <1>3 DEF Issued, Fresh, Consumed
  <2> QED
    BY <1>0, <2>1, RewrittenIs DEF Types
<1>4. CASE \E s \in Sends : SendStep(s)
  BY <1>4 DEF SendStep, StartSend, Reserve, MailCode, MarkSent, DropPending
<1>5. ASSUME NEW k \in Links, LinkStep(k) PROVE FALSE
  <2>1. ASSUME NEW m \in Members, NEW e \in Emails, BeginCheck(k, m, e) PROVE FALSE
    BY <1>2, <2>1 DEF BeginCheck
  <2>2. CASE BeginInsert(k) \/ Abort(k)
    BY <1>1, <1>3, <2>2 DEF BeginInsert, Abort, LinkPCs
  <2>3. ASSUME NEW m \in Members, NEW c \in Channels, AskAdmin(k, m, c) \/ AskInvite(k, m, c)
        PROVE  FALSE
    BY <1>2, <2>3 DEF AskAdmin, AskInvite
  <2>4. CASE IssueAdmin(k) \/ IssueInvite(k) \/ InsertReset(k)
    BY <1>1, <1>3, <2>4 DEF IssueAdmin, IssueInvite, InsertReset, LinkPCs
  <2>5. ASSUME NEW m \in Members, AskReset(k, m) PROVE FALSE
    BY <1>2, <2>5 DEF AskReset
  <2>6. CASE WipeResets(k)
    <3>1. \/ link'[l] = Past(link[l], "insert")
          \/ link'[l] = Consumed(link[l])
          \/ link'[l] = link[l]
      BY <2>6 DEF WipeResets, Past, Consumed
    <3> QED
      BY <1>0, <3>1, RewrittenIs DEF Types
  <2>7. CASE Deliver(k)
    BY <1>1, <2>7 DEF Deliver, LinkPCs
  <2> QED
    BY <1>5, <2>1, <2>2, <2>3, <2>4, <2>5, <2>6, <2>7 DEF LinkStep
<1>6. CASE \E m \in Members, p \in Purposes : LapseCode(m, p) \/ Verify(m, p)
  BY <1>6 DEF LapseCode, Verify
<1>7. ASSUME NEW M \in SUBSET Members, Disable(M) PROVE FALSE
  <2>1. link'[l] = Consumed(link[l]) \/ link'[l] = link[l]
    BY <1>7 DEF Disable, Consumed
  <2> QED
    BY <1>0, <2>1, RewrittenIs DEF Types
<1>8. ASSUME NEW f \in Forms, Finish(f) PROVE Allowed(l)
  <2>1. Allowed(form[f]) /\ link' = [link EXCEPT ![form[f]].token = "used"]
    BY <1>8 DEF Finish
  <2>2. form[f] # l => link'[l] = link[l]
    BY <1>0, <2>1 DEF Types
  <2> QED
    BY <2>1, <2>2
<1>9. CASE \E f \in Forms, k \in Links : ReadLink(f, k)
  BY <1>9 DEF ReadLink
<1> QED
  BY <1>4, <1>5, <1>6, <1>7, <1>8, <1>9 DEF Next

(* A link that a later one or the end of the Mattermost login has voided   *)
(* is never used, however what voids it, whoever opened it and its         *)
(* completion overlap.                                                     *)
THEOREM VoidedStayDead == Spec => VoidedLinksAreDead
<1>1. ASSUME AccessInv, [Next]_vars
      PROVE  [\A l \in outdone : link[l].token = "used" \/ link'[l].token # "used"]_vars
  <2> SUFFICES ASSUME Next, NEW l \in outdone, link[l].token # "used", link'[l].token = "used"
               PROVE  FALSE
    BY <1>1
  <2>1. l \in Links /\ link[l].token = "consumed"
    BY <1>1 DEF AccessInv, Types, OutdoneAreDead
  <2>2. Live(l)
    BY <1>1, <2>1, UseIsAllowed DEF Allowed
  <2> QED
    BY <2>1, <2>2 DEF Live
<1> QED
  BY <1>1, AccessInvariant, PTL DEF Spec, VoidedLinksAreDead
==================================================================================
