---------------------------- MODULE ManualImportProps ----------------------------
(* What the bulk invitation promises. *)
EXTENDS ManualImport

Steps == {"off", "requeueCheck", "requeue", "read", "rowCheck", "claim", "claimCheck", "member",
          "photo", "photoMark", "intent", "mint", "issue", "attempt", "send", "sent", "create",
          "fail", "refresh", "remove", "cleanCheck", "result", "reopen", "finish", "catch",
          "restage", "release", "sweep", "done"}

(* Types, with the check constraint of the rows on delivery: an attempt    *)
(* has a key and a sent link was attempted; only a row in processing has a *)
(* call that knows its version, only a batch in processing an owner.       *)
TypeOK ==
    /\ batch.status \in {"ready", "processing", "completed", "expired"}
    /\ batch.owner \in Commits \cup {None}
    /\ batch.owner # None => batch.status = "processing"
    /\ \A k \in Rows :
          /\ row[k].status \in {"staged", "processing", "created", "failed"}
          /\ row[k].code \in {None, "retry", "exists", "unknown"}
          /\ row[k].code # None <=> row[k].status = "failed"
          /\ row[k].key \in Keys \cup {None}
          /\ row[k].attempted => row[k].key # None
          /\ row[k].sent => row[k].attempted
          /\ row[k].holder \in Commits \cup Reissues \cup {None}
          /\ row[k].holder # None => row[k].status = "processing"
          /\ member[k] \in {"none", "waiting", "set"}
          /\ link[k] \in Keys \cup {None}
          /\ posts[k] \subseteq [key : Keys, by : Commits \cup Reissues, link : Keys]
    /\ \A c \in Calls : call[c].pc \in Steps

(* No delivery key is used for two messages, whatever was retried, taken   *)
(* over or cut off: "A retry could send a second setup link".              *)
SentOncePerKey ==
    \A k \in Rows : \A p, q \in posts[k] : p.key = q.key => p = q

(* A row reported as created has its member, its photo's record, and a     *)
(* message a provider accepted under the row's own key; or under an earlier *)
(* one, where a reissue put its key on the row, unsent, between a commit's *)
(* reading of the row as sent and its claim of it.                         *)
CreatedIsComplete ==
    \A k \in Rows : row[k].status = "created" =>
        /\ member[k] # "none"
        /\ k \in Pictured => image[k]
        /\ \E p \in posts[k] :
              p.key = row[k].key \/ (~row[k].sent /\ row[k].key \in Reissues)

(* What a failed row tells the administrator is so: a row whose message is *)
(* in doubt has all that a reissue asks for, its member and its channel,   *)
(* and one that was already registered has made no member and sent nothing.*)
FailuresAreTrue ==
    \A k \in Rows :
        /\ row[k].code = "unknown" => member[k] # "none" /\ row[k].key # None
        /\ row[k].code = "exists" => member[k] = "none" /\ posts[k] = {}

(* A profile image record stands for an object in the private bucket.      *)
PhotosAreKept == \A k \in Rows : image[k] => stored[k]
=============================================================================
