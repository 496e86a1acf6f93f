---------------------------- MODULE UploadPromise ----------------------------
(***************************************************************************)
(* What an image upload promises those who hand its id around: it becomes  *)
(* one asset or nothing, its end is final, and nothing but a discard ends  *)
(* it once it is an asset.  ImageUpload keeps this promise; SignupApproval *)
(* is built on it.                                                         *)
(***************************************************************************)
CONSTANTS Assets, None
VARIABLES state, asset, discarded

upload == <<state, asset, discarded>>

Init == state = "open" /\ asset = None /\ discarded = FALSE

Attach(a) ==
  /\ state = "open"
  /\ state' = "attached" /\ asset' = a /\ UNCHANGED discarded

Discard == discarded' = TRUE /\ UNCHANGED <<state, asset>>

Close ==
  /\ discarded' \in {discarded, TRUE}
  /\ state = "open" \/ (state = "attached" /\ discarded')
  /\ state' = "closed" /\ asset' = None

Next == (\E a \in Assets : Attach(a)) \/ Discard \/ Close

Spec == Init /\ [][Next]_upload
=============================================================================
