--------------------------- MODULE ImageUploadProps ---------------------------
(* What an upload session must guarantee.                                  *)
EXTENDS ImageUpload

(* Migration 20260718223437: one upload is never connected to two different *)
(* final assets, neither in what callers are told nor in the buckets,      *)
(* however attaches overlap, fail and are repeated.                        *)
OneAsset == linked \cup stored \subseteq {row.asset}

(* The image of an attached session is in its bucket, but for two things   *)
(* the code does.  A sweep that reads a session past its end while it is   *)
(* attaching removes the asset even if it is attached meanwhile.  And a    *)
(* discard removes the asset before it closes the session, which it still  *)
(* has to do or which a fault kept it from.  No other discard or sweep,    *)
(* failed attach or reading of the row made earlier loses the image.       *)
AttachedIsStored ==
  row.status = "attached" /\ row.asset \notin stored =>
    \/ swept \/ halted # {}
    \/ \E d \in Discards : pc[d] \in {"close", "pend"} /\ seen[d].asset = row.asset

(* Migration 20260718224424: a completion does not turn the ready result of *)
(* another into a failure.                                                 *)
ReadyIsNotUndone ==
  [][row.status = "ready" /\ row'.status \in {"processing", "failed"}
       => \E c \in Discards \cup Sweeps : pc[c] = "pend"]_vars

(* What is built on an upload needs to know no more than UploadPromise:    *)
(* it becomes one asset or nothing, its end is final, and only a discard   *)
(* ends it once it is an asset.                                            *)
Promise == INSTANCE UploadPromise WITH
  state <- CASE row.status = "attached" -> "attached"
             [] row.status \in {"expired", "failed"} -> "closed"
             [] OTHER -> "open",
  asset <- IF row.status = "attached" THEN row.asset ELSE None
KeepsUploadPromise == Promise!Spec

(* Every session is attached or expired in the end, wherever its calls     *)
(* stopped, hung or failed: expireStale comes round until it is.           *)
SessionsClose == <>[](row.status \in {"attached", "expired"})
=============================================================================
