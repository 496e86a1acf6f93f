----------------------- MODULE PublicationNoticeProps -----------------------
(* What the announcement of a published partner must guarantee.            *)
EXTENDS PublicationNotice

(* Members are told of a publication once.  A repeat is always paid for: by *)
(* a campaign that was not recorded, a lease outlived by its sender, or a  *)
(* reset that wiped a lease or a record behind another caller's back.      *)
RepeatsAreExcused == allowance >= 0

(* A public partner that counts as announced was announced since it became *)
(* public: the record of an earlier publication is gone by then, unless its *)
(* removal failed (updatePartnerAction only logs that) or a caller that was *)
(* still at work wrote it back.                                            *)
RecordIsCurrent ==
  partner = "public" /\ row.sent /\ ~told =>
    silent \/ \E e \in Editors : pc[e] \in {"reset", "reset_send"}

(* Members are told of a published partner in the end, whatever crashed,   *)
(* failed or left its lease behind, as long as faults are finite.  A record *)
(* by itself does not count: it may be of an earlier publication, if the   *)
(* reset that had to wipe it failed or died, or if it was written by a     *)
(* caller that was overtaken.  Those are the only cases in which they are  *)
(* not told.                                                               *)
AnnouncedInTheEnd ==
  partner = "public" /\ reachable ~> told \/ partner # "public" \/ (row.sent /\ silent)
=============================================================================
