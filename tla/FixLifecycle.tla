---------------------------- MODULE FixLifecycle ----------------------------
(***************************************************************************)
(* What a client that polls a fix job may see: the statuses in order, a    *)
(* failure from any of them, and a patch with its verdicts that does not   *)
(* change from the moment it is offered for approval until it is published *)
(* or withdrawn by a failure.                                              *)
(***************************************************************************)

CONSTANT NoOffer

VARIABLES status, offer

vars == <<status, offer>>

\* FixJobStatus as the pipeline walks through it, one stage after the other.
After(s) == CASE s = "NONE"             -> "PENDING"
              [] s = "PENDING"          -> "PREPARING"
              [] s = "PREPARING"        -> "GENERATING_PATCH"
              [] s = "GENERATING_PATCH" -> "VALIDATING"

Init == status = "NONE" /\ offer = NoOffer

Advance ==
  /\ status \in {"NONE", "PENDING", "PREPARING", "GENERATING_PATCH"}
  /\ status' = After(status)
  /\ UNCHANGED offer

Offer ==
  /\ status = "VALIDATING"
  /\ status' = "WAITING_APPROVAL"
  /\ offer' # NoOffer

Publish ==
  /\ status = "WAITING_APPROVAL"
  /\ status' = "APPROVED"
  /\ UNCHANGED offer

\* mark_failed_by_id does not look at the status it replaces.
Fail ==
  /\ status \notin {"NONE", "DELETED"}
  /\ status' = "FAILED"
  /\ offer' = NoOffer

Delete ==
  /\ status \notin {"NONE", "DELETED"}
  /\ status' = "DELETED"
  /\ offer' = NoOffer

Next == Advance \/ Offer \/ Publish \/ Fail \/ Delete

Spec == Init /\ [][Next]_vars

=============================================================================
