--------------------------- MODULE PublishContract ---------------------------
(***************************************************************************)
(* What a client that polls a fix job may see of its publishing: the       *)
(* publish status and whether a pull request is recorded.  Only a request  *)
(* of the user starts a publish, from a job never published or last        *)
(* failed and without a recorded pull request; any outcome may overwrite   *)
(* another; a recorded pull request stays recorded.                        *)
(***************************************************************************)
CONSTANT Outcomes       \* publish statuses a publish attempt may report

VARIABLES publish,      \* publish_status
          recorded      \* is pr_url set?

vars == <<publish, recorded>>

Init == publish = "NOT_REQUESTED" /\ recorded = FALSE

Request ==
  /\ publish \in {"NOT_REQUESTED", "FAILED"}
  /\ ~recorded
  /\ publish' = "PUBLISHING"
  /\ UNCHANGED recorded

Report ==
  /\ publish # "NOT_REQUESTED"
  /\ publish' \in Outcomes
  /\ recorded' = (recorded \/ publish' = "PUBLISHED")

Next == Request \/ Report

Spec == Init /\ [][Next]_vars
=============================================================================
