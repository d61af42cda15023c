----------------------------- MODULE MCReviewJob -----------------------------
(***************************************************************************)
(* Model checking instance of ReviewJob.                                   *)
(***************************************************************************)
EXTENDS ReviewJob, TLC

=============================================================================
