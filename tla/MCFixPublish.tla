---------------------------- MODULE MCFixPublish ----------------------------
(***************************************************************************)
(* Model checking instance of FixPublish. The liveness property rules out  *)
(* a symmetry reduction, although requests are interchangeable.            *)
(***************************************************************************)
EXTENDS FixPublish

=============================================================================
