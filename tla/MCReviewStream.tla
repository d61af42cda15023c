--------------------------- MODULE MCReviewStream ---------------------------
(***************************************************************************)
(* Model checking instance of ReviewStream.                                *)
(***************************************************************************)
EXTENDS ReviewStream

=============================================================================
