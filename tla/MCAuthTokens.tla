---------------------------- MODULE MCAuthTokens ----------------------------
(***************************************************************************)
(* Model checking instance of AuthTokens: one user, two requests at a      *)
(* time, a clock with two ticks to the second.                             *)
(***************************************************************************)
EXTENDS AuthTokens, TLC

Symmetry == Permutations(Requests)

=============================================================================
