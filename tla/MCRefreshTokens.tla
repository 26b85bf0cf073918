-------------------------- MODULE MCRefreshTokens ---------------------------
(***************************************************************************)
(* Small instances of RefreshTokens for TLC.                               *)
(***************************************************************************)
EXTENDS RefreshTokens, TLC

Symmetry == Permutations(Requests)
=============================================================================
