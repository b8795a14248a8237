--------------------------- MODULE MCAccessTokens ---------------------------
(* Instances of AccessTokens for TLC. *)
EXTENDS AccessTokens, TLC

Symmetry == Permutations(Jti) \cup Permutations(Request)
=============================================================================
