----------------------------- MODULE MCSessions -----------------------------
(* Instances of Sessions for TLC. *)
EXTENDS Sessions, TLC

Symmetry == Permutations(User) \cup Permutations(Jti)
            \cup Permutations(ResetKey) \cup Permutations(Request)
=============================================================================
