----------------------------- MODULE MCProjects -----------------------------
(* Instances of Projects for TLC. *)
EXTENDS Projects, TLC

Symmetry == Permutations(Project) \cup Permutations(Request)
=============================================================================
