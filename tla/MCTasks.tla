------------------------------ MODULE MCTasks ------------------------------
(* Instances of Tasks for TLC. *)
EXTENDS Tasks, TLC

Symmetry == Permutations(Task) \cup Permutations(Comment)
            \cup Permutations(File) \cup Permutations(User) \cup Permutations(Request)
=============================================================================
